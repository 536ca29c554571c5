--------------------------- MODULE StakeTotalsProofs ---------------------------
(***************************************************************************)
(* What is true of sums over all accounts: theorems about the custody of   *)
(* lamports, the stake that keys have delegated, the rewards due and the   *)
(* effective stake of a validator; and about what those who hold the       *)
(* authorities of an account can do with it.  All of them for every value  *)
(* of the constants.                                                       *)
(***************************************************************************)
EXTENDS StakeTransactionProofs, StakeEpochProofs, StakeAccess

-----------------------------------------------------------------------------
(* Sums before and after a step.                                           *)

LEMMA TotalSame ==
  ASSUME NEW f, NEW g, NEW s, \A a \in s : f[a] = g[a]
  PROVE  Total(f, s) = Total(g, s)
<1>1. Total(f, s) = Total([a \in s |-> f[a]], s)
  BY TotalIsFold DEF Total
<1>2. Total(g, s) = Total([a \in s |-> g[a]], s)
  BY TotalIsFold DEF Total
<1>3. [a \in s |-> f[a]] = [a \in s |-> g[a]]
  OBVIOUS
<1>. QED
  BY <1>1, <1>2, <1>3

\* What a has in the sum of f over s, and what the sum is of without it.
Part(f, s, a) == IF a \in s THEN f[a] ELSE 0
Without(s, a) == s \ {a}

LEMMA TotalInPart ==
  ASSUME NEW f, NEW s, IsFiniteSet(s), \A a \in s : f[a] \in Int, NEW x
  PROVE  /\ Total(f, Without(s, x)) \in Int
         /\ Part(f, s, x) \in Int
         /\ Total(f, s) = Part(f, s, x) + Total(f, Without(s, x))
<1>. DEFINE rest == Without(s, x)
<1>1. IsFiniteSet(rest) /\ \A a \in rest : f[a] \in Int
  BY FS_Subset DEF Without
<1>2. CASE x \in s
  <2>1. Total(f, s) = f[x] + Total(f, rest)
    BY <1>2, TotalWithout DEF Without
  <2>2. Part(f, s, x) = f[x] /\ f[x] \in Int
    BY <1>2 DEF Part
  <2>. HIDE DEF rest
  <2>3. Total(f, rest) \in Int
    BY <1>1, TotalTyped
  <2>. QED
    BY <2>1, <2>2, <2>3 DEF rest
<1>3. CASE x \notin s
  <2>1. rest = s /\ Part(f, s, x) = 0
    BY <1>3 DEF Part, Without
  <2>. HIDE DEF rest
  <2>2. Total(f, rest) \in Int
    BY <1>1, TotalTyped
  <2>3. Total(f, s) = Part(f, s, x) + Total(f, rest)
    BY <2>1, <2>2
  <2>. QED
    BY <2>1, <2>2, <2>3 DEF rest
<1>. QED
  BY <1>2, <1>3

LEMMA TotalInParts ==
  ASSUME NEW f, NEW s, IsFiniteSet(s), \A a \in s : f[a] \in Int,
         NEW x, NEW y, x # y, NEW rest, rest = s \ {x, y}
  PROVE  /\ Total(f, rest) \in Int
         /\ Part(f, s, x) \in Int /\ Part(f, s, y) \in Int
         /\ Total(f, s) = Part(f, s, x) + Part(f, s, y) + Total(f, rest)
<1>. DEFINE r == Without(s, x)
<1>1. IsFiniteSet(r) /\ \A a \in r : f[a] \in Int
  BY FS_Subset DEF Without
<1>2. Without(r, y) = rest /\ Part(f, r, y) = Part(f, s, y)
  BY DEF Part, Without
<1>3. /\ Total(f, r) \in Int /\ Part(f, s, x) \in Int
      /\ Total(f, s) = Part(f, s, x) + Total(f, r)
  BY TotalInPart
<1>. HIDE DEF r
<1>4. /\ Total(f, Without(r, y)) \in Int /\ Part(f, r, y) \in Int
      /\ Total(f, r) = Part(f, r, y) + Total(f, Without(r, y))
  BY <1>1, TotalInPart
<1>5. /\ Total(f, rest) \in Int /\ Part(f, s, y) \in Int
      /\ Total(f, r) = Part(f, s, y) + Total(f, rest)
  BY <1>2, <1>4
<1>. QED
  BY <1>3, <1>5

\* A step that concerns x and y only changes a sum by their parts.
LEMMA TotalChanged ==
  ASSUME NEW U, IsFiniteSet(U), NEW s \in SUBSET U, NEW r \in SUBSET U,
         NEW f, NEW g, \A a \in s : f[a] \in Int, \A a \in r : g[a] \in Int,
         NEW x, NEW y, x # y,
         \A a \in U \ {x, y} : /\ a \in s <=> a \in r
                               /\ a \in s => f[a] = g[a]
  PROVE  /\ Total(f, s) \in Int /\ Total(g, r) \in Int
         /\ Part(f, s, x) \in Int /\ Part(f, s, y) \in Int
         /\ Part(g, r, x) \in Int /\ Part(g, r, y) \in Int
         /\ Total(g, r) - Total(f, s)
              = (Part(g, r, x) + Part(g, r, y)) - (Part(f, s, x) + Part(f, s, y))
<1>. DEFINE rest == s \ {x, y}
            summed(p, q, n, m) == n \in Int /\ p \in Int /\ q \in Int /\ m = p + q + n
<1>1. ASSUME NEW h, NEW u, IsFiniteSet(u), \A a \in u : h[a] \in Int,
             NEW v, v = u \ {x, y}
      PROVE  summed(Part(h, u, x), Part(h, u, y), Total(h, v), Total(h, u))
  BY <1>1, TotalInParts
<1>2. IsFiniteSet(s) /\ IsFiniteSet(r)
  BY FS_Subset
<1>3. rest = s \ {x, y} /\ rest = r \ {x, y} /\ \A a \in rest : f[a] = g[a]
  OBVIOUS
<1>. HIDE DEF rest, summed
<1>4. Total(f, rest) = Total(g, rest)
  BY <1>3, TotalSame
<1>5. summed(Part(f, s, x), Part(f, s, y), Total(f, rest), Total(f, s))
  BY <1>1, <1>2, <1>3
<1>6. summed(Part(g, r, x), Part(g, r, y), Total(g, rest), Total(g, r))
  BY <1>1, <1>2, <1>3
<1>. QED
  BY <1>4, <1>5, <1>6 DEF summed

\* A sum of no less over no fewer is no less.
LEMMA TotalMonotone ==
  ASSUME NEW r, IsFiniteSet(r), NEW s \in SUBSET r, NEW f, NEW g,
         \A a \in r : g[a] \in Nat,
         \A a \in s : f[a] \in Int /\ f[a] <= g[a]
  PROVE  Total(f, s) <= Total(g, r)
<1>. DEFINE below(u) == Total(f, u \cap s) <= Total(g, u)
            T == {n \in Nat : \A u \in SUBSET r : Cardinality(u) = n => below(u)}
<1>1. \A u \in SUBSET r :
         /\ IsFiniteSet(u) /\ Cardinality(u) \in Nat
         /\ IsFiniteSet(u \cap s)
  BY FS_Subset, FS_CardinalityType
<1>2. 0 \in T
  <2>. SUFFICES ASSUME NEW u \in SUBSET r, Cardinality(u) = 0
                PROVE  below(u)
    OBVIOUS
  <2>1. u = {} /\ u \cap s = {}
    BY <1>1, FS_EmptySet
  <2>2. Total(f, {}) = 0 /\ Total(g, {}) = 0
    BY TotalEmpty
  <2>. QED
    BY <2>1, <2>2
<1>3. ASSUME NEW n \in Nat, n \in T
      PROVE  n + 1 \in T
  <2>. SUFFICES ASSUME NEW u \in SUBSET r, Cardinality(u) = n + 1
                PROVE  below(u)
    OBVIOUS
  <2>1. PICK c : c \in u
    <3>1. Cardinality({}) = 0
      BY FS_EmptySet
    <3>. QED
      BY <3>1
  <2>. DEFINE v == Without(u, c)
              w == u \cap s
  <2>2. v \in SUBSET r /\ Cardinality(v) = n
    <3>1. Cardinality(u \ {c}) = Cardinality(u) - 1
      BY <1>1, <2>1, FS_RemoveElement
    <3>. QED
      BY <3>1 DEF Without
  <2>3. below(v)
    BY <1>3, <2>2
  <2>4. v \cap s = Without(w, c)
    BY DEF Without
  <2>5. IsFiniteSet(w) /\ \A a \in w : f[a] \in Int
    BY <1>1
  <2>6. IsFiniteSet(u) /\ \A a \in u : g[a] \in Int
    <3>1. \A a \in r : g[a] \in Int
      OBVIOUS
    <3>. QED
      BY <1>1, <3>1
  <2>7. Part(f, w, c) <= Part(g, u, c)
    BY <2>1 DEF Part
  <2>. HIDE DEF v, w
  <2>8. /\ Total(f, Without(w, c)) \in Int /\ Part(f, w, c) \in Int
        /\ Total(f, w) = Part(f, w, c) + Total(f, Without(w, c))
    BY <2>5, TotalInPart
  <2>9. /\ Total(g, Without(u, c)) \in Int /\ Part(g, u, c) \in Int
        /\ Total(g, u) = Part(g, u, c) + Total(g, Without(u, c))
    BY <2>6, TotalInPart
  <2>10. Total(f, Without(w, c)) <= Total(g, Without(u, c))
    BY <2>3, <2>4 DEF v
  <2>11. Total(f, w) <= Total(g, u)
    BY <2>7, <2>8, <2>9, <2>10
  <2>. QED
    BY <2>11 DEF w
<1>4. Cardinality(r) \in T
  <2>. HIDE DEF T
  <2>1. r \in SUBSET r
    OBVIOUS
  <2>2. \A n \in 0..Cardinality(r) : n \in T
    BY <1>1, <1>2, <1>3, <2>1, BoundedInduction
  <2>. QED
    BY <1>1, <2>1, <2>2
<1>5. r \cap s = s
  OBVIOUS
<1>. QED
  BY <1>4, <1>5

-----------------------------------------------------------------------------
(* Lamports on terms.                                                      *)

Terms == [h \in Holders |-> TermsOf(h)]

\* The holders of lamports on terms t, when h holds l[h] on k[h].
Holding(l, k, t) == {h \in Holders : l[h] > 0 /\ k[h] = t}
Sum(l, k, t) == Total(l, Holding(l, k, t))
Bag(l, k) == [t \in {k[h] : h \in {x \in Holders : l[x] > 0}} |-> Sum(l, k, t)]

LEMMA HoldingsAreSums == Holdings = Bag(lamports, Terms)
<1>1. \A h \in Holders : Terms[h] = TermsOf(h)
  BY DEF Terms
<1>. QED
  BY <1>1 DEF Holdings, Bag, Sum, Holding, Total

\* The same after a step.
LEMMA HoldingsBecomeSums == Holdings' = Bag(lamports', Terms')
<1>1. (Holdings = Bag(lamports, Terms))'
  BY HoldingsAreSums, PTL
<1>. QED
  BY <1>1

LEMMA HoldersFinite == IsFiniteSet(Holders)
BY ProgramConstants, FS_AddElement DEF Holders

\* What is summed is what the abstract specification counts.
LEMMA SumsOK ==
  ASSUME NEW l \in [Holders -> Nat], NEW k
  PROVE  \A t : /\ Sum(l, k, t) \in Nat
                /\ t \in DOMAIN Bag(l, k) <=> Sum(l, k, t) > 0
                /\ t \in DOMAIN Bag(l, k) => Bag(l, k)[t] = Sum(l, k, t)
<1>. SUFFICES ASSUME NEW t
              PROVE  /\ Sum(l, k, t) \in Nat
                     /\ t \in DOMAIN Bag(l, k) <=> Sum(l, k, t) > 0
                     /\ t \in DOMAIN Bag(l, k) => Bag(l, k)[t] = Sum(l, k, t)
  OBVIOUS
<1>. DEFINE held == Holding(l, k, t)
<1>1. held \in SUBSET Holders /\ \A h \in held : l[h] \in Nat /\ l[h] > 0
  BY DEF Holding
<1>2. IsFiniteSet(held)
  BY <1>1, HoldersFinite, FS_Subset
<1>3. t \in DOMAIN Bag(l, k) <=> held # {}
  BY DEF Bag, Holding
<1>4. t \in DOMAIN Bag(l, k) => Bag(l, k)[t] = Sum(l, k, t)
  BY DEF Bag
<1>5. Sum(l, k, t) = Total(l, held)
  BY DEF Sum
<1>. HIDE DEF held
<1>6. Total(l, held) \in Nat /\ \A h \in held : l[h] <= Total(l, held)
  BY <1>1, <1>2, TotalCovers
<1>7. held = {} => Total(l, held) = 0
  BY TotalEmpty
<1>8. held # {} => Total(l, held) > 0
  BY <1>1, <1>6
<1>. QED
  BY <1>3, <1>4, <1>5, <1>6, <1>7, <1>8

\* What n lamports that go from one terms to others change in a sum.
Delta(t, from, to, n) ==
    (IF t = to THEN n ELSE 0) - (IF t = from THEN n ELSE 0)

\* The sums before and after n lamports went.
Shifted(l, k, m, j, from, to, n) ==
    \A t : Sum(m, j, t) - Sum(l, k, t) = Delta(t, from, to, n)

\* The bag b when n lamports went.
Left(b, from, n) ==
    [t \in {u \in DOMAIN b : u = from => b[u] > n} |->
        IF t = from THEN b[t] - n ELSE b[t]]
Added(b, to, n) ==
    [t \in DOMAIN b \cup {to} |->
        (IF t \in DOMAIN b THEN b[t] ELSE 0) + (IF t = to THEN n ELSE 0)]

Goes(b, c, from, to, n) ==
    /\ from \in DOMAIN b /\ to \in DOMAIN c
    /\ n \in 1..b[from]
    /\ c = Added(Left(b, from, n), to, n)
    /\ \A t \in DOMAIN b : b[t] \in Nat /\ b[t] > 0

LEMMA TransferInBags ==
  ASSUME NEW l \in [Holders -> Nat], NEW m \in [Holders -> Nat], NEW k, NEW j,
         NEW from, NEW to, from # to, NEW n, n \in Nat \ {0},
         Shifted(l, k, m, j, from, to, n), NEW b, b = Bag(l, k), NEW c, c = Bag(m, j)
  PROVE  Goes(b, c, from, to, n)
<1>. DEFINE rest == Left(b, from, n)
            sum == Added(rest, to, n)
<1>1. \A t : /\ Sum(l, k, t) \in Nat /\ Sum(m, j, t) \in Nat
             /\ t \in DOMAIN b <=> Sum(l, k, t) > 0
             /\ t \in DOMAIN b => b[t] = Sum(l, k, t)
             /\ t \in DOMAIN c <=> Sum(m, j, t) > 0
             /\ t \in DOMAIN c => c[t] = Sum(m, j, t)
  BY SumsOK
<1>2. \A t : Sum(m, j, t) = Sum(l, k, t) + Delta(t, from, to, n)
  BY <1>1 DEF Shifted, Delta
<1>3. from \in DOMAIN b /\ n \in 1..b[from] /\ to \in DOMAIN c
  <2>1. Sum(m, j, from) = Sum(l, k, from) - n
    <3>1. Delta(from, from, to, n) = -n
      BY DEF Delta
    <3>. QED
      BY <1>1, <1>2, <3>1
  <2>2. Sum(m, j, to) = Sum(l, k, to) + n
    <3>1. Delta(to, from, to, n) = n
      BY DEF Delta
    <3>. QED
      BY <1>1, <1>2, <3>1
  <2>. QED
    BY <1>1, <2>1, <2>2
<1>4. \A t \in DOMAIN b : b[t] \in Nat /\ b[t] > 0
  BY <1>1
<1>5. /\ rest = [t \in {u \in DOMAIN b : u = from => b[u] > n} |->
                    IF t = from THEN b[t] - n ELSE b[t]]
      /\ sum = [t \in DOMAIN rest \cup {to} |->
                   (IF t \in DOMAIN rest THEN rest[t] ELSE 0) + (IF t = to THEN n ELSE 0)]
  BY DEF Left, Added
<1>. HIDE DEF rest, sum
<1>6. c = sum
  <2>1. \A t : t \in DOMAIN c <=> t \in DOMAIN sum
    BY <1>1, <1>2, <1>3, <1>5 DEF Delta
  <2>2. ASSUME NEW t \in DOMAIN c PROVE c[t] = sum[t]
    <3>. DEFINE was == Sum(l, k, t)
    <3>1. /\ was \in Nat /\ c[t] = was + Delta(t, from, to, n) /\ c[t] > 0
          /\ t \in DOMAIN b <=> was > 0
          /\ t \in DOMAIN b => b[t] = was
      BY <1>1, <1>2
    <3>. HIDE DEF was
    <3>2. CASE t = to
      <4>1. t # from /\ c[t] = was + n
        BY <3>1, <3>2 DEF Delta
      <4>2. sum[t] = (IF t \in DOMAIN b THEN b[t] ELSE 0) + n
        BY <1>5, <3>2, <4>1
      <4>. QED
        BY <1>5, <3>1, <4>1, <4>2
    <3>3. CASE t = from
      <4>1. t # to /\ c[t] = was - n
        BY <3>1, <3>3 DEF Delta
      <4>2. t \in DOMAIN rest /\ rest[t] = was - n
        BY <1>3, <1>5, <3>1, <3>3, <4>1
      <4>. QED
        BY <1>5, <3>1, <4>1, <4>2
    <3>4. CASE t # to /\ t # from
      <4>1. c[t] = was
        BY <3>1, <3>4 DEF Delta
      <4>2. t \in DOMAIN rest /\ rest[t] = was
        BY <1>5, <3>1, <3>4, <4>1
      <4>. QED
        BY <1>5, <3>1, <3>4, <4>1, <4>2
    <3>. QED
      BY <3>2, <3>3, <3>4
  <2>3. c = [t \in DOMAIN c |-> c[t]]
    BY DEF Bag
  <2>4. sum = [t \in DOMAIN c |-> sum[t]]
    BY <1>5, <2>1
  <2>. QED
    BY <2>2, <2>3, <2>4
<1>. QED
  BY <1>3, <1>4, <1>6 DEF Goes, rest, sum

\* What h has in the sum of lamports on terms t.
Share(l, k, h, t) == IF k[h] = t THEN l[h] ELSE 0

\* Lamports and terms become m and j, and stay as they are but for x and y.
ChangeAt(l, k, m, j, x, y) ==
    \A h \in Holders \ {x, y} : m[h] = l[h] /\ j[h] = k[h]

LEMMA SumChanged ==
  ASSUME NEW l \in [Holders -> Nat], NEW m \in [Holders -> Nat], NEW k, NEW j,
         NEW x \in Holders, NEW y \in Holders, x # y,
         ChangeAt(l, k, m, j, x, y), NEW t
  PROVE  Sum(m, j, t) - Sum(l, k, t)
           = (Share(m, j, x, t) + Share(m, j, y, t))
               - (Share(l, k, x, t) + Share(l, k, y, t))
<1>. DEFINE s == Holding(l, k, t)
            r == Holding(m, j, t)
<1>1. /\ s \in SUBSET Holders /\ r \in SUBSET Holders
      /\ \A h \in s : l[h] \in Int
      /\ \A h \in r : m[h] \in Int
      /\ \A h \in Holders \ {x, y} : /\ h \in s <=> h \in r
                                     /\ h \in s => l[h] = m[h]
  BY DEF Holding, ChangeAt
<1>2. \A h \in Holders : /\ Part(l, s, h) = Share(l, k, h, t)
                         /\ Part(m, r, h) = Share(m, j, h, t)
  BY DEF Holding, Part, Share
<1>. HIDE DEF s, r
<1>3. Total(m, r) - Total(l, s)
        = (Part(m, r, x) + Part(m, r, y)) - (Part(l, s, x) + Part(l, s, y))
  BY <1>1, HoldersFinite, TotalChanged
<1>4. Sum(m, j, t) = Total(m, r) /\ Sum(l, k, t) = Total(l, s)
  BY DEF Sum, s, r
<1>. QED
  BY <1>2, <1>3, <1>4

-----------------------------------------------------------------------------
(* Steps of the program as transfers between terms.                        *)

\* StakeCustody's Consented, by the keys that signed.
ConsentedBy(keys, from, to) ==
    \/ from = NoTerms
    \/ /\ from # NoTerms
       /\ IsInForce(from.lockup, clock, NoKey) => from.lockup.custodian \in keys
       /\ \/ from.withdrawer \in keys
          \/ /\ to # NoTerms
             /\ from.withdrawer = to.withdrawer
             /\ IsInForce(to.lockup, clock, NoKey) =>
                   IsInForce(from.lockup, clock, NoKey)

\* Some lamports go from one terms to others, or none do.
Moves(keys, from, to, n) ==
    /\ Shifted(lamports, Terms, lamports', Terms', from, to, n)
    /\ from = to \/ n = 0 \/ ConsentedBy(keys, from, to)

CustodyKept(keys) == \E from, to : \E n \in Nat : Moves(keys, from, to, n)

LEMMA Balances ==
  ASSUME Inv
  PROVE  lamports \in [Holders -> Nat]
BY NumbersOK DEF Inv, AccountsOK, Lamports, U64

LEMMA BalancesKept ==
  ASSUME Inv'
  PROVE  lamports' \in [Holders -> Nat]
BY NumbersOK DEF Inv, AccountsOK, Lamports, U64

LEMMA WalletHolds == Wallet \in Holders /\ Accounts \subseteq Holders /\ Wallet \notin Accounts
BY ProgramConstants DEF Holders

\* The terms of one account change.
LEMMA TermsChanged ==
  ASSUME Inv, Inv', NEW x \in Accounts, UNCHANGED lamports,
         \A h \in Holders \ {x} : Terms'[h] = Terms[h], NEW keys,
         \/ Terms'[x] = Terms[x]
         \/ lamports[x] = 0
         \/ ConsentedBy(keys, Terms[x], Terms'[x])
  PROVE  CustodyKept(keys)
<1>. DEFINE from == Terms[x]
            to == Terms'[x]
            n == lamports[x]
            l == lamports
            m == lamports'
            k == Terms
            j == Terms'
            y == Wallet
<1>1. l \in [Holders -> Nat] /\ m \in [Holders -> Nat]
  BY Balances, BalancesKept
<1>2. x \in Holders /\ y \in Holders /\ x # y
  BY WalletHolds
<1>3. ChangeAt(l, k, m, j, x, y)
  BY DEF ChangeAt
<1>4. m[x] = n /\ m[y] = l[y] /\ j[y] = k[y] /\ n \in Nat /\ l[y] \in Nat
  BY <1>1, <1>2
<1>5. k[x] = from /\ j[x] = to /\ l[x] = n
  OBVIOUS
<1>. HIDE DEF l, m, k, j, from, to, n, y
<1>6. ASSUME NEW t
      PROVE  Sum(m, j, t) - Sum(l, k, t) = Delta(t, from, to, n)
  <2>1. Sum(m, j, t) - Sum(l, k, t)
           = (Share(m, j, x, t) + Share(m, j, y, t))
               - (Share(l, k, x, t) + Share(l, k, y, t))
    BY <1>1, <1>2, <1>3, SumChanged
  <2>2. Share(m, j, y, t) = Share(l, k, y, t) /\ Share(l, k, y, t) \in Nat
    BY <1>4 DEF Share
  <2>3. /\ Share(m, j, x, t) = (IF t = to THEN n ELSE 0)
        /\ Share(l, k, x, t) = (IF t = from THEN n ELSE 0)
    BY <1>4, <1>5 DEF Share
  <2>. QED
    BY <1>4, <2>1, <2>2, <2>3 DEF Delta
<1>7. from = to \/ n = 0 \/ ConsentedBy(keys, from, to)
  BY DEF from, to, n
<1>8. Moves(keys, from, to, n)
  BY <1>6, <1>7 DEF Moves, Shifted, l, m, k, j
<1>. QED
  BY <1>4, <1>8 DEF CustodyKept

\* Lamports go from x to y, which keeps its terms or, when it has none, takes
\* over those of x.
LEMMA LamportsMoved ==
  ASSUME Inv, Inv', NEW x \in Holders, NEW y \in Holders, x # y,
         NEW n \in Nat, Relocate(x, y, n),
         \A h \in Holders \ {x, y} : Terms'[h] = Terms[h],
         Terms'[x] = Terms[x] \/ n = lamports[x], NEW keys,
         \/ /\ Terms'[y] = Terms[y]
            /\ Terms[x] = Terms[y] \/ ConsentedBy(keys, Terms[x], Terms[y])
         \/ Terms[y] = NoTerms /\ Terms'[y] = Terms[x]
  PROVE  CustodyKept(keys)
<1>. DEFINE l == lamports
            m == lamports'
            k == Terms
            j == Terms'
<1>1. l \in [Holders -> Nat] /\ m \in [Holders -> Nat]
  BY Balances, BalancesKept
<1>2. m = [l EXCEPT ![x] = @ - n, ![y] = @ + n] /\ n <= l[x]
  BY DEF Relocate
<1>3. j[x] = k[x] \/ n = l[x]
  OBVIOUS
<1>4. \A h \in Holders \ {x, y} : j[h] = k[h]
  OBVIOUS
<1>5. \/ j[y] = k[y] /\ (k[x] = k[y] \/ ConsentedBy(keys, k[x], k[y]))
      \/ k[y] = NoTerms /\ j[y] = k[x]
  OBVIOUS
<1>6. SUFFICES \E from, to : \E a \in Nat :
                  /\ \A t : Sum(m, j, t) - Sum(l, k, t) = Delta(t, from, to, a)
                  /\ from = to \/ a = 0 \/ ConsentedBy(keys, from, to)
  BY DEF CustodyKept, Moves, Shifted
<1>. HIDE DEF l, m, k, j
<1>7. /\ m[x] = l[x] - n /\ m[y] = l[y] + n
      /\ l[x] \in Nat /\ l[y] \in Nat /\ m[x] \in Nat /\ m[y] \in Nat
  BY <1>1, <1>2
<1>8. ChangeAt(l, k, m, j, x, y)
  BY <1>1, <1>2, <1>4 DEF ChangeAt
<1>9. ASSUME NEW t
      PROVE  Sum(m, j, t) - Sum(l, k, t)
               = ((IF j[x] = t THEN m[x] ELSE 0) + (IF j[y] = t THEN m[y] ELSE 0))
                   - ((IF k[x] = t THEN l[x] ELSE 0) + (IF k[y] = t THEN l[y] ELSE 0))
  <2>1. Sum(m, j, t) - Sum(l, k, t)
          = (Share(m, j, x, t) + Share(m, j, y, t))
              - (Share(l, k, x, t) + Share(l, k, y, t))
    BY <1>1, <1>8, SumChanged
  <2>. QED
    BY <2>1 DEF Share
<1>10. ASSUME NEW t
       PROVE  (IF j[x] = t THEN m[x] ELSE 0) = (IF k[x] = t THEN l[x] - n ELSE 0)
  BY <1>3, <1>7
<1>11. CASE j[y] = k[y] /\ (k[x] = k[y] \/ ConsentedBy(keys, k[x], k[y]))
  <2>1. ASSUME NEW t
        PROVE  Sum(m, j, t) - Sum(l, k, t) = Delta(t, k[x], k[y], n)
    <3>1. Sum(m, j, t) - Sum(l, k, t)
             = ((IF k[x] = t THEN l[x] - n ELSE 0) + (IF k[y] = t THEN l[y] + n ELSE 0))
                 - ((IF k[x] = t THEN l[x] ELSE 0) + (IF k[y] = t THEN l[y] ELSE 0))
      BY <1>7, <1>9, <1>10, <1>11
    <3>. QED
      BY <1>7, <3>1 DEF Delta
  <2>. QED
    BY <1>11, <2>1
<1>12. CASE k[y] = NoTerms /\ j[y] = k[x]
  <2>1. ASSUME NEW t
        PROVE  Sum(m, j, t) - Sum(l, k, t) = Delta(t, k[y], k[x], l[y])
    <3>1. Sum(m, j, t) - Sum(l, k, t)
             = ((IF k[x] = t THEN l[x] - n ELSE 0) + (IF k[x] = t THEN l[y] + n ELSE 0))
                 - ((IF k[x] = t THEN l[x] ELSE 0) + (IF k[y] = t THEN l[y] ELSE 0))
      BY <1>7, <1>9, <1>10, <1>12
    <3>. QED
      BY <1>7, <3>1 DEF Delta
  <2>2. ConsentedBy(keys, k[y], k[x])
    BY <1>12 DEF ConsentedBy
  <2>. QED
    BY <1>7, <2>1, <2>2
<1>. QED
  BY <1>5, <1>11, <1>12

\* Nothing goes anywhere.
LEMMA NothingMoved ==
  ASSUME UNCHANGED <<lamports, data>>, Inv, NEW keys
  PROVE  CustodyKept(keys)
<1>1. Terms' = Terms
  BY DEF Terms, TermsOf
<1>2. \A t : Sum(lamports, Terms, t) \in Nat
  BY Balances, SumsOK
<1>3. Moves(keys, NoTerms, NoTerms, 0)
  BY <1>1, <1>2 DEF Moves, Shifted, Delta
<1>. QED
  BY <1>3 DEF CustodyKept

\* The terms that are written in the state of an account.
TermsIn(state) ==
    IF HasMeta(state)
    THEN [withdrawer |-> state.meta.withdrawer, lockup |-> state.meta.lockup]
    ELSE NoTerms

LEMMA TermsAre ==
  /\ \A a \in Accounts : /\ Terms[a] = TermsIn(data[a])
                         /\ Terms'[a] = TermsIn(data'[a])
  /\ Terms[Wallet] = NoTerms /\ Terms'[Wallet] = NoTerms
BY WalletHolds DEF Terms, TermsOf, TermsIn

\* Terms are not NoTerms.
LEMMA TermsOfMeta ==
  ASSUME NEW state, HasMeta(state), state.meta \in Meta
  PROVE  /\ TermsIn(state) # NoTerms
         /\ TermsIn(state).withdrawer = state.meta.withdrawer
         /\ TermsIn(state).lockup = state.meta.lockup
<1>1. state.meta.withdrawer \in Keys /\ state.meta.lockup \in Lockup
  BY DEF Meta
<1>2. TermsIn(state) \in [withdrawer : Keys, lockup : Lockup]
  BY <1>1 DEF TermsIn
<1>. QED
  BY <1>2, CustodyConstants DEF TermsIn

\* One account is written, and no lamports move.
LEMMA StateWritten ==
  ASSUME Inv, Inv', NEW a \in Accounts, NEW state, SetState(a, state),
         UNCHANGED lamports, NEW keys,
         \/ TermsIn(state) = TermsIn(data[a])
         \/ lamports[a] = 0
         \/ ConsentedBy(keys, TermsIn(data[a]), TermsIn(state))
  PROVE  CustodyKept(keys)
<1>1. data \in [Accounts -> AccountData]
  BY DEF Inv, AccountsOK
<1>2. data'[a] = state /\ \A h \in Accounts \ {a} : data'[h] = data[h]
  BY <1>1 DEF SetState
<1>3. \A h \in Holders \ {a} : Terms'[h] = Terms[h]
  BY <1>2, TermsAre DEF Holders
<1>4. Terms[a] = TermsIn(data[a]) /\ Terms'[a] = TermsIn(state)
  BY <1>2, TermsAre
<1>. QED
  BY <1>3, <1>4, TermsChanged

\* Lamports move between x and y, and no account but theirs is written.
LEMMA StatesWritten ==
  ASSUME Inv, Inv', NEW x \in Holders, NEW y \in Holders, x # y,
         NEW n \in Nat, Relocate(x, y, n),
         \A h \in Accounts \ {x, y} : data'[h] = data[h],
         Terms'[x] = Terms[x] \/ n = lamports[x], NEW keys,
         \/ /\ Terms'[y] = Terms[y]
            /\ Terms[x] = Terms[y] \/ ConsentedBy(keys, Terms[x], Terms[y])
         \/ Terms[y] = NoTerms /\ Terms'[y] = Terms[x]
  PROVE  CustodyKept(keys)
<1>1. \A h \in Holders \ {x, y} : Terms'[h] = Terms[h]
  BY TermsAre DEF Holders
<1>. QED
  BY <1>1, LamportsMoved

-----------------------------------------------------------------------------
(* Consent to each instruction.                                            *)

\* The custodian that releases a lockup is its own.
LEMMA CustodianReleases ==
  ASSUME NEW lockup, IsInForce(lockup, clock, NoKey),
         NEW custodian, ~IsInForce(lockup, clock, custodian)
  PROVE  custodian = lockup.custodian
BY DEF IsInForce

LEMMA AuthorizeConsented ==
  ASSUME Inv, Inv', NEW a \in Accounts, NEW signers, NEW keys, signers \subseteq keys,
         NEW new, NEW who \in StakeAuthorize, NEW custodian,
         DoAuthorize(a, signers, new, who, custodian)
  PROVE  CustodyKept(keys)
<1>. DEFINE old == data[a].meta
            state == [data[a] EXCEPT !.meta = WithAuthority(@, who, new)]
            from == TermsIn(data[a])
            to == TermsIn(state)
<1>1. HasMeta(data[a]) /\ old \in Meta
  BY MetaOK DEF DoAuthorize
<1>2. /\ from # NoTerms /\ from.withdrawer = old.withdrawer
      /\ from.lockup = old.lockup
  BY <1>1, TermsOfMeta
<1>3. CASE who = "Staker"
  <2>1. data[a].kind \in {"Initialized", "Stake"} /\ data[a] \in AccountData
    BY <1>1 DEF HasMeta, Inv, AccountsOK
  <2>2. to = from
    BY <1>1, <1>3, <2>1
       DEF TermsIn, HasMeta, WithAuthority, Meta, AccountData, StakeStateV2,
           Uninitialized, NoAccount, Closed
  <2>. HIDE DEF state
  <2>. QED
    BY <2>2, StateWritten DEF DoAuthorize, state
<1>4. CASE who = "Withdrawer"
  <2>1. /\ old.withdrawer \in keys
        /\ IsInForce(old.lockup, clock, NoKey) => old.lockup.custodian \in keys
    BY <1>4, CustodianReleases DEF DoAuthorize, MayAuthorize, Check
  <2>2. ConsentedBy(keys, from, to)
    BY <1>2, <2>1 DEF ConsentedBy
  <2>. HIDE DEF state
  <2>. QED
    BY <2>2, StateWritten DEF DoAuthorize, state
<1>. QED
  BY <1>3, <1>4 DEF StakeAuthorize

LEMMA SetLockupConsented ==
  ASSUME Inv, Inv', NEW a \in Accounts, NEW signers, NEW keys, signers \subseteq keys,
         NEW args \in LockupArgs, DoSetLockup(a, signers, args)
  PROVE  CustodyKept(keys)
<1>. DEFINE old == data[a].meta
            new == WithLockup(old, args)
            state == [data[a] EXCEPT !.meta = WithLockup(@, args)]
            from == TermsIn(data[a])
            to == TermsIn(state)
<1>1. HasMeta(data[a]) /\ old \in Meta
  BY MetaOK DEF DoSetLockup
<1>2. /\ from # NoTerms /\ from.withdrawer = old.withdrawer
      /\ from.lockup = old.lockup
  BY <1>1, TermsOfMeta
<1>3. new \in Meta /\ new.withdrawer = old.withdrawer
  BY <1>1, LockupUpdate DEF WithLockup, Meta
<1>4. HasMeta(state) /\ state.meta = new
  BY <1>1 DEF HasMeta, Inv, AccountsOK, AccountData, StakeStateV2,
              Uninitialized, NoAccount, Closed
<1>5. to # NoTerms /\ to.withdrawer = old.withdrawer
  <2>. HIDE DEF state, new
  <2>. QED
    BY <1>3, <1>4, TermsOfMeta
<1>6. IF IsInForce(old.lockup, clock, NoKey) THEN old.lockup.custodian \in keys
      ELSE old.withdrawer \in keys
  BY DEF DoSetLockup, MaySetLockup
<1>7. ConsentedBy(keys, from, to)
  <2>. HIDE DEF from, to, old
  <2>. QED
    BY <1>2, <1>5, <1>6 DEF ConsentedBy
<1>8. SetState(a, state) /\ UNCHANGED lamports
  BY DEF DoSetLockup
<1>. HIDE DEF state
<1>. QED
  BY <1>7, <1>8, StateWritten

\* Changes to the stake of an account leave its terms.
LEMMA StakeChanges ==
  ASSUME NEW state \in AccountData, state.kind = "Stake"
  PROVE  /\ \A e : TermsIn([state EXCEPT !.stake = e]) = TermsIn(state)
         /\ \A e : TermsIn([state EXCEPT !.stake.deactivation_epoch = e]) = TermsIn(state)
         /\ \A n : TermsIn([state EXCEPT !.stake.stake = n]) = TermsIn(state)
<1>. DEFINE m == state.meta
            d == state.stake
            write(e) == [kind |-> "Stake", meta |-> m, stake |-> e]
<1>1. state = write(d)
  BY StakeData
<1>2. ASSUME NEW e
      PROVE  /\ [state EXCEPT !.stake = e] = write(e)
             /\ [state EXCEPT !.stake.deactivation_epoch = e]
                  = write([d EXCEPT !.deactivation_epoch = e])
             /\ [state EXCEPT !.stake.stake = e] = write([d EXCEPT !.stake = e])
  <2>. HIDE DEF m, d
  <2>. QED
    BY <1>1
<1>3. \A e : TermsIn(write(e)) = [withdrawer |-> m.withdrawer, lockup |-> m.lockup]
  BY DEF TermsIn, HasMeta
<1>4. TermsIn(state) = [withdrawer |-> m.withdrawer, lockup |-> m.lockup]
  BY DEF TermsIn, HasMeta
<1>. HIDE DEF write, m, d
<1>5. ASSUME NEW e
      PROVE  TermsIn([state EXCEPT !.stake = e]) = TermsIn(state)
  <2>1. [state EXCEPT !.stake = e] = write(e)
    BY <1>2
  <2>. QED
    BY <1>3, <1>4, <2>1
<1>6. ASSUME NEW e
      PROVE  TermsIn([state EXCEPT !.stake.deactivation_epoch = e]) = TermsIn(state)
  <2>1. [state EXCEPT !.stake.deactivation_epoch = e]
          = write([d EXCEPT !.deactivation_epoch = e])
    BY <1>2
  <2>. QED
    BY <1>3, <1>4, <2>1
<1>7. ASSUME NEW e
      PROVE  TermsIn([state EXCEPT !.stake.stake = e]) = TermsIn(state)
  <2>1. [state EXCEPT !.stake.stake = e] = write([d EXCEPT !.stake = e])
    BY <1>2
  <2>. QED
    BY <1>3, <1>4, <2>1
<1>. QED
  BY <1>5, <1>6, <1>7

LEMMA DelegateConsented ==
  ASSUME Inv, Inv', NEW a \in Accounts, NEW S, NEW keys,
         \/ \E v \in Voters : Delegate(S, a, v)
         \/ Deactivate(S, a)
         \/ \E delinquent, reference \in Voters :
               DeactivateDelinquent(a, delinquent, reference)
  PROVE  CustodyKept(keys)
<1>. DEFINE ended(e) == [data[a] EXCEPT !.stake.deactivation_epoch = e]
<1>1. data[a] \in AccountData
  BY DEF Inv, AccountsOK
<1>2. \/ \E e : IsStake(a) /\ SetState(a, ended(e))
      \/ \E stake : HasMeta(data[a]) /\ SetState(a, Staked(data[a].meta, stake))
  BY DEF Delegate, Deactivate, DeactivateDelinquent, DoDeactivate
<1>3. UNCHANGED lamports
  BY DEF Delegate, Deactivate, DeactivateDelinquent, DoDeactivate
<1>4. ASSUME NEW e, IsStake(a), SetState(a, ended(e)) PROVE CustodyKept(keys)
  <2>1. TermsIn(ended(e)) = TermsIn(data[a])
    BY <1>1, <1>4, StakeChanges DEF IsStake
  <2>. HIDE DEF ended
  <2>. QED
    BY <1>3, <1>4, <2>1, StateWritten
<1>5. ASSUME NEW stake, HasMeta(data[a]), SetState(a, Staked(data[a].meta, stake))
      PROVE  CustodyKept(keys)
  <2>1. TermsIn(Staked(data[a].meta, stake)) = TermsIn(data[a])
    BY <1>5 DEF TermsIn, HasMeta, Staked
  <2>. QED
    BY <1>3, <1>5, <2>1, StateWritten
<1>. QED
  BY <1>2, <1>4, <1>5

LEMMA InitializeConsented ==
  ASSUME Inv, Inv', NEW a \in Accounts, NEW keys,
         NEW staker, NEW withdrawer, NEW lockup,
         DoInitialize(a, staker, withdrawer, lockup)
  PROVE  CustodyKept(keys)
<1>. DEFINE state == Initialized([staker |-> staker, withdrawer |-> withdrawer,
                                  lockup |-> lockup])
<1>1. SetState(a, state) /\ UNCHANGED lamports /\ TermsIn(data[a]) = NoTerms
  BY DEF DoInitialize, TermsIn, HasMeta, Uninitialized
<1>2. ConsentedBy(keys, TermsIn(data[a]), TermsIn(state))
  BY <1>1 DEF ConsentedBy
<1>. HIDE DEF state
<1>. QED
  BY <1>1, <1>2, StateWritten

LEMMA LifetimesConsented ==
  ASSUME Inv, Inv', NEW a \in Accounts, NEW keys, CreateAccount(a) \/ Reap(a)
  PROVE  CustodyKept(keys)
<1>1. CASE CreateAccount(a)
  <2>1. SetState(a, Uninitialized) /\ UNCHANGED lamports /\ TermsIn(data[a]) = NoTerms
    BY <1>1 DEF CreateAccount, TermsIn, HasMeta, NoAccount
  <2>2. ConsentedBy(keys, TermsIn(data[a]), TermsIn(Uninitialized))
    BY <2>1 DEF ConsentedBy
  <2>. QED
    BY <2>1, <2>2, StateWritten
<1>2. CASE Reap(a)
  BY <1>2, StateWritten DEF Reap
<1>. QED
  BY <1>1, <1>2

LEMMA DepositConsented ==
  ASSUME Inv, Inv', NEW a \in Accounts, NEW keys, NEW n \in Amounts, Deposit(a, n)
  PROVE  CustodyKept(keys)
<1>1. n \in Nat /\ Wallet \in Holders /\ a \in Holders /\ Wallet # a
  BY InputsOK, WalletHolds
<1>2. Relocate(Wallet, a, n) /\ UNCHANGED data
  BY DEF Deposit
<1>3. Terms[Wallet] = NoTerms /\ Terms'[Wallet] = NoTerms /\ Terms'[a] = Terms[a]
  BY <1>2, TermsAre
<1>4. ConsentedBy(keys, Terms[Wallet], Terms[a])
  BY <1>3 DEF ConsentedBy
<1>. QED
  BY <1>1, <1>2, <1>3, <1>4, StatesWritten

LEMMA WithdrawConsented ==
  ASSUME Inv, Inv', NEW a \in Accounts, NEW S, NEW keys, S \subseteq keys,
         NEW to \in Holders, Withdraw(S, a, to)
  PROVE  CustodyKept(keys)
<1>. DEFINE from == Terms[a]
<1>1. from = TermsIn(data[a])
  BY TermsAre
<1>2. ASSUME NEW custodian \in Custodians(S), MayWithdraw(S, a, custodian)
      PROVE  ConsentedBy(keys, from, Terms[to])
  <2>1. CASE ~HasMeta(data[a])
    BY <1>1, <2>1 DEF TermsIn, ConsentedBy
  <2>2. CASE HasMeta(data[a])
    <3>. DEFINE old == data[a].meta
    <3>1. /\ from # NoTerms /\ from.withdrawer = old.withdrawer
          /\ from.lockup = old.lockup
      BY <1>1, <2>2, MetaOK, TermsOfMeta
    <3>2. old.withdrawer \in S /\ ~IsInForce(old.lockup, clock, custodian)
      BY <1>2, <2>2 DEF MayWithdraw, Check, HasMeta, Uninitialized, Closed
    <3>3. IsInForce(old.lockup, clock, NoKey) => old.lockup.custodian \in S
      BY <3>2, CustodianReleases DEF Custodians
    <3>. HIDE DEF from, old
    <3>. QED
      BY <3>1, <3>2, <3>3 DEF ConsentedBy
  <2>. QED
    BY <2>1, <2>2
<1>3. PICK custodian \in Custodians(S) :
         \/ WithdrawAll(S, a, to, custodian)
         \/ \E n \in Amounts : WithdrawPart(S, a, to, n, custodian)
  BY DEF Withdraw
<1>4. a # to /\ MayWithdraw(S, a, custodian) /\ a \in Holders
  BY <1>3, WalletHolds DEF WithdrawAll, WithdrawPart
<1>5. ConsentedBy(keys, from, Terms[to])
  BY <1>2, <1>4
<1>6. data \in [Accounts -> AccountData] /\ lamports \in [Holders -> Nat]
  BY Balances DEF Inv, AccountsOK
<1>7. Terms'[to] = Terms[to]
      <=> (to \in Accounts => TermsIn(data'[to]) = TermsIn(data[to]))
  BY TermsAre DEF Holders
<1>8. CASE WithdrawAll(S, a, to, custodian)
  <2>1. SetState(a, Closed) /\ Relocate(a, to, lamports[a]) /\ lamports[a] \in Nat
    BY <1>4, <1>6, <1>8 DEF WithdrawAll
  <2>2. \A h \in Accounts \ {a} : data'[h] = data[h]
    BY <1>6, <2>1 DEF SetState
  <2>3. Terms'[to] = Terms[to]
    BY <1>4, <1>7, <2>2
  <2>. HIDE DEF from
  <2>. QED
    BY <1>4, <1>5, <2>1, <2>2, <2>3, StatesWritten DEF from
<1>9. ASSUME NEW n \in Amounts, WithdrawPart(S, a, to, n, custodian)
      PROVE  CustodyKept(keys)
  <2>1. Relocate(a, to, n) /\ n \in Nat /\ UNCHANGED data
    BY <1>9, InputsOK DEF WithdrawPart
  <2>2. Terms'[to] = Terms[to] /\ Terms'[a] = Terms[a]
    BY <1>7, <2>1, TermsAre
  <2>. QED
    BY <1>4, <1>5, <2>1, <2>2, StatesWritten
<1>. QED
  BY <1>3, <1>8, <1>9

LEMMA SplitConsented ==
  ASSUME Inv, Inv', NEW from \in Accounts, NEW to \in Accounts, NEW S, NEW keys,
         NEW n \in Nat,
         \/ SplitFull(S, from, to, n)
         \/ SplitInactive(S, from, to, n)
         \/ SplitActive(S, from, to, n)
  PROVE  CustodyKept(keys)
<1>1. /\ from # to /\ data[to] = Uninitialized
      /\ Relocate(from, to, n)
      /\ from \in Holders /\ to \in Holders
  BY WalletHolds DEF SplitFull, SplitInactive, SplitActive, SplitChecks
<1>2. data \in [Accounts -> AccountData]
  BY DEF Inv, AccountsOK
<1>3. Terms[to] = NoTerms
  <2>1. ~HasMeta(data[to])
    BY <1>1 DEF HasMeta, Uninitialized
  <2>2. TermsIn(data[to]) = NoTerms
    BY <2>1 DEF TermsIn
  <2>. QED
    BY <2>2, TermsAre
<1>4. \A h \in Accounts \ {from, to} : data'[h] = data[h]
  BY <1>2 DEF SplitFull, SplitInactive, SplitActive, SetState, SetStates
<1>5. CASE SplitFull(S, from, to, n)
  <2>1. n = lamports[from] /\ data'[to] = data[from]
    BY <1>1, <1>2, <1>5 DEF SplitFull, SetStates
  <2>2. Terms'[to] = Terms[from]
    BY <2>1, TermsAre
  <2>. QED
    BY <1>1, <1>3, <1>4, <2>1, <2>2, StatesWritten
<1>6. CASE SplitInactive(S, from, to, n)
  <2>1. data'[from] = data[from] /\ data'[to] = data[from]
    BY <1>1, <1>2, <1>6 DEF SplitInactive, SetState
  <2>2. Terms'[to] = Terms[from] /\ Terms'[from] = Terms[from]
    BY <2>1, TermsAre
  <2>. QED
    BY <1>1, <1>3, <1>4, <2>2, StatesWritten
<1>7. CASE SplitActive(S, from, to, n)
  <2>. DEFINE part(m) == [data[from] EXCEPT !.stake.stake = m]
              left == data[from].stake.stake - n
  <2>1. /\ data[from].kind = "Stake" /\ data[from] \in AccountData
        /\ SetStates(from, part(left), to, part(n))
    BY <1>2, <1>7 DEF SplitActive, IsActiveOrActivating, IsStake
  <2>2. \A m : TermsIn(part(m)) = TermsIn(data[from])
    BY <2>1, StakeChanges
  <2>. HIDE DEF part, left
  <2>3. data'[from] = part(left) /\ data'[to] = part(n)
    BY <1>1, <1>2, <2>1 DEF SetStates
  <2>4. Terms'[to] = Terms[from] /\ Terms'[from] = Terms[from]
    BY <2>2, <2>3, TermsAre
  <2>. QED
    BY <1>1, <1>3, <1>4, <2>4, StatesWritten
<1>. QED
  BY <1>5, <1>6, <1>7

\* Accounts that can merge are on the same terms, or on terms of the same
\* withdrawer that have expired.
LEMMA MergeableConsented ==
  ASSUME Inv, NEW x \in Accounts, NEW y \in Accounts, NEW keys,
         HasMeta(data[x]), HasMeta(data[y]),
         \/ MetasCanMerge(data[x].meta, data[y].meta, clock)
         \/ MetasCanMerge(data[y].meta, data[x].meta, clock)
  PROVE  Terms[x] = Terms[y] \/ ConsentedBy(keys, Terms[x], Terms[y])
<1>. DEFINE m == data[x].meta
            o == data[y].meta
            from == TermsIn(data[x])
            to == TermsIn(data[y])
<1>1. /\ from # NoTerms /\ from.withdrawer = m.withdrawer /\ from.lockup = m.lockup
      /\ to # NoTerms /\ to.withdrawer = o.withdrawer /\ to.lockup = o.lockup
  BY MetaOK, TermsOfMeta
<1>2. Terms[x] = from /\ Terms[y] = to
  BY TermsAre
<1>3. m.withdrawer = o.withdrawer
  BY DEF MetasCanMerge
<1>4. CASE m.lockup = o.lockup
  BY <1>2, <1>3, <1>4 DEF TermsIn
<1>5. CASE ~IsInForce(m.lockup, clock, NoKey) /\ ~IsInForce(o.lockup, clock, NoKey)
  <2>. HIDE DEF from, to, m, o
  <2>. QED
    BY <1>1, <1>2, <1>3, <1>5 DEF ConsentedBy
<1>. QED
  BY <1>4, <1>5 DEF MetasCanMerge

\* What Merge and MoveStake write keeps the terms of both accounts.
LEMMA MergedTerms ==
  ASSUME NEW state \in AccountData, NEW other, NEW n, NEW dk, NEW sk,
         dk # "Inactive" => state.kind = "Stake"
  PROVE  TermsIn(Merged(state, dk, other, sk, n)) = TermsIn(state)
<1>1. CASE dk = "Inactive"
  BY <1>1 DEF Merged
<1>2. CASE dk # "Inactive" /\ sk = "Inactive"
  <2>. DEFINE more == state.stake.stake + n
  <2>1. Merged(state, dk, other, sk, n) = [state EXCEPT !.stake.stake = more]
    BY <1>2 DEF Merged
  <2>. HIDE DEF more
  <2>. QED
    BY <1>2, <2>1, StakeChanges
<1>3. CASE dk # "Inactive" /\ sk # "Inactive"
  <2>. DEFINE joined == Absorb(state.stake, Absorbed(other, sk, n),
                               other.stake.credits_observed)
  <2>1. Merged(state, dk, other, sk, n) = [state EXCEPT !.stake = joined]
    BY <1>3 DEF Merged
  <2>. HIDE DEF joined
  <2>. QED
    BY <1>3, <2>1, StakeChanges
<1>. QED
  BY <1>1, <1>2, <1>3

LEMMA MovedTerms ==
  ASSUME NEW state, HasMeta(state)
  PROVE  /\ \A stake : TermsIn(Staked(state.meta, stake)) = TermsIn(state)
         /\ TermsIn(Initialized(state.meta)) = TermsIn(state)
BY DEF TermsIn, HasMeta, Staked, Initialized

LEMMA MergeConsented ==
  ASSUME Inv, Inv', NEW from \in Accounts, NEW to \in Accounts, NEW S, NEW keys,
         Merge(S, to, from)
  PROVE  CustodyKept(keys)
<1>. DEFINE target == Merged(data[to], Kind(to), data[from], Kind(from), lamports[from])
<1>1. /\ from # to /\ HasMeta(data[from]) /\ HasMeta(data[to])
      /\ MetasCanMerge(data[to].meta, data[from].meta, clock)
      /\ SetStates(to, target, from, Closed)
      /\ Relocate(from, to, lamports[from])
  BY DEF Merge, Mergeable, CanMerge
<1>2. data \in [Accounts -> AccountData] /\ lamports[from] \in Nat
  BY Balances, WalletHolds DEF Inv, AccountsOK
<1>3. Kind(to) # "Inactive" => data[to].kind = "Stake"
  BY <1>1 DEF Kind, MergeKind, HasMeta
<1>4. TermsIn(target) = TermsIn(data[to])
  <2>1. data[to] \in AccountData
    BY <1>2
  <2>. DEFINE dk == Kind(to)
              sk == Kind(from)
  <2>2. dk # "Inactive" => data[to].kind = "Stake"
    BY <1>3
  <2>. HIDE DEF dk, sk
  <2>3. TermsIn(Merged(data[to], dk, data[from], sk, lamports[from])) = TermsIn(data[to])
    BY <2>1, <2>2, MergedTerms
  <2>. QED
    BY <2>3 DEF dk, sk
<1>. HIDE DEF target
<1>5. data'[to] = target /\ \A h \in Accounts \ {from, to} : data'[h] = data[h]
  BY <1>1, <1>2 DEF SetStates
<1>6. Terms'[to] = Terms[to]
  BY <1>4, <1>5, TermsAre
<1>7. Terms[from] = Terms[to] \/ ConsentedBy(keys, Terms[from], Terms[to])
  BY <1>1, MergeableConsented
<1>. QED
  BY <1>1, <1>2, <1>5, <1>6, <1>7, WalletHolds, StatesWritten

LEMMA MovesConsented ==
  ASSUME Inv, Inv', NEW from \in Accounts, NEW to \in Accounts, NEW S, NEW keys,
         NEW n \in Nat, MoveStake(S, from, to, n) \/ MoveLamports(S, from, to, n)
  PROVE  CustodyKept(keys)
<1>1. /\ from # to /\ HasMeta(data[from]) /\ HasMeta(data[to])
      /\ MetasCanMerge(data[from].meta, data[to].meta, clock)
      /\ Relocate(from, to, n)
      /\ from \in Holders /\ to \in Holders
  BY WalletHolds DEF MoveStake, MoveStakeChecks, MoveLamports, MoveChecks, Mergeable
<1>2. data \in [Accounts -> AccountData]
  BY DEF Inv, AccountsOK
<1>3. Terms[from] = Terms[to] \/ ConsentedBy(keys, Terms[from], Terms[to])
  BY <1>1, MergeableConsented
<1>4. /\ \A h \in Accounts \ {from, to} : data'[h] = data[h]
      /\ Terms'[from] = Terms[from] /\ Terms'[to] = Terms[to]
  <2>1. CASE MoveLamports(S, from, to, n)
    BY <2>1, TermsAre DEF MoveLamports
  <2>2. CASE MoveStake(S, from, to, n)
    <3>. DEFINE target == Moved(from, to, n)
                source == Remainder(from, n)
    <3>1. /\ SetStates(to, target, from, source)
          /\ Kind(from) = "FullyActive"
          /\ Kind(to) \in {"FullyActive", "Inactive"}
      BY <2>2 DEF MoveStake, MoveStakeChecks
    <3>2. /\ data[from].kind = "Stake"
          /\ Kind(to) = "FullyActive" => data[to].kind = "Stake"
      BY <1>1, <3>1 DEF Kind, MergeKind, HasMeta
    <3>3. TermsIn(target) = TermsIn(data[to])
      <4>1. CASE Kind(to) = "FullyActive"
        <5>. DEFINE joined == Absorb(data[to].stake, n, data[from].stake.credits_observed)
        <5>1. target = [data[to] EXCEPT !.stake = joined]
          BY <4>1 DEF Moved
        <5>. HIDE DEF joined, target
        <5>. QED
          BY <1>2, <3>2, <4>1, <5>1, StakeChanges
      <4>2. CASE Kind(to) # "FullyActive"
        <5>. DEFINE copy == [data[from].stake EXCEPT !.stake = n]
        <5>1. target = Staked(data[to].meta, copy)
          BY <4>2 DEF Moved
        <5>. HIDE DEF copy, target
        <5>. QED
          BY <1>1, <1>2, <5>1, MovedTerms
      <4>. QED
        BY <4>1, <4>2
    <3>4. TermsIn(source) = TermsIn(data[from])
      <4>. DEFINE left == data[from].stake.stake - n
      <4>1. \/ source = Initialized(data[from].meta)
            \/ source = [data[from] EXCEPT !.stake.stake = left]
        BY DEF Remainder
      <4>. HIDE DEF left, source
      <4>. QED
        BY <1>1, <1>2, <3>2, <4>1, MovedTerms, StakeChanges
    <3>. HIDE DEF source, target
    <3>5. /\ data'[to] = target /\ data'[from] = source
          /\ \A h \in Accounts \ {from, to} : data'[h] = data[h]
      BY <1>1, <1>2, <3>1 DEF SetStates
    <3>. QED
      BY <3>3, <3>4, <3>5, TermsAre
  <2>. QED
    BY <2>1, <2>2
<1>. QED
  BY <1>1, <1>3, <1>4, StatesWritten

\* Every instruction has the consent of its signers.
LEMMA ProcessConsented ==
  ASSUME Inv, Inv', NEW S \in SUBSET Keys, Process(S),
         NEW keys, Signing(S) \subseteq keys
  PROVE  CustodyKept(keys)
<1>. PICK a \in Accounts :
        \/ Initialize(a)
        \/ InitializeChecked(S, a)
        \/ Authorize(S, a)
        \/ AuthorizeChecked(S, a)
        \/ AuthorizeWithSeed(S, a)
        \/ AuthorizeCheckedWithSeed(S, a)
        \/ SetLockup(S, a)
        \/ SetLockupChecked(S, a)
        \/ \E v \in Voters : Delegate(S, a, v)
        \/ Deactivate(S, a)
        \/ \E delinquent, reference \in Voters :
              DeactivateDelinquent(a, delinquent, reference)
        \/ \E to \in Holders : Withdraw(S, a, to)
        \/ \E to \in Accounts : Merge(S, to, a)
        \/ \E to \in Accounts : \E n \in Amounts \cup {lamports[a]} :
              \/ SplitFull(S, a, to, n)
              \/ SplitInactive(S, a, to, n)
              \/ SplitActive(S, a, to, n)
              \/ MoveStake(S, a, to, n)
              \/ MoveLamports(S, a, to, n)
  BY Zenon DEF Process
<1>1. S \subseteq keys /\ \A base \in S : DerivedKeys[base] \subseteq keys
  BY DEF Signing
<1>2. CASE Initialize(a) \/ InitializeChecked(S, a)
  BY <1>2, InitializeConsented DEF Initialize, InitializeChecked
<1>3. CASE Authorize(S, a) \/ AuthorizeChecked(S, a)
  BY <1>1, <1>3, AuthorizeConsented DEF Authorize, AuthorizeChecked
<1>4. CASE AuthorizeWithSeed(S, a) \/ AuthorizeCheckedWithSeed(S, a)
  <2>1. PICK base \in Keys, who \in StakeAuthorize, custodian \in Custodians(S),
             extra \in SUBSET S :
           \E derived \in DerivedKeys[base], new \in Parties :
              DoAuthorize(a, SeedSigners(S, base, derived, custodian, extra),
                          new, who, custodian)
    BY <1>4 DEF AuthorizeWithSeed, AuthorizeCheckedWithSeed
  <2>2. PICK derived \in DerivedKeys[base], new \in Parties :
           DoAuthorize(a, SeedSigners(S, base, derived, custodian, extra),
                       new, who, custodian)
    BY <2>1
  <2>3. SeedSigners(S, base, derived, custodian, extra) \subseteq keys
    BY <1>1 DEF SeedSigners, Custodians
  <2>. QED
    BY <2>2, <2>3, AuthorizeConsented
<1>5. CASE SetLockup(S, a) \/ SetLockupChecked(S, a)
  <2>1. PICK args \in LockupChanges : DoSetLockup(a, S, args)
    BY <1>5 DEF SetLockup, SetLockupChecked
  <2>2. args \in LockupArgs
    BY ProgramConstants
  <2>. QED
    BY <1>1, <2>1, <2>2, SetLockupConsented
<1>6. CASE \/ \E v \in Voters : Delegate(S, a, v)
           \/ Deactivate(S, a)
           \/ \E delinquent, reference \in Voters :
                 DeactivateDelinquent(a, delinquent, reference)
  BY <1>6, DelegateConsented
<1>7. CASE \E to \in Holders : Withdraw(S, a, to)
  BY <1>1, <1>7, WithdrawConsented
<1>8. CASE \E to \in Accounts : Merge(S, to, a)
  BY <1>8, MergeConsented
<1>9. CASE \E to \in Accounts : \E n \in Amounts \cup {lamports[a]} :
              \/ SplitFull(S, a, to, n)
              \/ SplitInactive(S, a, to, n)
              \/ SplitActive(S, a, to, n)
              \/ MoveStake(S, a, to, n)
              \/ MoveLamports(S, a, to, n)
  <2>1. PICK to \in Accounts, n \in Amounts \cup {lamports[a]} :
               \/ SplitFull(S, a, to, n)
               \/ SplitInactive(S, a, to, n)
               \/ SplitActive(S, a, to, n)
               \/ MoveStake(S, a, to, n)
               \/ MoveLamports(S, a, to, n)
    BY <1>9
  <2>2. n \in Nat
    BY InputsOK, AccountOK
  <2>. QED
    BY <2>1, <2>2, SplitConsented, MovesConsented
<1>. QED
  BY <1>2, <1>3, <1>4, <1>5, <1>6, <1>7, <1>8, <1>9

-----------------------------------------------------------------------------
(* Steps of the program as steps of the abstract specification.            *)

LEMMA BagSame ==
  ASSUME NEW l \in [Holders -> Nat], NEW m \in [Holders -> Nat], NEW k, NEW j,
         \A t : Sum(m, j, t) = Sum(l, k, t)
  PROVE  Bag(m, j) = Bag(l, k)
<1>. DEFINE b == Bag(l, k)
            c == Bag(m, j)
<1>1. \A t : /\ t \in DOMAIN b <=> Sum(l, k, t) > 0
             /\ t \in DOMAIN b => b[t] = Sum(l, k, t)
             /\ t \in DOMAIN c <=> Sum(m, j, t) > 0
             /\ t \in DOMAIN c => c[t] = Sum(m, j, t)
  BY SumsOK
<1>2. b = [t \in DOMAIN b |-> b[t]] /\ c = [t \in DOMAIN c |-> c[t]]
  BY DEF Bag
<1>. HIDE DEF b, c
<1>3. \A t : t \in DOMAIN b <=> t \in DOMAIN c
  BY <1>1
<1>4. \A t \in DOMAIN b : b[t] = c[t]
  BY <1>1, <1>3
<1>5. b = c
  BY <1>2, <1>3, <1>4
<1>. QED
  BY <1>5 DEF b, c

LEMMA CustodyStep ==
  ASSUME Inv, Inv', UNCHANGED clock, CustodyKept(Consenting')
  PROVE  Custody!CustodyNext \/ UNCHANGED Holdings
<1>. DEFINE l == lamports
            m == lamports'
            k == Terms
            j == Terms'
<1>1. l \in [Holders -> Nat] /\ m \in [Holders -> Nat]
  BY Balances, BalancesKept
<1>2. Holdings = Bag(l, k) /\ Holdings' = Bag(m, j)
  BY HoldingsAreSums, HoldingsBecomeSums
<1>3. PICK from, to : \E n \in Nat : Moves(Consenting', from, to, n)
  BY DEF CustodyKept
<1>4. PICK n \in Nat : Moves(Consenting', from, to, n)
  BY <1>3
<1>5. /\ Shifted(l, k, m, j, from, to, n)
      /\ from = to \/ n = 0 \/ ConsentedBy(Consenting', from, to)
  BY <1>4 DEF Moves
<1>. HIDE DEF l, m, k, j
<1>6. CASE from = to \/ n = 0
  <2>1. ASSUME NEW t PROVE Sum(m, j, t) = Sum(l, k, t)
    <3>1. Sum(m, j, t) \in Nat /\ Sum(l, k, t) \in Nat
      BY <1>1, SumsOK
    <3>2. Sum(m, j, t) - Sum(l, k, t) = 0
      BY <1>5, <1>6 DEF Shifted, Delta
    <3>. QED
      BY <3>1, <3>2
  <2>. QED
    BY <1>1, <1>2, <2>1, BagSame
<1>7. CASE from # to /\ n # 0
  <2>. DEFINE b == Bag(l, k)
              c == Bag(m, j)
  <2>4. Holdings = b /\ Holdings' = c
    BY <1>2
  <2>1. /\ from \in DOMAIN b /\ to \in DOMAIN c
        /\ n \in 1..b[from]
        /\ c = Added(Left(b, from, n), to, n)
        /\ \A t \in DOMAIN b : b[t] \in Nat /\ b[t] > 0
    <3>1. from # to /\ n \in Nat \ {0} /\ Shifted(l, k, m, j, from, to, n)
      BY <1>5, <1>7
    <3>2. b = Bag(l, k) /\ c = Bag(m, j)
      OBVIOUS
    <3>. HIDE DEF b, c
    <3>3. Goes(b, c, from, to, n)
      BY <1>1, <3>1, <3>2, TransferInBags
    <3>. QED
      BY <3>3 DEF Goes
  <2>2. ConsentedBy(Consenting', from, to)
    BY <1>5, <1>7
  <2>3. Custody!Consented(from, to)
    BY <2>2 DEF ConsentedBy, Custody!Consented, Custody!InForce,
                Custody!IsInForce, IsInForce
  <2>. HIDE DEF b, c
  <2>. DEFINE rest == Left(b, from, n)
              less == [t \in DOMAIN b |-> IF t = from THEN b[t] - n ELSE b[t]]
  <2>5. Custody!(-)(b, Custody!Lot(from, n)) = rest
    <3>1. Custody!Lot(from, n) = [t \in {from} |-> n]
      BY DEF Custody!Lot
    <3>2. \A t : t \in DOMAIN Custody!Lot(from, n) <=> t = from
      BY <3>1
    <3>3. Custody!Lot(from, n)[from] = n
      BY <3>1
    <3>4. Custody!(-)(b, Custody!Lot(from, n))
            = [t \in {u \in DOMAIN less : less[u] > 0} |-> less[t]]
      BY <3>2, <3>3 DEF Custody!(-)
    <3>5. {u \in DOMAIN less : less[u] > 0} = {u \in DOMAIN b : u = from => b[u] > n}
      BY <2>1
    <3>. QED
      BY <3>4, <3>5 DEF Left
  <2>. HIDE DEF rest
  <2>6. Custody!(+)(rest, Custody!Lot(to, n)) = Added(rest, to, n)
    <3>1. Custody!Lot(to, n) = [t \in {to} |-> n]
      BY DEF Custody!Lot
    <3>2. \A t : t \in DOMAIN Custody!Lot(to, n) <=> t = to
      BY <3>1
    <3>3. Custody!Lot(to, n)[to] = n
      BY <3>1
    <3>4. DOMAIN Custody!Lot(to, n) = {to}
      BY <3>1
    <3>. QED
      BY <3>2, <3>3, <3>4 DEF Custody!(+), Added
  <2>7. Custody!Transfer(from, to)
    BY <1>7, <2>1, <2>3, <2>4, <2>5, <2>6 DEF Custody!Transfer, rest
  <2>. QED
    BY <2>1, <2>4, <2>7 DEF Custody!CustodyNext
<1>. QED
  BY <1>6, <1>7

\* The runtime moves lamports into accounts only, and lets time pass.
LEMMA RuntimeConsented ==
  ASSUME Inv, Inv', Runtime
  PROVE  Custody!CustodyNext \/ UNCHANGED <<Holdings, clock>>
<1>1. ASSUME NEW a \in Accounts, CreateAccount(a) \/ Reap(a)
      PROVE  UNCHANGED clock /\ CustodyKept(Consenting')
  BY <1>1, LifetimesConsented DEF CreateAccount, Reap, sysvars
<1>2. ASSUME NEW a \in Accounts, NEW n \in Amounts, Deposit(a, n)
      PROVE  UNCHANGED clock /\ CustodyKept(Consenting')
  BY <1>2, DepositConsented DEF Deposit, sysvars
<1>3. ASSUME \/ EndRewards
             \/ \E v \in Voters : Vote(v)
             \/ ChangeRent
      PROVE  UNCHANGED clock /\ CustodyKept(Consenting')
  BY <1>3, NothingMoved DEF EndRewards, Vote, ChangeRent
<1>4. CASE AdvanceEpoch \/ AdvanceTime
  <2>1. Terms' = Terms /\ UNCHANGED lamports
    BY <1>4 DEF AdvanceEpoch, AdvanceTime, Terms, TermsOf
  <2>2. Holdings' = Holdings
    BY <2>1, HoldingsAreSums, HoldingsBecomeSums
  <2>3. clock'.epoch >= clock.epoch /\ clock'.unix_timestamp >= clock.unix_timestamp
    <3>1. clock \in Clock
      BY DEF Inv, SysvarsOK
    <3>. QED
      BY <1>4, <3>1 DEF AdvanceEpoch, AdvanceTime, Clock
  <2>. QED
    BY <2>2, <2>3 DEF Custody!CustodyNext, Custody!Pass
<1>5. CASE UNCHANGED clock /\ CustodyKept(Consenting')
  BY <1>5, CustodyStep
<1>. QED
  BY <1>1, <1>2, <1>3, <1>4, <1>5 DEF Runtime

LEMMA CustodyBegins == Init => Custody!CustodyInit
<1>. SUFFICES ASSUME Init PROVE Custody!CustodyInit
  OBVIOUS
<1>. DEFINE l == lamports
            k == Terms
            b == Bag(l, k)
<1>1. /\ l \in [Holders -> Nat] /\ Wallet \in Holders
      /\ \A h \in Holders : l[h] = IF h = Wallet THEN Supply ELSE 0
  BY WalletHolds, ProgramConstants, NumbersOK DEF Init, Lamports, U64
<1>2. k[Wallet] = NoTerms
  BY TermsAre
<1>3. {h \in Holders : l[h] > 0} = {Wallet}
  BY <1>1, CustodyConstants
<1>. HIDE DEF l, k
<1>4. {k[h] : h \in {x \in Holders : l[x] > 0}} = {NoTerms}
  BY <1>2, <1>3
<1>5. Holding(l, k, NoTerms) = {Wallet}
  BY <1>1, <1>2, <1>3 DEF Holding
<1>6. Total(l, {Wallet}) = Supply
  <2>1. Total(l, {}) = 0
    BY TotalEmpty
  <2>2. IsFiniteSet({Wallet}) /\ Wallet \in {Wallet} /\ \A h \in {Wallet} : l[h] \in Int
    <3>1. IsFiniteSet({Wallet})
      BY FS_Singleton
    <3>. QED
      BY <1>1, <3>1
  <2>3. Total(l, {Wallet}) = l[Wallet] + Total(l, {Wallet} \ {Wallet})
    BY <2>2, TotalWithout
  <2>. QED
    BY <1>1, <2>1, <2>3
<1>7. b = [t \in {NoTerms} |-> Supply]
  BY <1>4, <1>5, <1>6 DEF Bag, Sum
<1>8. Holdings = b
  BY HoldingsAreSums DEF b, l, k
<1>. QED
  BY <1>7, <1>8 DEF Custody!CustodyInit, Custody!Lot

LEMMA StepConsented ==
  ASSUME Inv, Inv', PendingOK, TransactionNext
  PROVE  Custody!CustodyNext \/ UNCHANGED <<Holdings, clock>>
<1>. DEFINE S == signed' \cap Keys
<1>1. Process(S) \/ Runtime \/ UNCHANGED vars
  BY TransactionStep
<1>2. CASE Process(S)
  <2>1. S \in SUBSET Keys /\ Signing(S) \subseteq Consenting'
    BY DEF Signing, Consenting
  <2>2. UNCHANGED clock
    BY <1>2, ProcessKeepsSysvars DEF sysvars
  <2>. HIDE DEF S
  <2>3. CustodyKept(Consenting')
    BY <1>2, <2>1, ProcessConsented
  <2>. QED
    BY <2>2, <2>3, CustodyStep
<1>3. CASE Runtime
  BY <1>3, RuntimeConsented
<1>4. CASE UNCHANGED vars
  <2>1. Terms' = Terms /\ UNCHANGED <<lamports, clock>>
    BY <1>4 DEF vars, Terms, TermsOf
  <2>. QED
    BY <2>1, HoldingsAreSums, HoldingsBecomeSums
<1>. QED
  BY <1>1, <1>2, <1>3, <1>4

(***************************************************************************)
(* Whatever transactions are submitted, lamports leave the terms they are  *)
(* held on with the consent that those terms ask for, and in no other way: *)
(* the program with its account lists implements the custody of lamports.  *)
(***************************************************************************)
THEOREM TransactionsKeepCustody == TransactionSpec => ImplementsCustody
<1>. DEFINE A == Custody!CustodyNext
            v == <<Holdings, clock>>
<1>1. TransactionInit => Custody!CustodyInit
  BY CustodyBegins DEF TransactionInit
<1>2. Inv /\ Inv' /\ PendingOK /\ [TransactionNext]_transactionVars => [A]_v
  <2>1. ASSUME Inv, Inv', PendingOK, TransactionNext PROVE [A]_v
    BY <2>1, StepConsented
  <2>2. ASSUME UNCHANGED transactionVars PROVE [A]_v
    <3>1. Terms' = Terms /\ UNCHANGED <<lamports, clock>>
      BY <2>2 DEF transactionVars, vars, Terms, TermsOf
    <3>. QED
      BY <3>1, HoldingsAreSums, HoldingsBecomeSums
  <2>. QED
    BY <2>1, <2>2
<1>3. ImplementsCustody <=> Custody!CustodyInit /\ [][A]_v
  BY DEF ImplementsCustody, Custody!CustodySpec
<1>. HIDE DEF A, v
<1>. QED
  BY <1>1, <1>2, <1>3, TransactionInvariance, PTL DEF TransactionSpec

-----------------------------------------------------------------------------
(* Stake and the keys it was delegated by.                                 *)

\* What an account adds to what the staker and the withdrawer delegated to v.
Pledged(state, staker, withdrawer, v) ==
    /\ state.kind = "Stake"
    /\ state.stake.voter_pubkey = v
    /\ state.meta.staker = staker
    /\ state.meta.withdrawer = withdrawer
    /\ state.stake.deactivation_epoch = Never

\* A step leaves what the staker and the withdrawer have delegated.
PledgedKept(staker, withdrawer, v) ==
    \A a \in Accounts : Pledged(data[a], staker, withdrawer, v) =>
        /\ Pledged(data'[a], staker, withdrawer, v)
        /\ data'[a].stake.stake = data[a].stake.stake

Pledge(accounts, staker, withdrawer, v) ==
    {a \in Accounts : Pledged(accounts[a], staker, withdrawer, v)}
StakesOf(accounts, s) == [a \in s |-> accounts[a].stake.stake]

DelegatedAsTotal ==
    \A staker, withdrawer, v :
        DelegatedBy(staker, withdrawer, v)
          = LET s == Pledge(data, staker, withdrawer, v)
            IN  Total(StakesOf(data, s), s)

LEMMA DelegatedIsTotal == DelegatedAsTotal
<1>. SUFFICES ASSUME NEW staker, NEW withdrawer, NEW v
              PROVE  DelegatedBy(staker, withdrawer, v)
                       = LET s == Pledge(data, staker, withdrawer, v)
                         IN  Total(StakesOf(data, s), s)
  BY DEF DelegatedAsTotal
<1>. DEFINE s == Pledge(data, staker, withdrawer, v)
<1>1. {a \in DelegatedTo(v) : /\ data[a].meta.staker = staker
                              /\ data[a].meta.withdrawer = withdrawer
                              /\ data[a].stake.deactivation_epoch = Never} = s
  BY DEF DelegatedTo, StakeAccounts, IsStake, Pledge, Pledged
<1>2. DelegatedBy(staker, withdrawer, v) = MapThenSumSet(LAMBDA a : data[a].stake.stake, s)
  BY <1>1 DEF DelegatedBy
<1>. QED
  BY <1>2, TotalIsFold DEF StakesOf

LEMMA DelegatedKept ==
  ASSUME Inv, Inv', NEW staker, NEW withdrawer, NEW v, PledgedKept(staker, withdrawer, v)
  PROVE  ~(DelegatedBy(staker, withdrawer, v)' < DelegatedBy(staker, withdrawer, v))
<1>. DEFINE s == Pledge(data, staker, withdrawer, v)
            r == Pledge(data', staker, withdrawer, v)
            f == StakesOf(data, s)
            g == StakesOf(data', r)
<1>1. DelegatedBy(staker, withdrawer, v) = Total(f, s)
  BY DelegatedIsTotal DEF DelegatedAsTotal
<1>2. DelegatedBy(staker, withdrawer, v)' = Total(g, r)
  <2>1. DelegatedAsTotal'
    BY DelegatedIsTotal, PTL
  <2>. QED
    BY <2>1 DEF DelegatedAsTotal
<1>3. IsFiniteSet(r)
  BY ProgramConstants, FS_Subset DEF Pledge
<1>4. s \in SUBSET r /\ \A a \in s : f[a] = g[a]
  BY DEF PledgedKept, Pledge, StakesOf
<1>5. \A a \in r : g[a] \in Nat
  <2>1. data' \in [Accounts -> AccountData]
    BY DEF Inv, AccountsOK
  <2>2. \A a \in r : data'[a].stake \in Stake
    BY <2>1, StakeData DEF Pledge, Pledged
  <2>. QED
    BY <2>2, NumbersOK DEF Stake, Lamports, U64, StakesOf
<1>. HIDE DEF s, r, f, g
<1>6. \A a \in s : f[a] \in Int /\ f[a] <= g[a]
  BY <1>4, <1>5
<1>7. Total(f, s) <= Total(g, r)
  BY <1>3, <1>4, <1>5, <1>6, TotalMonotone
<1>8. Total(f, s) \in Int /\ Total(g, r) \in Int
  <2>1. IsFiniteSet(s) /\ \A a \in r : g[a] \in Int
    BY <1>3, <1>4, <1>5, FS_Subset
  <2>. QED
    BY <1>3, <1>6, <2>1, TotalTyped
<1>. QED
  BY <1>1, <1>2, <1>7, <1>8

\* Neither authority signed, and the validator is not delinquent.
Unasked(S, staker, withdrawer, v) ==
    /\ {staker, withdrawer} \cap Signing(S) = {}
    /\ ~EligibleForDeactivateDelinquent(epoch_credits[v], clock.epoch)

\* Only accounts without pledges are written.
LEMMA OthersWritten ==
  ASSUME NEW staker, NEW withdrawer, NEW v,
         \A c \in Accounts :
            data'[c] = data[c] \/ ~Pledged(data[c], staker, withdrawer, v)
  PROVE  PledgedKept(staker, withdrawer, v)
BY DEF PledgedKept

LEMMA MetaKeepsPledges ==
  ASSUME Inv, NEW a \in Accounts, NEW S, NEW staker, NEW withdrawer, NEW v,
         Unasked(S, staker, withdrawer, v)
  PROVE  /\ \A signers \in SUBSET Signing(S), who \in StakeAuthorize :
            \A new, custodian :
               DoAuthorize(a, signers, new, who, custodian) =>
                  PledgedKept(staker, withdrawer, v)
         /\ \A args : DoSetLockup(a, S, args) => PledgedKept(staker, withdrawer, v)
<1>1. data \in [Accounts -> AccountData]
  BY DEF Inv, AccountsOK
<1>2. ASSUME NEW signers \in SUBSET Signing(S), NEW new, NEW custodian,
             NEW who \in StakeAuthorize,
             DoAuthorize(a, signers, new, who, custodian)
      PROVE  PledgedKept(staker, withdrawer, v)
  <2>1. ~Pledged(data[a], staker, withdrawer, v)
    BY <1>2 DEF DoAuthorize, MayAuthorize, Check, StakeAuthorize, Pledged, Unasked
  <2>2. \A c \in Accounts \ {a} : data'[c] = data[c]
    BY <1>1, <1>2 DEF DoAuthorize, SetState
  <2>. QED
    BY <2>1, <2>2, OthersWritten
<1>3. ASSUME NEW args, DoSetLockup(a, S, args)
      PROVE  PledgedKept(staker, withdrawer, v)
  <2>. DEFINE state == data[a]
              meta == WithLockup(state.meta, args)
  <2>1. /\ data'[a] = [state EXCEPT !.meta = meta]
        /\ \A c \in Accounts \ {a} : data'[c] = data[c]
    BY <1>1, <1>3 DEF DoSetLockup, SetState
  <2>2. state.kind = "Stake" =>
           /\ state = [kind |-> "Stake", meta |-> state.meta, stake |-> state.stake]
           /\ state.meta \in Meta
    BY <1>1, StakeData
  <2>3. state.kind = "Stake" =>
           meta.staker = state.meta.staker /\ meta.withdrawer = state.meta.withdrawer
    BY <2>2 DEF WithLockup, Meta
  <2>. HIDE DEF state, meta
  <2>4. state.kind = "Stake" =>
           data'[a] = [kind |-> "Stake", meta |-> meta, stake |-> state.stake]
    BY <2>1, <2>2
  <2>5. Pledged(state, staker, withdrawer, v) =>
           /\ Pledged(data'[a], staker, withdrawer, v)
           /\ data'[a].stake.stake = state.stake.stake
    BY <2>3, <2>4 DEF Pledged
  <2>. QED
    BY <2>1, <2>5 DEF PledgedKept, state
<1>. QED
  BY <1>2, <1>3

\* Accounts that the staker or the withdrawer of the source must sign for.
LEMMA AccountsKeepPledges ==
  ASSUME Inv, NEW a \in Accounts, NEW S, NEW staker, NEW withdrawer, NEW v,
         Unasked(S, staker, withdrawer, v),
         \/ \E k, w, lockup : DoInitialize(a, k, w, lockup)
         \/ \E u \in Voters : Delegate(S, a, u)
         \/ Deactivate(S, a)
         \/ \E delinquent, reference \in Voters :
               DeactivateDelinquent(a, delinquent, reference)
         \/ \E to \in Holders : Withdraw(S, a, to)
  PROVE  PledgedKept(staker, withdrawer, v)
<1>. DEFINE free(state) == ~Pledged(state, staker, withdrawer, v)
<1>1. data \in [Accounts -> AccountData]
  BY DEF Inv, AccountsOK
<1>2. \A c \in Accounts \ {a} : data'[c] = data[c]
  BY <1>1 DEF DoInitialize, Delegate, Deactivate, DeactivateDelinquent, DoDeactivate,
              Withdraw, WithdrawAll, WithdrawPart, SetState
<1>3. S \subseteq Signing(S)
  BY DEF Signing
<1>4. ASSUME NEW k, NEW w, NEW lockup, DoInitialize(a, k, w, lockup) PROVE free(data[a])
  BY <1>4 DEF DoInitialize, Pledged, Uninitialized
<1>5. CASE Deactivate(S, a) \/ \E u \in Voters : Delegate(S, a, u)
  BY <1>2, <1>3, <1>5, OthersWritten DEF Deactivate, Delegate, Check, Pledged, Unasked
<1>6. ASSUME NEW delinquent \in Voters, NEW reference \in Voters,
             DeactivateDelinquent(a, delinquent, reference)
      PROVE  free(data[a])
  BY <1>6 DEF DeactivateDelinquent, Pledged, Unasked
<1>7. ASSUME NEW to \in Holders, Withdraw(S, a, to)
      PROVE  data'[a] = data[a] \/ free(data[a])
  <2>1. PICK custodian \in Custodians(S) :
           \/ WithdrawAll(S, a, to, custodian)
           \/ \E n \in Amounts : WithdrawPart(S, a, to, n, custodian)
    BY <1>7 DEF Withdraw
  <2>2. CASE WithdrawAll(S, a, to, custodian)
    <3>1. MayWithdraw(S, a, custodian)
      BY <2>2 DEF WithdrawAll
    <3>. QED
      BY <1>3, <3>1 DEF MayWithdraw, Check, Pledged, Unasked, Uninitialized, Closed
  <2>3. CASE \E n \in Amounts : WithdrawPart(S, a, to, n, custodian)
    BY <2>3 DEF WithdrawPart
  <2>. QED
    BY <2>1, <2>2, <2>3
<1>8. CASE data'[a] = data[a] \/ free(data[a])
  BY <1>2, <1>8, OthersWritten
<1>. QED
  BY <1>4, <1>5, <1>6, <1>7, <1>8

LEMMA PairsKeepPledges ==
  ASSUME Inv, NEW from \in Accounts, NEW to \in Accounts, NEW S, NEW n,
         NEW staker, NEW withdrawer, NEW v, Unasked(S, staker, withdrawer, v),
         \/ Merge(S, to, from)
         \/ SplitFull(S, from, to, n)
         \/ SplitInactive(S, from, to, n)
         \/ SplitActive(S, from, to, n)
         \/ MoveStake(S, from, to, n)
         \/ MoveLamports(S, from, to, n)
  PROVE  PledgedKept(staker, withdrawer, v)
<1>. DEFINE free(state) == ~Pledged(state, staker, withdrawer, v)
<1>1. data \in [Accounts -> AccountData]
  BY DEF Inv, AccountsOK
<1>2. \A c \in Accounts \ {from, to} : data'[c] = data[c]
  BY <1>1 DEF Merge, SplitFull, SplitInactive, SplitActive, MoveStake, MoveLamports,
              SetState, SetStates
<1>3. S \subseteq Signing(S)
  BY DEF Signing
<1>4. CASE Merge(S, to, from)
  BY <1>2, <1>3, <1>4, OthersWritten
     DEF Merge, CanMerge, MetasCanMerge, Check, Pledged, Unasked
<1>5. CASE \/ SplitFull(S, from, to, n)
           \/ SplitInactive(S, from, to, n)
           \/ SplitActive(S, from, to, n)
  <2>1. SplitChecks(S, from, to, n)
    BY <1>5 DEF SplitFull, SplitInactive, SplitActive
  <2>2. free(data[from]) /\ free(data[to])
    BY <1>3, <2>1 DEF SplitChecks, Check, Pledged, Unasked, Uninitialized
  <2>. QED
    BY <1>2, <2>2, OthersWritten
<1>6. CASE MoveStake(S, from, to, n) \/ MoveLamports(S, from, to, n)
  <2>1. MoveChecks(S, from, to, n)
    BY <1>6 DEF MoveStake, MoveStakeChecks, MoveLamports
  <2>2. free(data[from]) /\ free(data[to])
    BY <1>3, <2>1 DEF MoveChecks, MetasCanMerge, Check, Pledged, Unasked
  <2>. QED
    BY <1>2, <2>2, OthersWritten
<1>. QED
  BY <1>4, <1>5, <1>6

LEMMA ProcessKeepsPledges ==
  ASSUME Inv, NEW S \in SUBSET Keys, Process(S),
         NEW staker, NEW withdrawer, NEW v, Unasked(S, staker, withdrawer, v)
  PROVE  PledgedKept(staker, withdrawer, v)
<1>. PICK a \in Accounts :
        \/ Initialize(a)
        \/ InitializeChecked(S, a)
        \/ Authorize(S, a)
        \/ AuthorizeChecked(S, a)
        \/ AuthorizeWithSeed(S, a)
        \/ AuthorizeCheckedWithSeed(S, a)
        \/ SetLockup(S, a)
        \/ SetLockupChecked(S, a)
        \/ \E u \in Voters : Delegate(S, a, u)
        \/ Deactivate(S, a)
        \/ \E delinquent, reference \in Voters :
              DeactivateDelinquent(a, delinquent, reference)
        \/ \E to \in Holders : Withdraw(S, a, to)
        \/ \E to \in Accounts : Merge(S, to, a)
        \/ \E to \in Accounts : \E n \in Amounts \cup {lamports[a]} :
              \/ SplitFull(S, a, to, n)
              \/ SplitInactive(S, a, to, n)
              \/ SplitActive(S, a, to, n)
              \/ MoveStake(S, a, to, n)
              \/ MoveLamports(S, a, to, n)
  BY Zenon DEF Process
<1>1. S \subseteq Signing(S) /\ \A base \in S : DerivedKeys[base] \subseteq Signing(S)
  BY DEF Signing
<1>2. CASE Initialize(a) \/ InitializeChecked(S, a)
  BY <1>2, AccountsKeepPledges DEF Initialize, InitializeChecked
<1>3. CASE Authorize(S, a) \/ AuthorizeChecked(S, a)
  BY <1>1, <1>3, MetaKeepsPledges DEF Authorize, AuthorizeChecked
<1>4. CASE AuthorizeWithSeed(S, a) \/ AuthorizeCheckedWithSeed(S, a)
  <2>1. PICK base \in Keys, who \in StakeAuthorize, custodian \in Custodians(S),
             extra \in SUBSET S :
           \E derived \in DerivedKeys[base], new \in Parties :
              DoAuthorize(a, SeedSigners(S, base, derived, custodian, extra),
                          new, who, custodian)
    BY <1>4 DEF AuthorizeWithSeed, AuthorizeCheckedWithSeed
  <2>2. PICK derived \in DerivedKeys[base], new \in Parties :
           DoAuthorize(a, SeedSigners(S, base, derived, custodian, extra),
                       new, who, custodian)
    BY <2>1
  <2>3. SeedSigners(S, base, derived, custodian, extra) \subseteq Signing(S)
    BY <1>1 DEF SeedSigners, Custodians
  <2>. QED
    BY <2>2, <2>3, MetaKeepsPledges
<1>5. CASE SetLockup(S, a) \/ SetLockupChecked(S, a)
  BY <1>5, MetaKeepsPledges DEF SetLockup, SetLockupChecked
<1>6. CASE \/ \E u \in Voters : Delegate(S, a, u)
           \/ Deactivate(S, a)
           \/ \E delinquent, reference \in Voters :
                 DeactivateDelinquent(a, delinquent, reference)
           \/ \E to \in Holders : Withdraw(S, a, to)
  BY <1>6, AccountsKeepPledges
<1>7. CASE \/ \E to \in Accounts : Merge(S, to, a)
           \/ \E to \in Accounts : \E n \in Amounts \cup {lamports[a]} :
                 \/ SplitFull(S, a, to, n)
                 \/ SplitInactive(S, a, to, n)
                 \/ SplitActive(S, a, to, n)
                 \/ MoveStake(S, a, to, n)
                 \/ MoveLamports(S, a, to, n)
  BY <1>7, PairsKeepPledges
<1>. QED
  BY <1>2, <1>3, <1>4, <1>5, <1>6, <1>7

\* An account that disappears holds nothing, and so no pledge.
LEMMA RuntimeKeepsPledges ==
  ASSUME Inv, Runtime, NEW staker, NEW withdrawer, NEW v
  PROVE  PledgedKept(staker, withdrawer, v)
<1>1. data \in [Accounts -> AccountData]
  BY DEF Inv, AccountsOK
<1>2. ASSUME NEW a \in Accounts, CreateAccount(a) \/ Reap(a)
      PROVE  PledgedKept(staker, withdrawer, v)
  <2>1. \A c \in Accounts \ {a} : data'[c] = data[c]
    BY <1>1, <1>2 DEF CreateAccount, Reap, SetState
  <2>2. CASE CreateAccount(a)
    BY <2>1, <2>2, OthersWritten DEF CreateAccount, Pledged, NoAccount
  <2>3. CASE Reap(a)
    <3>1. lamports[a] = 0
      BY <2>3 DEF Reap
    <3>2. ~Pledged(data[a], staker, withdrawer, v)
      <4>1. SUFFICES ASSUME Pledged(data[a], staker, withdrawer, v) PROVE FALSE
        OBVIOUS
      <4>2. /\ data[a].stake.stake >= MinimumDelegation
            /\ lamports[a] >= data[a].stake.stake
            /\ data[a].stake.stake \in Nat
        <5>1. data[a].kind = "Stake" /\ data[a].stake.deactivation_epoch = Never
          BY <4>1 DEF Pledged
        <5>2. data[a].stake \in Stake
          BY <5>1, DelegationOK DEF IsStake
        <5>3. Sound(data[a], clock.epoch) /\ Backed(data[a], lamports[a])
          BY AccountOK
        <5>. QED
          BY <5>1, <5>2, <5>3, NumbersOK DEF Sound, Backed, Stake, Lamports, U64
      <4>. QED
        BY <3>1, <4>2, StateConstants
    <3>. QED
      BY <2>1, <3>2, OthersWritten
  <2>. QED
    BY <1>2, <2>2, <2>3
<1>3. CASE \/ \E a \in Accounts, n \in Amounts : Deposit(a, n)
           \/ AdvanceEpoch
           \/ EndRewards
           \/ AdvanceTime
           \/ \E u \in Voters : Vote(u)
           \/ ChangeRent
  BY <1>3, OthersWritten DEF Deposit, AdvanceEpoch, EndRewards, AdvanceTime, Vote, ChangeRent
<1>. QED
  BY <1>2, <1>3 DEF Runtime

LEMMA StepKeepsPledges ==
  ASSUME Inv, Inv', PendingOK, TransactionNext \/ UNCHANGED transactionVars,
         NEW staker, NEW withdrawer, NEW v,
         {staker, withdrawer} \cap Consenting' = {},
         ~EligibleForDeactivateDelinquent(epoch_credits[v], clock.epoch)
  PROVE  ~(DelegatedBy(staker, withdrawer, v)' < DelegatedBy(staker, withdrawer, v))
<1>. DEFINE S == signed' \cap Keys
<1>1. Process(S) \/ Runtime \/ UNCHANGED vars
  BY TransactionStep DEF transactionVars
<1>2. CASE Process(S)
  <2>1. S \in SUBSET Keys /\ Unasked(S, staker, withdrawer, v)
    BY DEF Signing, Consenting, Unasked
  <2>. HIDE DEF S
  <2>. QED
    BY <1>2, <2>1, ProcessKeepsPledges, DelegatedKept
<1>3. CASE Runtime
  BY <1>3, RuntimeKeepsPledges, DelegatedKept
<1>4. CASE UNCHANGED vars
  BY <1>4, OthersWritten, DelegatedKept DEF vars
<1>. QED
  BY <1>1, <1>2, <1>3, <1>4

(***************************************************************************)
(* In any account layout, stake is only withdrawn from a validator that    *)
(* votes when its staker or its withdrawer signed the transaction.         *)
(***************************************************************************)
THEOREM DelegationsTakeConsent == TransactionSpec => DelegationNeedsStaker
<1>. DEFINE A == \A m \in Metas, v \in Voters :
                    DelegatedBy(m.staker, m.withdrawer, v)'
                       < DelegatedBy(m.staker, m.withdrawer, v) =>
                    \/ {m.staker, m.withdrawer} \cap Consenting' # {}
                    \/ EligibleForDeactivateDelinquent(epoch_credits[v], clock.epoch)
<1>1. Inv /\ Inv' /\ PendingOK /\ [TransactionNext]_transactionVars => [A]_vars
  <2>. SUFFICES ASSUME Inv, Inv', PendingOK, [TransactionNext]_transactionVars,
                       NEW m \in Metas, NEW v \in Voters,
                       {m.staker, m.withdrawer} \cap Consenting' = {},
                       ~EligibleForDeactivateDelinquent(epoch_credits[v], clock.epoch)
                PROVE  ~(DelegatedBy(m.staker, m.withdrawer, v)'
                            < DelegatedBy(m.staker, m.withdrawer, v))
    OBVIOUS
  <2>. DEFINE k == m.staker
              w == m.withdrawer
  <2>1. ~(DelegatedBy(k, w, v)' < DelegatedBy(k, w, v))
    BY StepKeepsPledges
  <2>. QED
    BY <2>1
<1>2. DelegationNeedsStaker <=> [][A]_vars
  BY DEF DelegationNeedsStaker
<1>. HIDE DEF A
<1>. QED
  BY <1>1, <1>2, TransactionInvariance, PTL DEF TransactionSpec

-----------------------------------------------------------------------------
(* Rewards due.                                                            *)

\* Rewards are due for what is effective of v's stake, in proportion to the
\* amount delegated and the credits it has not redeemed.
Earns(state, v) ==
    /\ state.kind = "Stake"
    /\ state.stake.voter_pubkey = v
    /\ StakeActivatingAndDeactivating(state.stake, history, clock.epoch).effective > 0

Worth(stake, credits) == stake.stake * (credits - stake.credits_observed)

Due(state, v) == IF Earns(state, v) THEN Worth(state.stake, Credits(v)) ELSE 0

\* No account has observed more credits than its validator has earned.
Observed(state) ==
    state.kind = "Stake" =>
        state.stake.credits_observed <= Credits(state.stake.voter_pubkey)

CreditsKept == \A a \in Accounts : Observed(data[a])

Earning(accounts, v) == {a \in Accounts : Earns(accounts[a], v)}
Worths(accounts, s, v) == [a \in s |-> Worth(accounts[a].stake, Credits(v))]

PointsAsTotal ==
    \A v : PointsOf(v) = LET s == Earning(data, v)
                         IN  Total(Worths(data, s, v), s)

LEMMA PointsIsTotal == PointsAsTotal
<1>. SUFFICES ASSUME NEW v
              PROVE  PointsOf(v) = LET s == Earning(data, v)
                                   IN  Total(Worths(data, s, v), s)
  BY DEF PointsAsTotal
<1>. DEFINE s == Earning(data, v)
<1>1. {a \in DelegatedTo(v) : Status(a).effective > 0} = s
  BY DEF DelegatedTo, StakeAccounts, IsStake, Earning, Earns, Status
<1>2. PointsOf(v) = MapThenSumSet(LAMBDA a : data[a].stake.stake
                                     * (Credits(v) - data[a].stake.credits_observed), s)
  BY <1>1 DEF PointsOf
<1>. QED
  BY <1>2, TotalIsFold DEF Worths, Worth

\* What is due is a number.
LEMMA DueOK ==
  ASSUME Inv, NEW v \in Voters, NEW state \in AccountData, Observed(state)
  PROVE  /\ Due(state, v) \in Nat
         /\ Earns(state, v) => Worth(state.stake, Credits(v)) \in Nat
         /\ state.kind = "Stake" /\ state.stake.voter_pubkey = v =>
               Due(state, v) <= Worth(state.stake, Credits(v))
<1>1. state.kind = "Stake" =>
         state.stake.stake \in Nat /\ state.stake.credits_observed \in Nat
  <2>1. state.kind = "Stake" => state.stake \in Stake
    BY StakeData
  <2>. QED
    BY <2>1, NumbersOK DEF Stake, Lamports, U64
<1>2. Credits(v) \in Nat
  BY CreditsOK, NumbersOK DEF U64
<1>3. state.kind = "Stake" /\ state.stake.voter_pubkey = v =>
         Worth(state.stake, Credits(v)) \in Nat
  BY <1>1, <1>2, ProductPositive DEF Worth, Observed
<1>. QED
  BY <1>3 DEF Due, Earns

\* What is due to holder h.
DueAt(accounts, h, v) == IF h \in Accounts THEN Due(accounts[h], v) ELSE 0

(***************************************************************************)
(* An instruction that writes one account or two, and does not raise what  *)
(* is due for them together, does not raise what is due for all.           *)
(***************************************************************************)
LEMMA PointsFall ==
  ASSUME Inv, Inv', CreditsKept, CreditsKept', UNCHANGED sysvars, NEW v \in Voters,
         NEW x \in Accounts, NEW y \in Holders, x # y,
         \A c \in Accounts \ {x, y} : data'[c] = data[c],
         DueAt(data', x, v) + DueAt(data', y, v) <= DueAt(data, x, v) + DueAt(data, y, v)
  PROVE  PointsOf(v)' <= PointsOf(v)
<1>. DEFINE s == Earning(data, v)
            r == Earning(data', v)
            f == Worths(data, s, v)
            g == Worths(data', r, v)
<1>1. PointsOf(v) = Total(f, s)
  BY PointsIsTotal DEF PointsAsTotal
<1>2. PointsOf(v)' = Total(g, r)
  <2>1. PointsAsTotal'
    BY PointsIsTotal, PTL
  <2>2. PointsOf(v)' = Total(Worths(data, s, v)', s')
    BY <2>1 DEF PointsAsTotal
  <2>3. s' = r /\ Worths(data, s, v)' = Worths(data', s', v)
    BY DEF Earning, Earns, Worths, Worth, Credits, sysvars
  <2>. QED
    BY <2>2, <2>3
<1>3. data \in [Accounts -> AccountData] /\ data' \in [Accounts -> AccountData]
  BY DEF Inv, AccountsOK
<1>4. \A a \in Accounts : Observed(data[a]) /\ Observed(data'[a])
  <2>1. \A a \in Accounts : Observed(data[a])'
    BY DEF CreditsKept
  <2>2. \A a \in Accounts : Observed(data'[a])
    BY <2>1 DEF Observed, Credits, sysvars
  <2>. QED
    BY <2>2 DEF CreditsKept
<1>5. IsFiniteSet(Holders) /\ s \in SUBSET Holders /\ r \in SUBSET Holders
  BY ProgramConstants, FS_AddElement DEF Holders, Earning
<1>6. (\A a \in s : f[a] \in Int) /\ (\A a \in r : g[a] \in Int)
  <2>1. \A a \in s : Worth(data[a].stake, Credits(v)) \in Nat
    BY <1>3, <1>4, DueOK DEF Earning
  <2>2. \A a \in r : Worth(data'[a].stake, Credits(v)) \in Nat
    BY <1>3, <1>4, DueOK DEF Earning
  <2>. QED
    BY <2>1, <2>2 DEF Worths
<1>7. \A h : /\ Part(f, s, h) = DueAt(data, h, v)
             /\ Part(g, r, h) = DueAt(data', h, v)
  BY DEF Part, DueAt, Due, Worths, Earning
<1>8. \A a \in Holders \ {x, y} : /\ a \in s <=> a \in r
                                  /\ a \in s => f[a] = g[a]
  BY DEF Earning, Worths
<1>. HIDE DEF s, r, f, g
<1>9. Total(g, r) - Total(f, s)
        = (Part(g, r, x) + Part(g, r, y)) - (Part(f, s, x) + Part(f, s, y))
  BY <1>5, <1>6, <1>8, TotalChanged
<1>10. Total(f, s) \in Int /\ Total(g, r) \in Int
  BY <1>5, <1>6, FS_Subset, TotalTyped
<1>11. \A h : DueAt(data, h, v) \in Nat /\ DueAt(data', h, v) \in Nat
  BY <1>3, <1>4, DueOK DEF DueAt
<1>. QED
  BY <1>1, <1>2, <1>7, <1>9, <1>10, <1>11

\* An average rounded up is not below the weighted average.
LEMMA AverageNotBelow ==
  ASSUME NEW c1 \in Nat, NEW c2 \in Nat, NEW s1 \in Nat, NEW s2 \in Nat, s1 + s2 # 0
  PROVE  c1 * s1 + c2 * s2
           <= (s1 + s2) * ((c1 * s1 + c2 * s2 + (s1 + s2) - 1) \div (s1 + s2))
<1>1. ASSUME NEW x \in Nat, NEW t \in Nat, t # 0
      PROVE  x <= t * ((x + t - 1) \div t)
  <2>. DEFINE q == (x + t - 1) \div t
  <2>1. q \in Nat /\ x + t - 1 < t * q + t
    BY <1>1
  <2>2. t * q \in Nat
    BY <2>1, ProductPositive
  <2>. HIDE DEF q
  <2>3. x <= t * q
    BY <2>1, <2>2
  <2>. QED
    BY <2>3 DEF q
<1>2. c1 * s1 + c2 * s2 \in Nat /\ s1 + s2 \in Nat
  BY ProductPositive
<1>. QED
  BY <1>1, <1>2

(***************************************************************************)
(* Joined stake has observed no more credits than were earned, and is due  *)
(* no more than its two parts: StakeWeightedCreditsObserved rounds up.     *)
(***************************************************************************)
LEMMA AbsorbPaysNoMore ==
  ASSUME NEW stake \in Stake, stake.stake # 0, NEW absorbed \in Nat,
         NEW top \in Nat, NEW credits \in 0..top, stake.credits_observed <= top
  PROVE  LET joined == Absorb(stake, absorbed, credits)
         IN  /\ joined.credits_observed \in 0..top
             /\ Worth(joined, top) <= Worth(stake, top) + absorbed * (top - credits)
<1>. DEFINE average == StakeWeightedCreditsObserved(stake, absorbed, credits)
            amount == stake.stake
            seen == stake.credits_observed
            total == amount + absorbed
<1>1. amount \in Nat /\ amount # 0 /\ seen \in 0..top /\ total # 0
  BY NumbersOK DEF Stake, Lamports, U64
<1>2. average \in 0..top /\ seen * amount + credits * absorbed <= total * average
  <2>1. CASE seen = credits
    <3>1. average = credits
      BY <2>1 DEF StakeWeightedCreditsObserved
    <3>. HIDE DEF average, amount, seen
    <3>. QED
      BY <1>1, <2>1, <3>1
  <2>2. CASE seen # credits
    <3>1. average = (seen * amount + credits * absorbed + total - 1) \div total
      BY <2>2 DEF StakeWeightedCreditsObserved
    <3>. HIDE DEF average, amount, seen
    <3>2. average \in 0..top
      BY <1>1, <3>1, WeightedAverage
    <3>3. seen * amount + credits * absorbed <= total * average
      <4>1. /\ seen \in Nat /\ credits \in Nat /\ amount \in Nat
            /\ amount + absorbed # 0
        BY <1>1
      <4>2. seen * amount + credits * absorbed
              <= (amount + absorbed)
                   * ((seen * amount + credits * absorbed + (amount + absorbed) - 1)
                        \div (amount + absorbed))
        BY ONLY <4>1, absorbed \in Nat, AverageNotBelow
      <4>. QED
        BY <3>1, <4>2
    <3>. QED
      BY <3>2, <3>3
  <2>. QED
    BY <2>1, <2>2
<1>3. Absorb(stake, absorbed, credits)
        = [stake EXCEPT !.stake = total, !.credits_observed = average]
  BY DEF Absorb
<1>. HIDE DEF average
<1>4. /\ Absorb(stake, absorbed, credits).credits_observed = average
      /\ Absorb(stake, absorbed, credits).stake = total
  BY <1>3 DEF Stake
<1>5. Worth(Absorb(stake, absorbed, credits), top) = total * (top - average)
  BY <1>4 DEF Worth
<1>6. Worth(stake, top) = amount * (top - seen)
  BY DEF Worth
<1>7. total * (top - average) <= amount * (top - seen) + absorbed * (top - credits)
  <2>. HIDE DEF amount, seen
  <2>1. /\ total * (top - average) = total * top - total * average
        /\ total * top = amount * top + absorbed * top
        /\ amount * (top - seen) = amount * top - seen * amount
        /\ absorbed * (top - credits) = absorbed * top - credits * absorbed
    BY <1>1, <1>2
  <2>2. /\ amount * top \in Nat /\ absorbed * top \in Nat /\ seen * amount \in Nat
        /\ credits * absorbed \in Nat /\ total * average \in Nat
    BY <1>1, <1>2, ProductPositive
  <2>. QED
    BY <1>2, <2>1, <2>2
<1>. QED
  BY <1>2, <1>4, <1>5, <1>6, <1>7

-----------------------------------------------------------------------------
(* What is due for what an instruction writes.                             *)

NoDearer(a, state) ==
    /\ Observed(state)
    /\ \A v \in Voters : Due(state, v) <= Due(data[a], v)

NoDearerPair(a, state, b, other) ==
    /\ Observed(state) /\ Observed(other)
    /\ \A v \in Voters :
          Due(state, v) + Due(other, v) <= Due(data[a], v) + Due(data[b], v)

\* An instruction keeps credits in range, and raises no rewards.
Settled == CreditsKept' /\ \A v \in Voters : PointsOf(v)' <= PointsOf(v)

LEMMA WriteSettles ==
  ASSUME Inv, Inv', CreditsKept, NEW a \in Accounts, NEW state, NoDearer(a, state),
         SetState(a, state), UNCHANGED sysvars
  PROVE  Settled
<1>1. \A c \in Accounts : data'[c] = IF c = a THEN state ELSE data[c]
  BY DEF Inv, AccountsOK, SetState
<1>2. CreditsKept'
  <2>1. \A c \in Accounts : Observed(data'[c])
    BY <1>1 DEF CreditsKept, NoDearer
  <2>. QED
    BY <2>1 DEF CreditsKept, Observed, Credits, sysvars
<1>3. ASSUME NEW v \in Voters PROVE PointsOf(v)' <= PointsOf(v)
  <2>1. /\ DueAt(data', a, v) = Due(state, v) /\ DueAt(data, a, v) = Due(data[a], v)
        /\ DueAt(data', Wallet, v) = 0 /\ DueAt(data, Wallet, v) = 0
        /\ Due(state, v) <= Due(data[a], v)
        /\ Wallet \in Holders /\ Wallet # a
    BY <1>1, ProgramConstants DEF DueAt, NoDearer, Holders
  <2>2. Due(data[a], v) \in Nat /\ Due(data'[a], v) \in Nat
    <3>1. data[a] \in AccountData /\ data'[a] \in AccountData
      BY DEF Inv, AccountsOK
    <3>2. Observed(data[a]) /\ Observed(data'[a])
      BY <1>1 DEF CreditsKept, NoDearer
    <3>. QED
      BY <3>1, <3>2, DueOK
  <2>3. DueAt(data', a, v) + DueAt(data', Wallet, v)
          <= DueAt(data, a, v) + DueAt(data, Wallet, v)
    BY <1>1, <2>1, <2>2
  <2>. QED
    BY <1>1, <1>2, <2>1, <2>3, PointsFall
<1>. QED
  BY <1>2, <1>3 DEF Settled

LEMMA WritesSettle ==
  ASSUME Inv, Inv', CreditsKept, NEW a \in Accounts, NEW state,
         NEW b \in Accounts, NEW other, a # b, NoDearerPair(a, state, b, other),
         SetStates(a, state, b, other), UNCHANGED sysvars
  PROVE  Settled
<1>1. \A c \in Accounts : data'[c] = IF c = b THEN other
                                     ELSE IF c = a THEN state ELSE data[c]
  BY DEF Inv, AccountsOK, SetStates
<1>2. CreditsKept'
  <2>1. \A c \in Accounts : Observed(data'[c])
    BY <1>1 DEF CreditsKept, NoDearerPair
  <2>. QED
    BY <2>1 DEF CreditsKept, Observed, Credits, sysvars
<1>3. ASSUME NEW v \in Voters PROVE PointsOf(v)' <= PointsOf(v)
  <2>1. DueAt(data', a, v) + DueAt(data', b, v) <= DueAt(data, a, v) + DueAt(data, b, v)
    BY <1>1 DEF DueAt, NoDearerPair
  <2>2. b \in Holders /\ \A c \in Accounts \ {a, b} : data'[c] = data[c]
    BY <1>1 DEF Holders
  <2>. QED
    BY <1>2, <2>1, <2>2, PointsFall
<1>. QED
  BY <1>2, <1>3 DEF Settled

\* Nothing is due for data without a delegation.
LEMMA NothingDue ==
  ASSUME NEW state, state.kind # "Stake"
  PROVE  Observed(state) /\ \A v : Due(state, v) = 0
BY DEF Observed, Due, Earns

\* The same is due for the same delegation.
LEMMA SameDue ==
  ASSUME NEW state, NEW other, state.kind = other.kind,
         state.kind = "Stake" => state.stake = other.stake
  PROVE  /\ Observed(state) <=> Observed(other)
         /\ \A v : Due(state, v) = Due(other, v)
BY DEF Observed, Due, Earns

LEMMA AccountDue ==
  ASSUME Inv, CreditsKept, NEW a \in Accounts, NEW v \in Voters
  PROVE  Observed(data[a]) /\ Due(data[a], v) \in Nat /\ NoDearer(a, data[a])
<1>1. Observed(data[a]) /\ data[a] \in AccountData
  BY DEF CreditsKept, Inv, AccountsOK
<1>2. \A u \in Voters : Due(data[a], u) \in Nat
  BY <1>1, DueOK
<1>. QED
  BY <1>1, <1>2 DEF NoDearer

\* What is due for each lamport of account a's delegation.
Rate(a, v) ==
    IF Earns(data[a], v) THEN Credits(v) - data[a].stake.credits_observed ELSE 0

LEMMA RateOK ==
  ASSUME Inv, CreditsKept, NEW a \in Accounts, NEW v \in Voters, IsStake(a)
  PROVE  /\ Rate(a, v) \in Nat /\ data[a].stake.stake \in Nat
         /\ Due(data[a], v) = data[a].stake.stake * Rate(a, v)
<1>1. data[a].stake \in Stake /\ data[a].stake.stake \in Nat
      /\ data[a].stake.credits_observed \in Nat
  BY DelegationOK, NumbersOK DEF Stake, Lamports, U64
<1>2. Credits(v) \in Nat
  BY CreditsOK, NumbersOK DEF U64
<1>3. Earns(data[a], v) => data[a].stake.credits_observed <= Credits(v)
  BY DEF CreditsKept, Observed, Earns
<1>. QED
  BY <1>1, <1>2, <1>3 DEF Rate, Due, Worth

\* Another amount of the same stake: each lamport is due what it was, if any.
\* Of stake that is not effective, none becomes so unless it has cooled down.
LEMMA ShareDue ==
  ASSUME Inv, CreditsKept, NEW a \in Accounts, IsStake(a),
         Status(a).effective = 0 => data[a].stake.deactivation_epoch = Never,
         NEW state, state.kind = "Stake", state.stake \in Stake,
         state.stake.voter_pubkey = data[a].stake.voter_pubkey,
         state.stake.credits_observed = data[a].stake.credits_observed,
         state.stake.activation_epoch = data[a].stake.activation_epoch,
         state.stake.deactivation_epoch = data[a].stake.deactivation_epoch
  PROVE  /\ Observed(state)
         /\ \A v \in Voters : /\ Due(state, v) \in Nat
                              /\ Due(state, v) <= state.stake.stake * Rate(a, v)
<1>. DEFINE d == data[a].stake
            e == state.stake
            effective(x) == StakeActivatingAndDeactivating(x, history, clock.epoch).effective
<1>1. Observed(state)
  BY DEF CreditsKept, Observed, IsStake
<1>2. /\ d \in Stake /\ IsDelegation(d) /\ IsHistory(history)
      /\ clock.epoch \in Nat /\ clock.epoch < Never
      /\ d.activation_epoch <= clock.epoch
  BY DelegationOK
<1>3. d.stake # 0 /\ effective(d) \in Nat
  BY StatusOK DEF Status
<1>4. IsDelegation(e) /\ e.stake \in Nat
  BY NumbersOK DEF Stake, IsDelegation, Lamports, U64
<1>5. effective(d) = 0 => effective(e) = 0
  <2>1. clock.epoch <= Never
    BY <1>2, NumbersOK DEF Never
  <2>. SUFFICES ASSUME effective(d) = 0 PROVE effective(e) = 0
    OBVIOUS
  <2>2. d.deactivation_epoch = Never
    BY DEF Status
  <2>. HIDE DEF d, e
  <2>. QED
    BY <1>2, <1>3, <1>4, <2>1, <2>2, NotYetEffective DEF d, e
<1>. HIDE DEF effective
<1>6. ASSUME NEW v \in Voters
      PROVE  /\ Due(state, v) \in Nat
             /\ Due(state, v) <= state.stake.stake * Rate(a, v)
  <2>1. Rate(a, v) \in Nat /\ e.stake * Rate(a, v) \in Nat
    BY <1>4, RateOK, ProductPositive
  <2>2. CASE Earns(state, v)
    <3>1. Earns(data[a], v)
      BY <1>3, <1>5, <2>2 DEF Earns, IsStake, effective
    <3>2. Due(state, v) = e.stake * Rate(a, v)
      BY <2>2, <3>1 DEF Due, Rate, Worth
    <3>. QED
      BY <2>1, <3>2
  <2>3. CASE ~Earns(state, v)
    BY <2>1, <2>3 DEF Due
  <2>. QED
    BY <2>2, <2>3
<1>. QED
  BY <1>1, <1>6

\* Stake joined with some of another account's: what was due for both.
LEMMA JoinedDue ==
  ASSUME Inv, CreditsKept, NEW from \in Accounts, NEW to \in Accounts,
         IsStake(from), IsStake(to), Status(from).effective # 0, Status(to).effective # 0,
         data[from].stake.voter_pubkey = data[to].stake.voter_pubkey,
         NEW amount \in Nat, NEW state, state.kind = "Stake",
         state.stake = Absorb(data[to].stake, amount, data[from].stake.credits_observed),
         state \in AccountData
  PROVE  /\ Observed(state)
         /\ \A v \in Voters : /\ Due(state, v) \in Nat
                              /\ Due(state, v) <= Due(data[to], v) + amount * Rate(from, v)
<1>. DEFINE d == data[to].stake
            seen == data[from].stake.credits_observed
            joined == Absorb(d, amount, seen)
            u == d.voter_pubkey
            top == Credits(u)
<1>1. /\ d \in Stake /\ d.stake # 0 /\ u \in Voters
      /\ top \in Nat /\ seen \in 0..top /\ d.credits_observed <= top
  <2>1. d \in Stake /\ data[from].stake \in Stake
    BY DelegationOK
  <2>2. d.stake # 0
    BY StatusOK
  <2>3. u \in Voters /\ seen \in Nat
    BY <2>1, NumbersOK DEF Stake, U64
  <2>4. top \in Nat
    BY <2>3, CreditsOK, NumbersOK DEF U64
  <2>5. seen <= top /\ d.credits_observed <= top
    BY DEF CreditsKept, Observed, IsStake
  <2>. QED
    BY <2>1, <2>2, <2>3, <2>4, <2>5
<1>2. joined.voter_pubkey = u
  BY <1>1 DEF Absorb, Stake
<1>3. /\ joined.credits_observed \in 0..top
      /\ Worth(joined, top) <= Worth(d, top) + amount * (top - seen)
  <2>. HIDE DEF d, seen, top
  <2>. QED
    BY <1>1, AbsorbPaysNoMore
<1>. HIDE DEF joined
<1>4. Observed(state)
  BY <1>2, <1>3 DEF Observed, joined
<1>5. ASSUME NEW v \in Voters
      PROVE  /\ Due(state, v) \in Nat
             /\ Due(state, v) <= Due(data[to], v) + amount * Rate(from, v)
  <2>1. /\ Due(state, v) \in Nat
        /\ v = u => Due(state, v) <= Worth(joined, top)
    BY <1>2, <1>4, DueOK DEF joined
  <2>2. Due(data[to], v) \in Nat /\ Rate(from, v) \in Nat /\ amount * Rate(from, v) \in Nat
    BY AccountDue, RateOK, ProductPositive
  <2>3. CASE v = u
    <3>1. Earns(data[to], v) /\ Earns(data[from], v)
      <4>1. Status(to).effective \in Nat /\ Status(from).effective \in Nat
        BY StatusOK
      <4>. QED
        BY <2>3, <4>1 DEF Earns, IsStake, Status
    <3>2. Due(data[to], v) = Worth(d, top) /\ Rate(from, v) = top - seen
      BY <2>3, <3>1 DEF Due, Rate
    <3>3. /\ Due(state, v) <= Worth(joined, top)
          /\ Worth(joined, top) <= Due(data[to], v) + amount * Rate(from, v)
      BY <1>3, <2>1, <2>3, <3>2
    <3>4. Worth(joined, top) \in Int
      <4>1. joined.stake \in Int /\ joined.credits_observed \in Int
        BY <1>1, <1>3 DEF joined, Absorb, Stake, Lamports, U64
      <4>. QED
        BY <1>1, <4>1 DEF Worth
    <3>. QED
      BY <2>1, <2>2, <3>3, <3>4
  <2>4. CASE v # u
    <3>1. Due(state, v) = 0
      BY <1>2, <2>4 DEF Due, Earns, joined
    <3>. QED
      BY <2>2, <3>1
  <2>. QED
    BY <2>3, <2>4
<1>. QED
  BY <1>4, <1>5

LEMMA MetaWriteSettles ==
  ASSUME Inv, Inv', CreditsKept, NEW a \in Accounts, HasMeta(data[a]), NEW meta,
         SetState(a, [data[a] EXCEPT !.meta = meta]), UNCHANGED sysvars
  PROVE  Settled
<1>. DEFINE state == [data[a] EXCEPT !.meta = meta]
<1>1. state.kind = data[a].kind /\ (state.kind = "Stake" => state.stake = data[a].stake)
  <2>1. data[a] \in AccountData
    BY AccountOK
  <2>2. CASE data[a].kind = "Stake"
    BY <2>1, <2>2, StakeData
  <2>3. CASE data[a].kind = "Initialized"
    BY <2>1, <2>3 DEF AccountData, StakeStateV2, Uninitialized, NoAccount, Closed
  <2>. QED
    BY <2>2, <2>3 DEF HasMeta
<1>. HIDE DEF state
<1>2. /\ Observed(state) <=> Observed(data[a])
      /\ \A v : Due(state, v) = Due(data[a], v)
  BY <1>1, SameDue
<1>3. NoDearer(a, state)
  <2>1. Observed(data[a]) /\ \A v \in Voters : Due(data[a], v) \in Nat
    BY AccountDue DEF CreditsKept
  <2>. QED
    BY <1>2, <2>1 DEF NoDearer
<1>. QED
  BY <1>3, WriteSettles DEF state

\* What no longer is a delegation.
LEMMA ClosingSettles ==
  ASSUME Inv, Inv', CreditsKept, NEW a \in Accounts, NEW state,
         state.kind # "Stake", SetState(a, state), UNCHANGED sysvars
  PROVE  Settled
<1>1. NoDearer(a, state)
  BY NothingDue, AccountDue DEF NoDearer
<1>. QED
  BY <1>1, WriteSettles

\* Delegated stake is due nothing until the epoch ends; a rescission keeps the
\* credits observed.
LEMMA DelegateSettles ==
  ASSUME Inv, Inv', CreditsKept, NEW S, NEW a \in Accounts, NEW u \in Voters,
         Delegate(S, a, u)
  PROVE  Settled
<1>. DEFINE stake == data[a].stake
            fresh == NewStake(SatSub(lamports[a], rent), u, Credits(u), clock.epoch)
            started == Staked(data[a].meta, fresh)
            rescinded == [data[a] EXCEPT !.stake.deactivation_epoch = Never]
<1>1. /\ \/ SetState(a, started)
         \/ /\ IsStake(a) /\ Status(a).effective # 0
            /\ SetState(a, rescinded)
      /\ UNCHANGED sysvars
  BY DEF Delegate
<1>2. CASE SetState(a, started)
  <2>1. data'[a] = started
    BY <1>2 DEF SetState, Inv, AccountsOK
  <2>2. fresh \in Stake
    <3>1. data'[a] \in AccountData
      BY DEF Inv, AccountsOK
    <3>2. data'[a].kind = "Stake" /\ data'[a].stake = fresh
      BY <2>1 DEF Staked
    <3>. QED
      BY <3>1, <3>2, StakeData
  <2>3. StakeActivatingAndDeactivating(fresh, history, clock.epoch).effective = 0
    <3>1. /\ IsHistory(history) /\ clock.epoch \in Nat /\ clock.epoch < Never
      <4>1. clock.epoch \in 0..MaxEpoch
        BY DEF Inv, SysvarsOK, Clock
      <4>2. IsHistory(history)
        BY DEF Inv, SysvarsOK, IsHistory
      <4>3. Never \in Nat
        BY NumbersOK DEF Never
      <4>. QED
        BY <4>1, <4>2, <4>3, NumbersOK
    <3>2. /\ IsDelegation(fresh)
          /\ fresh.activation_epoch = clock.epoch /\ fresh.deactivation_epoch = Never
      <4>1. fresh.activation_epoch = clock.epoch /\ fresh.deactivation_epoch = Never
        BY DEF NewStake
      <4>2. fresh.stake \in U64
        BY <2>2 DEF Stake, Lamports
      <4>. HIDE DEF fresh
      <4>. QED
        BY <3>1, <4>1, <4>2, NumbersOK DEF IsDelegation, U64, Never
    <3>. HIDE DEF fresh
    <3>3. StakeActivatingAndDeactivating(fresh, history, clock.epoch).activating = fresh.stake
      BY <3>1, <3>2, FreshActivates
    <3>4. LET s == StakeActivatingAndDeactivating(fresh, history, clock.epoch)
          IN  s.effective \in 0..fresh.stake /\ s.effective + s.activating = fresh.stake
      BY <3>1, <3>2, StatusBounded
    <3>5. fresh.stake \in Nat
      BY <3>2 DEF IsDelegation
    <3>. QED
      BY <3>3, <3>4, <3>5
  <2>4. started.kind = "Stake" /\ started.stake = fresh
    BY DEF Staked
  <2>5. Observed(started)
    <3>1. fresh.credits_observed = Credits(u) /\ fresh.voter_pubkey = u
      BY DEF NewStake
    <3>2. Credits(u) \in Nat
      BY CreditsOK, NumbersOK DEF U64
    <3>. QED
      BY <2>4, <3>1, <3>2 DEF Observed
  <2>. HIDE DEF fresh, started
  <2>6. \A v : Due(started, v) = 0
    BY <2>3, <2>4 DEF Due, Earns
  <2>7. NoDearer(a, started)
    BY <2>5, <2>6, AccountDue DEF NoDearer
  <2>. QED
    BY <1>1, <1>2, <2>7, WriteSettles
<1>3. CASE IsStake(a) /\ Status(a).effective # 0 /\ SetState(a, rescinded)
  <2>1. /\ stake \in Stake /\ data[a] \in AccountData
        /\ data[a] = [kind |-> "Stake", meta |-> data[a].meta, stake |-> stake]
    BY <1>3, AccountOK, StakeData DEF IsStake
  <2>2. /\ rescinded.kind = "Stake"
        /\ rescinded.stake.voter_pubkey = stake.voter_pubkey
        /\ rescinded.stake.stake = stake.stake
        /\ rescinded.stake.credits_observed = stake.credits_observed
    BY <2>1 DEF Stake
  <2>. HIDE DEF rescinded
  <2>3. Observed(rescinded)
    BY <1>3, <2>2 DEF CreditsKept, Observed, IsStake
  <2>4. ASSUME NEW v \in Voters PROVE Due(rescinded, v) <= Due(data[a], v)
    <3>1. Earns(rescinded, v) => Earns(data[a], v)
      BY <1>3, <2>2, StatusOK DEF Earns, IsStake, Status
    <3>2. Due(data[a], v) \in Nat
      BY AccountDue
    <3>3. Worth(rescinded.stake, Credits(v)) = Worth(stake, Credits(v))
      BY <2>2 DEF Worth
    <3>. QED
      BY <3>1, <3>2, <3>3 DEF Due
  <2>. QED
    BY <1>1, <1>3, <2>3, <2>4, WriteSettles DEF NoDearer
<1>. HIDE DEF started, rescinded
<1>. QED
  BY <1>1, <1>2, <1>3

LEMMA DeactivateSettles ==
  ASSUME Inv, Inv', CreditsKept, NEW a \in Accounts, IsStake(a), DoDeactivate(a)
  PROVE  Settled
<1>. DEFINE d == data[a].stake
            state == [data[a] EXCEPT !.stake.deactivation_epoch = clock.epoch]
            e == state.stake
            effective(x) == StakeActivatingAndDeactivating(x, history, clock.epoch).effective
<1>1. d.deactivation_epoch = Never /\ SetState(a, state) /\ UNCHANGED sysvars
  BY DEF DoDeactivate
<1>2. /\ d \in Stake /\ data[a] \in AccountData
      /\ data[a] = [kind |-> "Stake", meta |-> data[a].meta, stake |-> d]
  BY AccountOK, StakeData DEF IsStake
<1>3. /\ state.kind = "Stake"
      /\ e = [d EXCEPT !.deactivation_epoch = clock.epoch]
  BY <1>2
<1>4. /\ IsDelegation(d) /\ IsHistory(history)
      /\ clock.epoch \in Nat /\ clock.epoch < Never
      /\ d.activation_epoch <= clock.epoch /\ d.stake # 0
  BY DelegationOK, StatusOK
<1>. HIDE DEF state
<1>5. /\ e.voter_pubkey = d.voter_pubkey /\ e.stake = d.stake
      /\ e.credits_observed = d.credits_observed
      /\ e.activation_epoch = d.activation_epoch
      /\ e.deactivation_epoch = clock.epoch
  BY <1>2, <1>3 DEF Stake
<1>6. effective(d) = 0 => effective(e) = 0
  <2>1. IsDelegation(e) /\ clock.epoch <= Never
    BY <1>4, <1>5, NumbersOK DEF IsDelegation, Never
  <2>. SUFFICES ASSUME effective(d) = 0 PROVE effective(e) = 0
    OBVIOUS
  <2>. HIDE DEF d, e
  <2>. QED
    BY <1>1, <1>4, <1>5, <2>1, NotYetEffective DEF d
<1>7. Observed(state)
  BY <1>3, <1>5 DEF CreditsKept, Observed, IsStake
<1>8. ASSUME NEW v \in Voters PROVE Due(state, v) <= Due(data[a], v)
  <2>1. effective(d) \in Nat /\ Due(data[a], v) \in Nat
    BY StatusOK, AccountDue DEF Status
  <2>. HIDE DEF effective
  <2>2. Earns(state, v) => Earns(data[a], v)
    BY <1>3, <1>5, <1>6, <2>1 DEF Earns, IsStake, effective
  <2>3. Worth(e, Credits(v)) = Worth(d, Credits(v))
    BY <1>5 DEF Worth
  <2>. QED
    BY <2>1, <2>2, <2>3 DEF Due
<1>. QED
  BY <1>1, <1>7, <1>8, WriteSettles DEF NoDearer

\* A lamport delegated with n others is due what each of them is.
LEMMA SharesDue ==
  ASSUME NEW whole \in Nat, NEW part \in Nat, part <= whole, NEW rate \in Nat
  PROVE  /\ (whole - part) * rate \in Nat /\ part * rate \in Nat
         /\ (whole - part) * rate + part * rate = whole * rate
<1>1. (whole - part) * rate \in Nat /\ part * rate \in Nat
  BY ProductPositive
<1>2. (whole - part) * rate = whole * rate - part * rate
  OBVIOUS
<1>. QED
  BY <1>1, <1>2

\* The delegation of an account with another amount in it.
LEMMA OtherAmount ==
  ASSUME Inv, NEW a \in Accounts, IsStake(a), NEW amount \in U64
  PROVE  LET d == data[a].stake
             e == [d EXCEPT !.stake = amount]
         IN  /\ [data[a] EXCEPT !.stake.stake = amount] = Staked(data[a].meta, e)
             /\ e \in Stake /\ e.stake = amount
             /\ e.voter_pubkey = d.voter_pubkey
             /\ e.credits_observed = d.credits_observed
             /\ e.activation_epoch = d.activation_epoch
             /\ e.deactivation_epoch = d.deactivation_epoch
<1>. DEFINE d == data[a].stake
            e == [d EXCEPT !.stake = amount]
<1>1. /\ d \in Stake
      /\ data[a] = [kind |-> "Stake", meta |-> data[a].meta, stake |-> d]
  BY AccountOK, StakeData DEF IsStake
<1>2. /\ e \in Stake /\ e.stake = amount
      /\ e.voter_pubkey = d.voter_pubkey
      /\ e.credits_observed = d.credits_observed
      /\ e.activation_epoch = d.activation_epoch
      /\ e.deactivation_epoch = d.deactivation_epoch
  BY <1>1 DEF Stake, Lamports
<1>3. [data[a] EXCEPT !.stake.stake = amount] = [data[a] EXCEPT !.stake = e]
  OBVIOUS
<1>. HIDE DEF e
<1>4. [data[a] EXCEPT !.stake.stake = amount] = Staked(data[a].meta, e)
  BY <1>1, <1>3 DEF Staked
<1>. QED
  BY <1>2, <1>4 DEF e

\* So is what is due for it, on its own or on another Meta.
LEMMA AmountDue ==
  ASSUME Inv, CreditsKept, NEW a \in Accounts, IsStake(a), NEW amount \in U64,
         Status(a).effective = 0 => data[a].stake.deactivation_epoch = Never
  PROVE  /\ LET state == [data[a] EXCEPT !.stake.stake = amount]
            IN  /\ Observed(state)
                /\ \A v \in Voters : /\ Due(state, v) \in Nat
                                     /\ Due(state, v) <= amount * Rate(a, v)
         /\ \A meta :
               LET state == Staked(meta, [data[a].stake EXCEPT !.stake = amount])
               IN  /\ Observed(state)
                   /\ \A v \in Voters : /\ Due(state, v) \in Nat
                                        /\ Due(state, v) <= amount * Rate(a, v)
<1>. DEFINE d == data[a].stake
            e == [d EXCEPT !.stake = amount]
            due(state) == /\ Observed(state)
                          /\ \A v \in Voters : /\ Due(state, v) \in Nat
                                               /\ Due(state, v) <= amount * Rate(a, v)
<1>1. /\ [data[a] EXCEPT !.stake.stake = amount] = Staked(data[a].meta, e)
      /\ e \in Stake /\ e.stake = amount
      /\ e.voter_pubkey = d.voter_pubkey
      /\ e.credits_observed = d.credits_observed
      /\ e.activation_epoch = d.activation_epoch
      /\ e.deactivation_epoch = d.deactivation_epoch
  BY OtherAmount
<1>2. ASSUME NEW meta PROVE due(Staked(meta, e))
  <2>. DEFINE state == Staked(meta, e)
  <2>1. state.kind = "Stake" /\ state.stake = e
    BY DEF Staked
  <2>. HIDE DEF state, e
  <2>2. /\ Observed(state)
        /\ \A v \in Voters : /\ Due(state, v) \in Nat
                             /\ Due(state, v) <= state.stake.stake * Rate(a, v)
    BY <1>1, <2>1, ShareDue
  <2>3. due(state)
    BY <1>1, <2>1, <2>2
  <2>. QED
    BY <2>3 DEF state
<1>3. due([data[a] EXCEPT !.stake.stake = amount])
  <2>1. due(Staked(data[a].meta, e))
    BY <1>2
  <2>. HIDE DEF e, due
  <2>. QED
    BY <1>1, <2>1
<1>. QED
  BY <1>2, <1>3

LEMMA SplitFullSettles ==
  ASSUME Inv, Inv', CreditsKept, NEW S, NEW from \in Accounts, NEW to \in Accounts,
         NEW n \in Nat, SplitFull(S, from, to, n)
  PROVE  Settled
<1>1. /\ from # to /\ data[to] = Uninitialized
      /\ SetStates(to, data[from], from, Closed)
      /\ UNCHANGED sysvars
  BY DEF SplitFull, SplitChecks
<1>2. Observed(Closed) /\ \A v : Due(Closed, v) = 0
  BY NothingDue DEF Closed
<1>3. \A v : Due(Uninitialized, v) = 0
  BY NothingDue DEF Uninitialized
<1>4. NoDearerPair(to, data[from], from, Closed)
  BY <1>1, <1>2, <1>3, AccountDue DEF NoDearerPair, CreditsKept
<1>. QED
  BY <1>1, <1>4, WritesSettle

LEMMA SplitInactiveSettles ==
  ASSUME Inv, Inv', CreditsKept, NEW S, NEW from \in Accounts, NEW to \in Accounts,
         NEW n \in Nat, SplitInactive(S, from, to, n)
  PROVE  Settled
<1>1. /\ data[to] = Uninitialized /\ ~IsActiveOrActivating(from)
      /\ SetState(to, data[from]) /\ UNCHANGED sysvars
  BY DEF SplitInactive, SplitChecks
<1>2. \A v : Due(data[from], v) = 0
  BY <1>1 DEF IsActiveOrActivating, IsStake, Status, Due, Earns
<1>3. \A v : Due(Uninitialized, v) = 0
  BY NothingDue DEF Uninitialized
<1>4. NoDearer(to, data[from])
  BY <1>1, <1>2, <1>3 DEF NoDearer, CreditsKept
<1>. QED
  BY <1>1, <1>4, WriteSettles

LEMMA SplitActiveSettles ==
  ASSUME Inv, Inv', CreditsKept, NEW S, NEW from \in Accounts, NEW to \in Accounts,
         NEW n \in Nat, SplitActive(S, from, to, n)
  PROVE  Settled
<1>. DEFINE amount == data[from].stake.stake
            source == [data[from] EXCEPT !.stake.stake = amount - n]
            target == [data[from] EXCEPT !.stake.stake = n]
<1>1. /\ from # to /\ data[to] = Uninitialized /\ IsStake(from)
      /\ IsActiveOrActivating(from) /\ amount >= n
      /\ SetStates(from, source, to, target) /\ UNCHANGED sysvars
  BY DEF SplitActive, SplitChecks, IsActiveOrActivating
<1>2. Status(from).effective = 0 => data[from].stake.deactivation_epoch = Never
  BY <1>1, StatusOK DEF IsActiveOrActivating
<1>3. amount \in U64 /\ n \in U64 /\ amount - n \in U64
  <2>1. amount \in U64
    BY <1>1, DelegationOK DEF Stake, Lamports
  <2>. QED
    BY <1>1, <2>1, NumbersOK DEF U64
<1>4. Observed(source) /\ \A v \in Voters : /\ Due(source, v) \in Nat
                                            /\ Due(source, v) <= (amount - n) * Rate(from, v)
  <2>. DEFINE rest == amount - n
  <2>1. rest \in U64
    BY <1>3
  <2>. HIDE DEF rest
  <2>2. LET state == [data[from] EXCEPT !.stake.stake = rest]
        IN  /\ Observed(state)
            /\ \A v \in Voters : /\ Due(state, v) \in Nat
                                 /\ Due(state, v) <= rest * Rate(from, v)
    BY <1>1, <1>2, <2>1, AmountDue
  <2>. QED
    BY <2>2 DEF rest
<1>5. Observed(target) /\ \A v \in Voters : /\ Due(target, v) \in Nat
                                            /\ Due(target, v) <= n * Rate(from, v)
  BY <1>1, <1>2, <1>3, AmountDue
<1>. HIDE DEF source, target
<1>6. ASSUME NEW v \in Voters
      PROVE  Due(source, v) + Due(target, v) <= Due(data[from], v) + Due(data[to], v)
  <2>1. Due(data[to], v) = 0
    BY <1>1, NothingDue DEF Uninitialized
  <2>2. Rate(from, v) \in Nat /\ Due(data[from], v) = amount * Rate(from, v)
        /\ amount \in Nat
    BY <1>1, RateOK
  <2>. HIDE DEF amount
  <2>3. /\ (amount - n) * Rate(from, v) \in Nat /\ n * Rate(from, v) \in Nat
        /\ (amount - n) * Rate(from, v) + n * Rate(from, v) = amount * Rate(from, v)
    BY <1>1, <2>2, SharesDue
  <2>. QED
    BY <1>4, <1>5, <2>1, <2>2, <2>3
<1>7. NoDearerPair(from, source, to, target)
  BY <1>4, <1>5, <1>6 DEF NoDearerPair
<1>. QED
  BY <1>1, <1>7, WritesSettle

\* Which kinds of stake are effective.
LEMMA KindEffective ==
  ASSUME Inv, NEW a \in Accounts, HasMeta(data[a])
  PROVE  /\ Kind(a) = "FullyActive" => IsStake(a) /\ Status(a).effective # 0
         /\ Kind(a) = "ActivationEpoch" => IsStake(a) /\ Status(a).effective = 0
<1>1. Kind(a) # "Inactive" => IsStake(a)
  BY KindOK
<1>2. IsStake(a) =>
        Kind(a) = LET s == Status(a)
                  IN  IF s.effective = 0
                      THEN IF s.activating = 0 /\ s.deactivating = 0
                           THEN "Inactive" ELSE "ActivationEpoch"
                      ELSE IF s.activating = 0 /\ s.deactivating = 0
                           THEN "FullyActive" ELSE "Transient"
  BY DEF Kind, MergeKind, Status, IsStake
<1>. QED
  BY <1>1, <1>2

\* Stake added to what is not effective yet is not effective either.
LEMMA ActivatingDue ==
  ASSUME Inv, NEW a \in Accounts, IsStake(a), Status(a).effective = 0,
         data[a].stake.deactivation_epoch = Never,
         NEW state, state.kind = "Stake", state.stake \in Stake,
         state.stake.activation_epoch = data[a].stake.activation_epoch,
         state.stake.deactivation_epoch = data[a].stake.deactivation_epoch
  PROVE  \A v : Due(state, v) = 0
<1>. DEFINE d == data[a].stake
            e == state.stake
<1>1. /\ IsDelegation(d) /\ IsHistory(history)
      /\ clock.epoch \in Nat /\ clock.epoch < Never
      /\ d.activation_epoch <= clock.epoch /\ d.stake # 0
  BY DelegationOK, StatusOK
<1>2. IsDelegation(e)
  BY NumbersOK DEF Stake, IsDelegation, Lamports, U64
<1>3. clock.epoch <= Never
  BY <1>1, NumbersOK DEF Never
<1>4. StakeActivatingAndDeactivating(d, history, clock.epoch).effective = 0
  BY DEF Status
<1>5. StakeActivatingAndDeactivating(e, history, clock.epoch).effective = 0
  <2>. HIDE DEF d, e
  <2>. QED
    BY <1>1, <1>2, <1>3, <1>4, NotYetEffective DEF d, e
<1>. QED
  BY <1>5 DEF Due, Earns

LEMMA MergeSettles ==
  ASSUME Inv, Inv', CreditsKept, NEW S, NEW from \in Accounts, NEW to \in Accounts,
         Merge(S, to, from)
  PROVE  Settled
<1>. DEFINE dk == Kind(to)
            sk == Kind(from)
            held == lamports[from]
            absorbed == Absorbed(data[from], sk, held)
            seen == data[from].stake.credits_observed
            target == Merged(data[to], dk, data[from], sk, held)
<1>1. /\ from # to /\ HasMeta(data[to]) /\ HasMeta(data[from])
      /\ KindsCanMerge(dk, sk)
      /\ (dk # "Inactive" /\ sk # "Inactive" =>
            ActiveDelegationsCanMerge(data[to].stake, data[from].stake))
      /\ SetStates(to, target, from, Closed) /\ UNCHANGED sysvars
  BY DEF Merge, Mergeable, CanMerge
<1>2. target \in AccountData
  BY <1>1 DEF SetStates, Inv, AccountsOK
<1>3. Observed(Closed) /\ \A v : Due(Closed, v) = 0
  BY NothingDue DEF Closed
<1>4. NoDearerPair(to, target, from, Closed)
  <2>1. CASE dk = "Inactive"
    <3>1. target = data[to]
      BY <2>1 DEF Merged
    <3>. HIDE DEF target
    <3>. QED
      BY <1>3, <3>1, AccountDue DEF NoDearerPair, CreditsKept
  <2>2. CASE dk = "ActivationEpoch" /\ sk = "Inactive"
    <3>1. /\ IsStake(to) /\ Status(to).effective = 0
          /\ data[to].stake.deactivation_epoch = Never
      BY <1>1, <2>2, KindEffective, KindOK
    <3>2. target = [data[to] EXCEPT !.stake.stake = data[to].stake.stake + held]
      BY <2>2 DEF Merged
    <3>3. /\ data[to].stake \in Stake
          /\ data[to] = [kind |-> "Stake", meta |-> data[to].meta,
                         stake |-> data[to].stake]
      BY <3>1, AccountOK, StakeData DEF IsStake
    <3>. HIDE DEF held, target
    <3>4. /\ target.kind = "Stake"
          /\ target.stake = [data[to].stake EXCEPT !.stake = data[to].stake.stake + held]
      BY <3>2, <3>3
    <3>5. /\ target.stake \in Stake
          /\ target.stake.voter_pubkey = data[to].stake.voter_pubkey
          /\ target.stake.credits_observed = data[to].stake.credits_observed
          /\ target.stake.activation_epoch = data[to].stake.activation_epoch
          /\ target.stake.deactivation_epoch = data[to].stake.deactivation_epoch
      BY <1>2, <3>3, <3>4, StakeData DEF Stake
    <3>6. \A v : Due(target, v) = 0
      BY <3>1, <3>4, <3>5, ActivatingDue
    <3>7. Observed(target)
      BY <3>1, <3>4, <3>5 DEF CreditsKept, Observed, IsStake
    <3>. QED
      BY <1>3, <3>6, <3>7, AccountDue DEF NoDearerPair
  <2>3. CASE dk # "Inactive" /\ sk # "Inactive"
    <3>1. /\ IsStake(to) /\ IsStake(from) /\ data[to].kind = "Stake"
          /\ data[to].stake.voter_pubkey = data[from].stake.voter_pubkey
          /\ data[to].stake.deactivation_epoch = Never
      BY <1>1, <2>3, KindOK DEF ActiveDelegationsCanMerge, IsStake
    <3>2. /\ data[to].stake \in Stake
          /\ data[to] = [kind |-> "Stake", meta |-> data[to].meta,
                         stake |-> data[to].stake]
      BY <3>1, AccountOK, StakeData
    <3>3. /\ target.kind = "Stake"
          /\ target.stake = Absorb(data[to].stake, absorbed, seen)
      <4>1. target = [data[to] EXCEPT !.stake = Absorb(data[to].stake, absorbed, seen)]
        BY <2>3 DEF Merged
      <4>. HIDE DEF target, absorbed, seen
      <4>. QED
        BY <3>2, <4>1
    <3>4. absorbed \in Nat
      BY <3>1, AccountOK, StatusOK DEF Absorbed
    <3>5. CASE dk = "FullyActive"
      <4>1. Status(to).effective # 0 /\ Status(from).effective # 0 /\ sk = "FullyActive"
        BY <1>1, <3>5, KindEffective DEF KindsCanMerge
      <4>2. /\ Observed(target)
            /\ \A v \in Voters :
                  /\ Due(target, v) \in Nat
                  /\ Due(target, v) <= Due(data[to], v) + absorbed * Rate(from, v)
        <5>. HIDE DEF target, absorbed
        <5>. QED
          BY <1>2, <3>1, <3>3, <3>4, <4>1, JoinedDue
      <4>3. \A v \in Voters : Due(data[from], v) = absorbed * Rate(from, v)
        BY <3>1, <4>1, RateOK DEF Absorbed
      <4>. HIDE DEF target, absorbed
      <4>. QED
        BY <1>3, <4>2, <4>3 DEF NoDearerPair
    <3>6. CASE dk = "ActivationEpoch"
      <4>1. Status(to).effective = 0
        BY <1>1, <3>6, KindEffective
      <4>2. /\ target.stake \in Stake
            /\ target.stake.voter_pubkey = data[to].stake.voter_pubkey
            /\ target.stake.activation_epoch = data[to].stake.activation_epoch
            /\ target.stake.deactivation_epoch = data[to].stake.deactivation_epoch
        <5>1. target.stake \in Stake
          BY <1>2, <3>3, StakeData
        <5>. HIDE DEF target, absorbed, seen
        <5>. QED
          BY <3>2, <3>3, <5>1 DEF Absorb, Stake
      <4>3. \A v : Due(target, v) = 0
        <5>. HIDE DEF target
        <5>. QED
          BY <3>1, <3>3, <4>1, <4>2, ActivatingDue
      <4>4. Observed(target)
        <5>. DEFINE v == data[to].stake.voter_pubkey
        <5>1. /\ v \in Voters /\ Credits(v) \in Nat /\ seen \in 0..Credits(v)
              /\ data[to].stake.credits_observed <= Credits(v)
          <6>1. v \in Voters /\ seen \in Nat
            BY <3>1, <3>2, DelegationOK, NumbersOK DEF Stake, U64
          <6>2. Credits(v) \in Nat
            BY <6>1, CreditsOK, NumbersOK DEF U64
          <6>3. data[to].stake.credits_observed <= Credits(v) /\ seen <= Credits(v)
            BY <3>1 DEF CreditsKept, Observed, IsStake
          <6>. QED
            BY <6>1, <6>2, <6>3
        <5>2. data[to].stake.stake # 0
          BY <3>1, StatusOK
        <5>3. Absorb(data[to].stake, absorbed, seen).credits_observed \in 0..Credits(v)
          <6>. HIDE DEF absorbed, seen, v
          <6>. QED
            BY <3>2, <3>4, <5>1, <5>2, AbsorbPaysNoMore DEF v
        <5>. HIDE DEF target, absorbed, seen
        <5>. QED
          BY <3>3, <4>2, <5>1, <5>3 DEF Observed
      <4>. HIDE DEF target
      <4>. QED
        BY <1>3, <4>3, <4>4, AccountDue DEF NoDearerPair
    <3>. QED
      BY <1>1, <2>3, <3>5, <3>6 DEF KindsCanMerge
  <2>. QED
    BY <1>1, <2>1, <2>2, <2>3 DEF KindsCanMerge
<1>. HIDE DEF target
<1>. QED
  BY <1>1, <1>4, WritesSettle

LEMMA MoveStakeSettles ==
  ASSUME Inv, Inv', CreditsKept, NEW S, NEW from \in Accounts, NEW to \in Accounts,
         NEW n \in Nat, MoveStake(S, from, to, n)
  PROVE  Settled
<1>. DEFINE amount == data[from].stake.stake
            rest == amount - n
            source == Remainder(from, n)
            target == Moved(from, to, n)
<1>1. /\ from # to /\ HasMeta(data[to]) /\ HasMeta(data[from])
      /\ Kind(from) = "FullyActive" /\ amount >= n
      /\ \/ /\ Kind(to) = "FullyActive"
            /\ data[from].stake.voter_pubkey = data[to].stake.voter_pubkey
         \/ Kind(to) = "Inactive"
      /\ SetStates(to, target, from, source) /\ UNCHANGED sysvars
  BY DEF MoveStake, MoveStakeChecks, MoveChecks, Mergeable
<1>2. target \in AccountData
  BY <1>1 DEF SetStates, Inv, AccountsOK
<1>3. IsStake(from) /\ Status(from).effective # 0
  BY <1>1, KindEffective
<1>4. amount \in U64 /\ n \in U64 /\ rest \in U64 /\ amount \in Nat
  <2>1. amount \in U64
    BY <1>3, DelegationOK DEF Stake, Lamports
  <2>. QED
    BY <1>1, <2>1, NumbersOK DEF U64
<1>5. \A v \in Voters :
         /\ Rate(from, v) \in Nat /\ Due(data[from], v) = amount * Rate(from, v)
         /\ rest * Rate(from, v) \in Nat /\ n * Rate(from, v) \in Nat
         /\ rest * Rate(from, v) + n * Rate(from, v) = amount * Rate(from, v)
  <2>. SUFFICES ASSUME NEW v \in Voters
                PROVE  /\ Rate(from, v) \in Nat /\ Due(data[from], v) = amount * Rate(from, v)
                       /\ rest * Rate(from, v) \in Nat /\ n * Rate(from, v) \in Nat
                       /\ rest * Rate(from, v) + n * Rate(from, v) = amount * Rate(from, v)
    OBVIOUS
  <2>1. Rate(from, v) \in Nat /\ Due(data[from], v) = amount * Rate(from, v)
    BY <1>3, RateOK
  <2>. HIDE DEF amount
  <2>. QED
    BY <1>1, <1>4, <2>1, SharesDue
<1>6. Observed(source) /\ \A v \in Voters : /\ Due(source, v) \in Nat
                                            /\ Due(source, v) <= rest * Rate(from, v)
  <2>1. CASE rest = 0
    <3>1. source = Initialized(data[from].meta)
      BY <1>1, <1>4, <2>1 DEF Remainder
    <3>2. Observed(source) /\ \A v : Due(source, v) = 0
      BY <3>1, NothingDue DEF Initialized
    <3>. HIDE DEF source, rest
    <3>. QED
      BY <1>5, <3>2
  <2>2. CASE rest # 0
    <3>1. source = [data[from] EXCEPT !.stake.stake = rest]
      BY <1>4, <2>2 DEF Remainder
    <3>. HIDE DEF source, rest
    <3>. QED
      BY <1>3, <1>4, <3>1, AmountDue
  <2>. QED
    BY <2>1, <2>2
<1>7. Observed(target) /\ \A v \in Voters :
                             /\ Due(target, v) \in Nat
                             /\ Due(target, v) <= Due(data[to], v) + n * Rate(from, v)
  <2>1. CASE Kind(to) = "FullyActive"
    <3>1. IsStake(to) /\ Status(to).effective # 0
      BY <1>1, <2>1, KindEffective
    <3>2. target = [data[to] EXCEPT !.stake =
                      Absorb(data[to].stake, n, data[from].stake.credits_observed)]
      BY <2>1 DEF Moved
    <3>3. data[to] = [kind |-> "Stake", meta |-> data[to].meta, stake |-> data[to].stake]
      BY <3>1, AccountOK, StakeData DEF IsStake
    <3>. HIDE DEF target
    <3>4. /\ target.kind = "Stake"
          /\ target.stake = Absorb(data[to].stake, n, data[from].stake.credits_observed)
      BY <3>2, <3>3
    <3>5. data[from].stake.voter_pubkey = data[to].stake.voter_pubkey
      BY <1>1, <2>1
    <3>. QED
      BY <1>2, <1>3, <3>1, <3>4, <3>5, JoinedDue
  <2>2. CASE Kind(to) = "Inactive"
    <3>1. target = Staked(data[to].meta, [data[from].stake EXCEPT !.stake = n])
      BY <2>2 DEF Moved
    <3>2. \A v \in Voters : Due(data[to], v) \in Nat
      BY AccountDue
    <3>. HIDE DEF target
    <3>3. Observed(target) /\ \A v \in Voters : /\ Due(target, v) \in Nat
                                                /\ Due(target, v) <= n * Rate(from, v)
      BY <1>3, <1>4, <3>1, AmountDue
    <3>. QED
      BY <1>5, <3>2, <3>3
  <2>. QED
    BY <1>1, <2>1, <2>2
<1>. HIDE DEF source, target, amount, rest
<1>8. NoDearerPair(to, target, from, source)
  <2>1. \A v \in Voters : Due(data[to], v) \in Nat
    BY AccountDue
  <2>. QED
    BY <1>5, <1>6, <1>7, <2>1 DEF NoDearerPair
<1>. QED
  BY <1>1, <1>8, WritesSettle

-----------------------------------------------------------------------------

\* An instruction that leaves the data as it is.
LEMMA UnchangedSettles ==
  ASSUME CreditsKept, UNCHANGED <<data, sysvars>>
  PROVE  CreditsKept' /\ data' = data
BY DEF CreditsKept, Observed, Credits, sysvars

LEMMA ProcessSettles ==
  ASSUME Inv, Inv', CreditsKept, NEW S, Process(S)
  PROVE  Settled \/ (CreditsKept' /\ data' = data)
<1>. PICK a \in Accounts :
        \/ Initialize(a)
        \/ InitializeChecked(S, a)
        \/ Authorize(S, a)
        \/ AuthorizeChecked(S, a)
        \/ AuthorizeWithSeed(S, a)
        \/ AuthorizeCheckedWithSeed(S, a)
        \/ SetLockup(S, a)
        \/ SetLockupChecked(S, a)
        \/ \E v \in Voters : Delegate(S, a, v)
        \/ Deactivate(S, a)
        \/ \E delinquent, reference \in Voters :
              DeactivateDelinquent(a, delinquent, reference)
        \/ \E to \in Holders : Withdraw(S, a, to)
        \/ \E to \in Accounts : Merge(S, to, a)
        \/ \E to \in Accounts : \E n \in Amounts \cup {lamports[a]} :
              \/ SplitFull(S, a, to, n)
              \/ SplitInactive(S, a, to, n)
              \/ SplitActive(S, a, to, n)
              \/ MoveStake(S, a, to, n)
              \/ MoveLamports(S, a, to, n)
  BY Zenon DEF Process
<1>1. CASE Initialize(a) \/ InitializeChecked(S, a)
  <2>1. PICK staker, withdrawer, lockup : DoInitialize(a, staker, withdrawer, lockup)
    BY <1>1 DEF Initialize, InitializeChecked
  <2>. DEFINE state == Initialized([staker |-> staker, withdrawer |-> withdrawer,
                                    lockup |-> lockup])
  <2>2. SetState(a, state) /\ UNCHANGED sysvars
    BY <2>1 DEF DoInitialize
  <2>3. state.kind # "Stake"
    BY DEF Initialized
  <2>. HIDE DEF state
  <2>. QED
    BY <2>2, <2>3, ClosingSettles
<1>2. ASSUME NEW signers, NEW new, NEW who, NEW custodian,
             DoAuthorize(a, signers, new, who, custodian)
      PROVE  Settled
  <2>. DEFINE meta == WithAuthority(data[a].meta, who, new)
  <2>1. /\ HasMeta(data[a]) /\ SetState(a, [data[a] EXCEPT !.meta = meta])
        /\ UNCHANGED sysvars
    BY <1>2 DEF DoAuthorize
  <2>. HIDE DEF meta
  <2>. QED
    BY <2>1, MetaWriteSettles
<1>3. CASE \/ Authorize(S, a) \/ AuthorizeChecked(S, a)
           \/ AuthorizeWithSeed(S, a) \/ AuthorizeCheckedWithSeed(S, a)
  BY <1>2, <1>3
     DEF Authorize, AuthorizeChecked, AuthorizeWithSeed, AuthorizeCheckedWithSeed
<1>4. ASSUME NEW args, DoSetLockup(a, S, args)
      PROVE  Settled
  <2>. DEFINE meta == WithLockup(data[a].meta, args)
  <2>1. /\ HasMeta(data[a]) /\ SetState(a, [data[a] EXCEPT !.meta = meta])
        /\ UNCHANGED sysvars
    BY <1>4 DEF DoSetLockup
  <2>. HIDE DEF meta
  <2>. QED
    BY <2>1, MetaWriteSettles
<1>5. CASE SetLockup(S, a) \/ SetLockupChecked(S, a)
  BY <1>4, <1>5 DEF SetLockup, SetLockupChecked
<1>6. CASE \E v \in Voters : Delegate(S, a, v)
  BY <1>6, DelegateSettles
<1>7. CASE \/ Deactivate(S, a)
           \/ \E delinquent, reference \in Voters :
                 DeactivateDelinquent(a, delinquent, reference)
  BY <1>7, DeactivateSettles DEF Deactivate, DeactivateDelinquent
<1>8. CASE \E to \in Holders : Withdraw(S, a, to)
  <2>1. \/ SetState(a, Closed) /\ UNCHANGED sysvars
        \/ UNCHANGED <<data, sysvars>>
    BY <1>8 DEF Withdraw, WithdrawAll, WithdrawPart
  <2>2. Closed.kind # "Stake"
    BY DEF Closed
  <2>. QED
    BY <2>1, <2>2, ClosingSettles, UnchangedSettles
<1>9. CASE \E to \in Accounts : Merge(S, to, a)
  BY <1>9, MergeSettles
<1>10. CASE \E to \in Accounts : \E n \in Amounts \cup {lamports[a]} :
               \/ SplitFull(S, a, to, n)
               \/ SplitInactive(S, a, to, n)
               \/ SplitActive(S, a, to, n)
               \/ MoveStake(S, a, to, n)
               \/ MoveLamports(S, a, to, n)
  <2>1. PICK to \in Accounts, n \in Amounts \cup {lamports[a]} :
               \/ SplitFull(S, a, to, n)
               \/ SplitInactive(S, a, to, n)
               \/ SplitActive(S, a, to, n)
               \/ MoveStake(S, a, to, n)
               \/ MoveLamports(S, a, to, n)
    BY <1>10
  <2>2. n \in Nat
    BY InputsOK, AccountOK
  <2>3. CASE MoveLamports(S, a, to, n)
    BY <2>3, UnchangedSettles DEF MoveLamports
  <2>. QED
    BY <2>1, <2>2, <2>3, SplitFullSettles, SplitInactiveSettles, SplitActiveSettles,
       MoveStakeSettles
<1>. QED
  BY <1>1, <1>3, <1>5, <1>6, <1>7, <1>8, <1>9, <1>10

\* A vote earns credits, and the end of an epoch takes none.
LEMMA StepSettles ==
  ASSUME Inv, Inv', CreditsKept, [Next]_vars
  PROVE  /\ CreditsKept'
         /\ \/ Settled \/ data' = data \/ clock' # clock
<1>1. ASSUME NEW S \in SignerSets, Process(S)
      PROVE  Settled \/ (CreditsKept' /\ data' = data)
  BY <1>1, ProcessSettles
<1>2. ASSUME NEW a \in Accounts, CreateAccount(a) \/ Reap(a)
      PROVE  Settled
  <2>1. PICK state \in {Uninitialized, NoAccount} :
           SetState(a, state) /\ UNCHANGED sysvars
    BY <1>2 DEF CreateAccount, Reap
  <2>2. state.kind # "Stake"
    BY DEF Uninitialized, NoAccount
  <2>. QED
    BY <2>1, <2>2, ClosingSettles
<1>3. CASE \/ \E a \in Accounts, n \in Amounts : Deposit(a, n)
           \/ AdvanceEpoch \/ EndRewards \/ AdvanceTime \/ ChangeRent
           \/ UNCHANGED vars
  <2>1. UNCHANGED <<data, epoch_credits>>
    BY <1>3 DEF Deposit, AdvanceEpoch, EndRewards, AdvanceTime, ChangeRent, vars, sysvars
  <2>. QED
    BY <2>1 DEF CreditsKept, Observed, Credits
<1>4. ASSUME NEW v \in Voters, Vote(v)
      PROVE  CreditsKept' /\ data' = data
  <2>1. data' = data /\ \A u \in Voters : Credits(u)' >= Credits(u)
    <3>1. epoch_credits \in [Voters -> Seq(Nat)] /\ clock.epoch \in Nat
      BY DEF Inv, SysvarsOK, Clock
    <3>2. Len(Append(epoch_credits[v], clock.epoch)) = Len(epoch_credits[v]) + 1
      BY <3>1
    <3>3. \A u \in Voters : Len(epoch_credits[u]) \in Nat
      BY <3>1
    <3>4. /\ data' = data
          /\ epoch_credits' = [epoch_credits EXCEPT
                                  ![v] = Append(epoch_credits[v], clock.epoch)]
      BY <1>4 DEF Vote
    <3>5. \A u \in Voters : Len(epoch_credits'[u]) >= Len(epoch_credits[u])
      BY <3>1, <3>2, <3>3, <3>4
    <3>. QED
      BY <3>4, <3>5 DEF Credits
  <2>2. \A u \in Voters : Credits(u) \in Nat
    BY CreditsOK, NumbersOK DEF U64
  <2>3. \A u \in Voters : Credits(u)' \in Nat
    <3>1. epoch_credits' \in [Voters -> Seq(Nat)]
      BY DEF Inv, SysvarsOK
    <3>. QED
      BY <3>1 DEF Credits
  <2>4. ASSUME NEW a \in Accounts PROVE Observed(data[a])'
    <3>1. CASE data[a].kind = "Stake"
      <4>1. data[a].stake.voter_pubkey \in Voters /\ data[a].stake.credits_observed \in Nat
        BY <3>1, DelegationOK, NumbersOK DEF Stake, U64, IsStake
      <4>2. data[a].stake.credits_observed <= Credits(data[a].stake.voter_pubkey)
        BY <3>1 DEF CreditsKept, Observed
      <4>3. Credits(data[a].stake.voter_pubkey)' >= Credits(data[a].stake.voter_pubkey)
        BY <2>1, <4>1 DEF Credits
      <4>. QED
        BY <2>1, <2>2, <2>3, <4>1, <4>2, <4>3 DEF Observed, Credits
    <3>2. CASE data[a].kind # "Stake"
      BY <2>1, <3>2 DEF Observed
    <3>. QED
      BY <3>1, <3>2
  <2>. QED
    BY <2>1, <2>4 DEF CreditsKept
<1>. QED
  BY <1>1, <1>2, <1>3, <1>4, Zenon DEF Next, Runtime, Settled

(***************************************************************************)
(* No instruction raises the rewards due for effective stake: they are due *)
(* for the credits not yet observed, which merging and moving average      *)
(* upwards and which no account has observed before they were earned.      *)
(***************************************************************************)
THEOREM RewardsKeptFair == Spec => RewardsNotInflated
<1>. DEFINE A == clock' = clock /\ data' # data =>
                    \A v \in Voters : PointsOf(v)' <= PointsOf(v)
<1>1. Init => CreditsKept
  BY DEF Init, CreditsKept, Observed, NoAccount
<1>2. Inv /\ Inv' /\ CreditsKept /\ [Next]_vars => CreditsKept' /\ [A]_vars
  BY StepSettles DEF Settled
<1>3. RewardsNotInflated <=> [][A]_vars
  BY DEF RewardsNotInflated
<1>. HIDE DEF A
<1>. QED
  BY <1>1, <1>2, <1>3, Invariance, PTL DEF Spec

-----------------------------------------------------------------------------
(* Lamports are neither made nor lost.                                     *)

LamportsKept == Total(lamports, Holders) = Supply

\* So no account holds more than there are.
LEMMA WithinSupply ==
  ASSUME Inv, LamportsKept
  PROVE  \A h \in Holders : lamports[h] \in Nat /\ lamports[h] <= Supply
<1>. DEFINE l == lamports
<1>1. \A h \in Holders : l[h] \in Nat
  BY Balances
<1>2. Total(l, Holders) = Supply
  BY DEF LamportsKept
<1>. HIDE DEF l
<1>3. \A h \in Holders : l[h] <= Total(l, Holders)
  BY <1>1, HoldersFinite, TotalCovers
<1>. QED
  BY <1>1, <1>2, <1>3 DEF l

LEMMA InitialLamports == Init => LamportsKept
<1>. SUFFICES ASSUME Init PROVE LamportsKept
  OBVIOUS
<1>. DEFINE l == lamports
            rest == Holders \ {Wallet}
<1>1. /\ Wallet \in Holders /\ Supply \in Nat
      /\ \A h \in Holders : l[h] = IF h = Wallet THEN Supply ELSE 0
  BY WalletHolds, ProgramConstants, NumbersOK DEF Init, Lamports, U64
<1>2. IsFiniteSet(Holders) /\ IsFiniteSet(rest) /\ rest \in SUBSET Holders
  BY HoldersFinite, FS_Subset
<1>3. Total(l, rest) = 0
  <2>1. \A h \in rest : l[h] \in {0}
    BY <1>1
  <2>2. {0} \in {Int, Nat, {0}}
    OBVIOUS
  <2>. HIDE DEF l, rest
  <2>. QED
    BY <1>2, <2>1, <2>2, TotalTyped
<1>4. \A h \in Holders : l[h] \in Int
  BY <1>1
<1>5. Total(l, Holders) = l[Wallet] + Total(l, rest)
  <2>. HIDE DEF l
  <2>. QED
    BY <1>1, <1>2, <1>4, TotalWithout
<1>. QED
  BY <1>1, <1>3, <1>5 DEF LamportsKept

\* Lamports go from one holder to another, if anywhere.
LEMMA LamportsGo ==
  ASSUME Inv, [Next]_vars
  PROVE  \/ UNCHANGED lamports
         \/ \E from, to \in Holders : \E n \in Nat : from # to /\ Relocate(from, to, n)
<1>1. ASSUME NEW S, Process(S)
      PROVE  \/ UNCHANGED lamports
             \/ \E from, to \in Holders : \E n \in Nat :
                   from # to /\ Relocate(from, to, n)
  <2>. PICK a \in Accounts :
          \/ Initialize(a)
          \/ InitializeChecked(S, a)
          \/ Authorize(S, a)
          \/ AuthorizeChecked(S, a)
          \/ AuthorizeWithSeed(S, a)
          \/ AuthorizeCheckedWithSeed(S, a)
          \/ SetLockup(S, a)
          \/ SetLockupChecked(S, a)
          \/ \E v \in Voters : Delegate(S, a, v)
          \/ Deactivate(S, a)
          \/ \E delinquent, reference \in Voters :
                DeactivateDelinquent(a, delinquent, reference)
          \/ \E to \in Holders : Withdraw(S, a, to)
          \/ \E to \in Accounts : Merge(S, to, a)
          \/ \E to \in Accounts : \E n \in Amounts \cup {lamports[a]} :
                \/ SplitFull(S, a, to, n)
                \/ SplitInactive(S, a, to, n)
                \/ SplitActive(S, a, to, n)
                \/ MoveStake(S, a, to, n)
                \/ MoveLamports(S, a, to, n)
    BY <1>1, Zenon DEF Process
  <2>1. CASE \/ Initialize(a) \/ InitializeChecked(S, a)
             \/ Authorize(S, a) \/ AuthorizeChecked(S, a)
             \/ AuthorizeWithSeed(S, a) \/ AuthorizeCheckedWithSeed(S, a)
             \/ SetLockup(S, a) \/ SetLockupChecked(S, a)
             \/ \E v \in Voters : Delegate(S, a, v)
             \/ Deactivate(S, a)
             \/ \E delinquent, reference \in Voters :
                   DeactivateDelinquent(a, delinquent, reference)
    BY <2>1 DEF Initialize, InitializeChecked, DoInitialize, Authorize, AuthorizeChecked,
       AuthorizeWithSeed, AuthorizeCheckedWithSeed, DoAuthorize, SetLockup,
       SetLockupChecked, DoSetLockup, Delegate, Deactivate, DeactivateDelinquent,
       DoDeactivate
  <2>2. Accounts \subseteq Holders /\ lamports[a] \in Nat /\ Amounts \subseteq Nat
    BY WalletHolds, AccountOK, InputsOK
  <2>3. CASE \E to \in Holders : Withdraw(S, a, to)
    BY <2>2, <2>3 DEF Withdraw, WithdrawAll, WithdrawPart
  <2>4. CASE \E to \in Accounts : Merge(S, to, a)
    BY <2>2, <2>4 DEF Merge
  <2>5. CASE \E to \in Accounts : \E n \in Amounts \cup {lamports[a]} :
                \/ SplitFull(S, a, to, n)
                \/ SplitInactive(S, a, to, n)
                \/ SplitActive(S, a, to, n)
                \/ MoveStake(S, a, to, n)
                \/ MoveLamports(S, a, to, n)
    BY <2>2, <2>5 DEF SplitFull, SplitInactive, SplitActive, SplitChecks, MoveStake,
       MoveStakeChecks, MoveLamports, MoveChecks
  <2>. QED
    BY <2>1, <2>3, <2>4, <2>5
<1>2. ASSUME NEW a \in Accounts, NEW n \in Amounts, Deposit(a, n)
      PROVE  \E from, to \in Holders : \E m \in Nat : from # to /\ Relocate(from, to, m)
  <2>1. Wallet \in Holders /\ a \in Holders /\ Wallet # a /\ n \in Nat
    BY WalletHolds, InputsOK
  <2>. QED
    BY <1>2, <2>1 DEF Deposit
<1>3. CASE \/ \E a \in Accounts : CreateAccount(a) \/ Reap(a)
           \/ AdvanceEpoch \/ EndRewards \/ AdvanceTime \/ ChangeRent
           \/ \E v \in Voters : Vote(v)
           \/ UNCHANGED vars
  BY <1>3 DEF CreateAccount, Reap, AdvanceEpoch, EndRewards, AdvanceTime, ChangeRent,
     Vote, vars
<1>. QED
  BY <1>1, <1>2, <1>3, Zenon DEF Next, Runtime

\* A sum over everything changes by what x and y change by.
LEMMA TotalOfAll ==
  ASSUME NEW U, IsFiniteSet(U), NEW f \in [U -> Nat], NEW g \in [U -> Nat],
         NEW x \in U, NEW y \in U, x # y, \A a \in U \ {x, y} : f[a] = g[a]
  PROVE  /\ Total(f, U) \in Int /\ Total(g, U) \in Int
         /\ Total(g, U) - Total(f, U) = (g[x] + g[y]) - (f[x] + f[y])
<1>. DEFINE s == U
            r == U
<1>1. s \in SUBSET U /\ r \in SUBSET U /\ x \in s /\ y \in s /\ x \in r /\ y \in r
  OBVIOUS
<1>2. (\A a \in s : f[a] \in Int) /\ (\A a \in r : g[a] \in Int)
  OBVIOUS
<1>3. \A a \in U \ {x, y} : /\ a \in s <=> a \in r
                            /\ a \in s => f[a] = g[a]
  OBVIOUS
<1>4. s = U /\ r = U
  OBVIOUS
<1>. HIDE DEF s, r
<1>5. /\ Total(f, s) \in Int /\ Total(g, r) \in Int
      /\ Total(g, r) - Total(f, s)
           = (Part(g, r, x) + Part(g, r, y)) - (Part(f, s, x) + Part(f, s, y))
  BY <1>1, <1>2, <1>3, TotalChanged
<1>6. /\ Part(g, r, x) = g[x] /\ Part(g, r, y) = g[y]
      /\ Part(f, s, x) = f[x] /\ Part(f, s, y) = f[y]
  BY <1>1 DEF Part
<1>. QED
  BY <1>4, <1>5, <1>6

LEMMA LamportsStay ==
  ASSUME Inv, Inv', LamportsKept, [Next]_vars
  PROVE  LamportsKept'
<1>. DEFINE f == lamports
            g == lamports'
<1>1. CASE UNCHANGED lamports
  BY <1>1 DEF LamportsKept
<1>2. ASSUME NEW from \in Holders, NEW to \in Holders, NEW n \in Nat, from # to,
             Relocate(from, to, n)
      PROVE  LamportsKept'
  <2>1. f \in [Holders -> Nat] /\ g \in [Holders -> Nat]
    BY Balances, BalancesKept
  <2>2. g = [f EXCEPT ![from] = f[from] - n, ![to] = f[to] + n]
    BY <1>2 DEF Relocate
  <2>3. /\ g[from] = f[from] - n /\ g[to] = f[to] + n
        /\ \A h \in Holders \ {from, to} : g[h] = f[h]
    BY <1>2, <2>1, <2>2
  <2>4. Total(f, Holders) = Supply /\ (Total(g, Holders) = Supply => LamportsKept')
    BY DEF LamportsKept
  <2>. HIDE DEF f, g
  <2>5. /\ Total(f, Holders) \in Int /\ Total(g, Holders) \in Int
        /\ Total(g, Holders) - Total(f, Holders)
             = (g[from] + g[to]) - (f[from] + f[to])
    BY <1>2, <2>1, <2>3, HoldersFinite, TotalOfAll
  <2>6. f[from] \in Nat /\ f[to] \in Nat
    BY <2>1
  <2>7. Total(g, Holders) = Total(f, Holders)
    <3>. DEFINE new == Total(g, Holders)
                old == Total(f, Holders)
                less == f[from]
                more == f[to]
    <3>1. /\ new \in Int /\ old \in Int /\ less \in Nat /\ more \in Nat
          /\ new - old = ((less - n) + (more + n)) - (less + more)
      BY <2>3, <2>5, <2>6
    <3>. HIDE DEF new, old, less, more
    <3>2. new = old
      BY <3>1
    <3>. QED
      BY <3>2 DEF new, old
  <2>. QED
    BY <2>4, <2>7
<1>. QED
  BY <1>1, <1>2, LamportsGo

-----------------------------------------------------------------------------
(* Epochs that limit no account.                                           *)

(***************************************************************************)
(* The warmup and cooldown rate limited no account so far: what moved in   *)
(* each epoch was a small enough part of what was effective.  The loops    *)
(* round only what they limit, so this is when they are exact.             *)
(***************************************************************************)
Unlimited == AmpleHistory(history, Supply)

\* Delegated before this epoch and not deactivated before it.
Whole(d) == d.activation_epoch < clock.epoch /\ clock.epoch <= d.deactivation_epoch

\* Such delegations are effective as a whole, the others not at all.
AllWhole ==
    \A a \in StakeAccounts :
        Status(a).effective = IF Whole(data[a].stake) THEN data[a].stake.stake ELSE 0

\* Deactivated or not, no delegation is of more lamports than there are.
AmountsKept == \A a \in StakeAccounts : data[a].stake.stake <= Supply

LEMMA AmountsStay ==
  ASSUME Inv, Inv', LamportsKept', AmountsKept, [Next]_vars
  PROVE  AmountsKept'
<1>1. CASE AdvanceEpoch
  BY <1>1 DEF AdvanceEpoch, AmountsKept, StakeAccounts, IsStake
<1>2. CASE ~AdvanceEpoch
  <2>1. AllDescend
    BY <1>2, StepDescends
  <2>. SUFFICES ASSUME NEW a \in Accounts, data'[a].kind = "Stake"
                PROVE  data'[a].stake.stake <= Supply
    BY DEF AmountsKept, StakeAccounts, IsStake
  <2>. DEFINE d == data'[a].stake
  <2>2. CASE d.deactivation_epoch = Never
    <3>1. lamports'[a] >= d.stake /\ a \in Holders
      BY <2>2, WalletHolds DEF Inv, AccountsOK, Backed
    <3>2. lamports'[a] \in Nat /\ lamports'[a] <= Supply
      <4>1. (\A h \in Holders : lamports[h] \in Nat /\ lamports[h] <= Supply)'
        BY WithinSupply, PTL
      <4>. QED
        BY <3>1, <4>1
    <3>3. d.stake \in Nat
      <4>1. data'[a] \in AccountData
        BY DEF Inv, AccountsOK
      <4>2. d \in Stake
        BY <4>1, StakeData
      <4>. QED
        BY <4>2, NumbersOK DEF Stake, Lamports, U64
    <3>4. Supply \in Nat
      BY ProgramConstants, NumbersOK DEF Lamports, U64
    <3>. HIDE DEF d
    <3>5. d.stake <= Supply
      BY <3>1, <3>2, <3>3, <3>4
    <3>. QED
      BY <3>5 DEF d
  <2>3. CASE d.deactivation_epoch # Never
    <3>1. PICK b \in Accounts : IsStake(b) /\ Continues(d, data[b].stake)
      BY <2>1, <2>3 DEF AllDescend, Descends, Fresh
    <3>2. d.stake <= data[b].stake.stake
      <4>1. data[b].stake.stake \in Nat
        BY <3>1, StatusOK
      <4>2. d = data[b].stake \/ d.stake <= data[b].stake.stake
        BY <2>3, <3>1 DEF Continues
      <4>. HIDE DEF d
      <4>. QED
        BY <4>1, <4>2
    <3>3. data[b].stake.stake <= Supply
      BY <3>1 DEF AmountsKept, StakeAccounts
    <3>4. d.stake \in Nat /\ data[b].stake.stake \in Nat /\ Supply \in Nat
      <4>1. data'[a] \in AccountData
        BY DEF Inv, AccountsOK
      <4>2. d \in Stake
        BY <4>1, StakeData
      <4>. QED
        BY <3>1, <4>2, StatusOK, ProgramConstants, NumbersOK DEF Stake, Lamports, U64
    <3>. HIDE DEF d
    <3>5. d.stake <= Supply
      BY <3>2, <3>3, <3>4
    <3>. QED
      BY <3>5 DEF d
  <2>. QED
    BY <2>2, <2>3
<1>. QED
  BY <1>1, <1>2

\* What the theorems about the status need of an account.
LEMMA HistoryOK ==
  ASSUME Inv
  PROVE  DOMAIN history = 0..(clock.epoch - 1)
BY DEF Inv, SysvarsOK

\* Deactivated stake was effective as a whole before.
LEMMA WholeInTime ==
  ASSUME Inv, StartCounted, AmountsKept, Unlimited
  PROVE  WarmedUpInTime
<1>. SUFFICES ASSUME NEW a \in Accounts, IsStake(a),
                     data[a].stake.deactivation_epoch
                       \notin {data[a].stake.activation_epoch, Never}
              PROVE  StakeAndActivating(data[a].stake, history, clock.epoch).effective
                       = data[a].stake.stake
  BY DEF WarmedUpInTime, StakeAccounts
<1>. DEFINE d == data[a].stake
            now == clock.epoch
<1>1. /\ IsDelegation(d) /\ IsHistory(history) /\ now \in Nat /\ now < Never
      /\ d.deactivation_epoch \in {Never} \cup d.activation_epoch..now
  BY DelegationOK
<1>2. d.stake <= Supply /\ Supply \in Nat
  BY ProgramConstants, NumbersOK DEF AmountsKept, StakeAccounts, Lamports, U64
<1>3. d.deactivation_epoch # d.activation_epoch /\ d.deactivation_epoch # Never
  OBVIOUS
<1>4. d.activation_epoch < now => history[d.activation_epoch].activating # 0
  BY <1>3 DEF StartCounted, StakeAccounts
<1>5. DOMAIN history = 0..(now - 1) /\ AmpleHistory(history, Supply)
  BY HistoryOK DEF Unlimited
<1>. HIDE DEF d, now
<1>6. /\ d.activation_epoch < now /\ d.deactivation_epoch >= d.activation_epoch
  <2>1. d.activation_epoch \in Nat /\ d.deactivation_epoch \in Nat
    BY <1>1 DEF IsDelegation
  <2>. QED
    BY <1>1, <1>3, <2>1
<1>7. StakeAndActivating(d, history, now).effective = d.stake
  BY <1>1, <1>2, <1>3, <1>4, <1>5, <1>6, StartWhole
<1>. QED
  BY <1>7 DEF d, now

LEMMA AllAreWhole ==
  ASSUME Inv, StartCounted, CoolCounted, AmountsKept, Unlimited
  PROVE  AllWhole
<1>. SUFFICES ASSUME NEW a \in Accounts, IsStake(a)
              PROVE  Status(a).effective
                       = IF Whole(data[a].stake) THEN data[a].stake.stake ELSE 0
  BY DEF AllWhole, StakeAccounts
<1>. DEFINE d == data[a].stake
            now == clock.epoch
            effective == StakeActivatingAndDeactivating(d, history, now).effective
<1>1. /\ IsDelegation(d) /\ IsHistory(history) /\ now \in Nat /\ now < Never
      /\ d.activation_epoch <= now
      /\ d.deactivation_epoch \in {Never} \cup d.activation_epoch..now
  BY DelegationOK
<1>2. d.stake <= Supply /\ Supply \in Nat
  BY ProgramConstants, NumbersOK DEF AmountsKept, StakeAccounts, Lamports, U64
<1>3. /\ d.activation_epoch < now /\ d.deactivation_epoch # d.activation_epoch
      => history[d.activation_epoch].activating # 0
  BY DEF StartCounted, StakeAccounts
<1>4. \/ d.deactivation_epoch = Never \/ effective = 0
      \/ \A e \in d.deactivation_epoch..(now - 1) : history[e].deactivating # 0
  BY DEF CoolCounted, StakeAccounts, Status
<1>5. DOMAIN history = 0..(now - 1) /\ AmpleHistory(history, Supply)
  BY HistoryOK DEF Unlimited
<1>6. Status(a).effective = effective
      /\ (Whole(d) <=> d.activation_epoch < now /\ now <= d.deactivation_epoch)
  BY DEF Status, Whole
<1>. HIDE DEF d, now
<1>7. d.deactivation_epoch < now =>
        effective = 0 \/ history[d.deactivation_epoch].deactivating # 0
  <2>. HIDE DEF effective
  <2>1. d.deactivation_epoch \in Nat /\ Never \in Nat
    BY <1>1, NumbersOK DEF IsDelegation, Never
  <2>2. d.deactivation_epoch < now => /\ d.deactivation_epoch # Never
                                      /\ d.deactivation_epoch \in d.deactivation_epoch..(now - 1)
    BY <1>1, <2>1
  <2>. QED
    BY <1>4, <2>2
<1>8. effective = IF d.activation_epoch < now /\ now <= d.deactivation_epoch
                  THEN d.stake ELSE 0
  BY <1>1, <1>2, <1>3, <1>5, <1>7, StatusWhole
<1>. HIDE DEF effective
<1>. QED
  BY <1>6, <1>8 DEF d

-----------------------------------------------------------------------------
(* Effective stake of a validator.                                         *)

\* What v votes with of an account, where all delegations are whole or nothing.
Weight(state, v) ==
    IF state.kind = "Stake" /\ state.stake.voter_pubkey = v /\ Whole(state.stake)
    THEN state.stake.stake ELSE 0

WeightAt(accounts, h, v) == IF h \in Accounts THEN Weight(accounts[h], v) ELSE 0

\* The accounts delegated to v, and what it votes with of each.
Supporters(accounts, v) ==
    {a \in Accounts : accounts[a].kind = "Stake" /\ accounts[a].stake.voter_pubkey = v}
Weights(accounts, s, v) == [a \in s |-> Weight(accounts[a], v)]

WeighedInTotal ==
    \A v : EffectiveOf(v) = LET s == Supporters(data, v)
                            IN  Total(Weights(data, s, v), s)

LEMMA EffectiveIsTotal == AllWhole => WeighedInTotal
<1>. SUFFICES ASSUME AllWhole, NEW v
              PROVE  EffectiveOf(v) = LET s == Supporters(data, v)
                                      IN  Total(Weights(data, s, v), s)
  BY DEF WeighedInTotal
<1>. DEFINE s == Supporters(data, v)
            f == Weights(data, s, v)
            g == [a \in s |-> Status(a).effective]
<1>1. DelegatedTo(v) = s
  BY DEF DelegatedTo, StakeAccounts, IsStake, Supporters
<1>2. EffectiveOf(v) = Total(g, s)
  <2>1. EffectiveOf(v) = MapThenSumSet(LAMBDA a : Status(a).effective, s)
    BY <1>1 DEF EffectiveOf
  <2>. HIDE DEF s
  <2>. QED
    BY <2>1, TotalIsFold
<1>3. \A a \in s : g[a] = f[a]
  BY DEF AllWhole, StakeAccounts, IsStake, Supporters, Weights, Weight
<1>. HIDE DEF s, f, g
<1>4. Total(g, s) = Total(f, s)
  BY <1>3, TotalSame
<1>. QED
  BY <1>2, <1>4 DEF s, f

LEMMA WeightOK ==
  ASSUME NEW state \in AccountData, NEW v
  PROVE  Weight(state, v) \in Nat
<1>1. state.kind = "Stake" => state.stake.stake \in Nat
  <2>1. state.kind = "Stake" => state.stake \in Stake
    BY StakeData
  <2>. QED
    BY <2>1, NumbersOK DEF Stake, Lamports, U64
<1>. QED
  BY <1>1 DEF Weight

\* One account is written, or two, and together they weigh what they did.
Balanced ==
    \E x \in Accounts, y \in Holders :
        /\ x # y
        /\ \A c \in Accounts \ {x, y} : data'[c] = data[c]
        /\ \A v \in Voters : WeightAt(data', x, v) + WeightAt(data', y, v)
                               = WeightAt(data, x, v) + WeightAt(data, y, v)

LEMMA EffectiveStays ==
  ASSUME Inv, Inv', AllWhole, AllWhole', UNCHANGED clock, Balanced, NEW v \in Voters
  PROVE  EffectiveOf(v)' - EffectiveOf(v) = 0
<1>. PICK x \in Accounts, y \in Holders :
        /\ x # y
        /\ \A c \in Accounts \ {x, y} : data'[c] = data[c]
        /\ \A u \in Voters : WeightAt(data', x, u) + WeightAt(data', y, u)
                               = WeightAt(data, x, u) + WeightAt(data, y, u)
  BY DEF Balanced
<1>. DEFINE s == Supporters(data, v)
            r == Supporters(data', v)
            f == Weights(data, s, v)
            g == Weights(data', r, v)
<1>1. EffectiveOf(v) = Total(f, s)
  BY EffectiveIsTotal DEF WeighedInTotal
<1>2. EffectiveOf(v)' = Total(g, r)
  <2>1. WeighedInTotal'
    BY EffectiveIsTotal, PTL
  <2>2. EffectiveOf(v)' = Total(Weights(data, s, v)', s')
    BY <2>1 DEF WeighedInTotal
  <2>3. s' = r /\ Weights(data, s, v)' = Weights(data', s', v)
    BY DEF Supporters, Weights, Weight, Whole
  <2>. QED
    BY <2>2, <2>3
<1>3. data \in [Accounts -> AccountData] /\ data' \in [Accounts -> AccountData]
  BY DEF Inv, AccountsOK
<1>4. \A a \in Accounts : Weight(data[a], v) \in Nat /\ Weight(data'[a], v) \in Nat
  BY <1>3, WeightOK
<1>5. IsFiniteSet(Holders) /\ s \in SUBSET Holders /\ r \in SUBSET Holders
  BY HoldersFinite, WalletHolds DEF Supporters
<1>6. (\A a \in s : f[a] \in Int) /\ (\A a \in r : g[a] \in Int)
  BY <1>4 DEF Supporters, Weights
<1>7. \A h : /\ Part(f, s, h) = WeightAt(data, h, v)
             /\ Part(g, r, h) = WeightAt(data', h, v)
  BY DEF Part, WeightAt, Weight, Weights, Supporters
<1>8. \A a \in Holders \ {x, y} : /\ a \in s <=> a \in r
                                  /\ a \in s => f[a] = g[a]
  BY DEF Supporters, Weights
<1>9. /\ WeightAt(data', x, v) + WeightAt(data', y, v)
           = WeightAt(data, x, v) + WeightAt(data, y, v)
      /\ WeightAt(data, x, v) \in Nat /\ WeightAt(data, y, v) \in Nat
  BY <1>4 DEF WeightAt
<1>. HIDE DEF s, r, f, g
<1>10. Total(g, r) - Total(f, s)
        = (Part(g, r, x) + Part(g, r, y)) - (Part(f, s, x) + Part(f, s, y))
  BY <1>5, <1>6, <1>8, TotalChanged
<1>11. Total(f, s) \in Int /\ Total(g, r) \in Int
  BY <1>5, <1>6, FS_Subset, TotalTyped
<1>. QED
  BY <1>1, <1>2, <1>7, <1>9, <1>10, <1>11

SameWeight(a, state) == \A v \in Voters : Weight(state, v) = Weight(data[a], v)

SameWeights(a, state, b, other) ==
    \A v \in Voters :
        Weight(state, v) + Weight(other, v) = Weight(data[a], v) + Weight(data[b], v)

LEMMA WriteBalances ==
  ASSUME Inv, NEW a \in Accounts, NEW state, SameWeight(a, state), SetState(a, state)
  PROVE  Balanced
<1>1. \A c \in Accounts : data'[c] = IF c = a THEN state ELSE data[c]
  BY DEF Inv, AccountsOK, SetState
<1>2. Wallet \in Holders /\ a # Wallet /\ Wallet \notin Accounts
  BY WalletHolds
<1>3. \A v \in Voters : WeightAt(data', a, v) + WeightAt(data', Wallet, v)
                          = WeightAt(data, a, v) + WeightAt(data, Wallet, v)
  BY <1>1, <1>2 DEF WeightAt, SameWeight
<1>. QED
  BY <1>1, <1>2, <1>3 DEF Balanced

LEMMA WritesBalance ==
  ASSUME Inv, NEW a \in Accounts, NEW state, NEW b \in Accounts, NEW other, a # b,
         SameWeights(a, state, b, other), SetStates(a, state, b, other)
  PROVE  Balanced
<1>1. \A c \in Accounts : data'[c] = IF c = b THEN other
                                     ELSE IF c = a THEN state ELSE data[c]
  BY DEF Inv, AccountsOK, SetStates
<1>2. b \in Holders
  BY WalletHolds
<1>3. \A v \in Voters : WeightAt(data', a, v) + WeightAt(data', b, v)
                          = WeightAt(data, a, v) + WeightAt(data, b, v)
  BY <1>1 DEF WeightAt, SameWeights
<1>. QED
  BY <1>1, <1>2, <1>3 DEF Balanced

\* Data without a delegation weighs nothing, nor does one that is not whole.
LEMMA NoWeight ==
  ASSUME NEW state, state.kind # "Stake" \/ ~Whole(state.stake)
  PROVE  \A v : Weight(state, v) = 0
BY DEF Weight

\* What is effective is whole, and what is not weighs nothing.
LEMMA EffectiveIsWhole ==
  ASSUME Inv, AllWhole, NEW a \in Accounts, IsStake(a)
  PROVE  Whole(data[a].stake) <=> Status(a).effective # 0
<1>1. data[a].stake.stake # 0
  BY StatusOK
<1>. QED
  BY <1>1 DEF AllWhole, StakeAccounts

\* An account without locked stake weighs nothing.
LEMMA FreeHasNoWeight ==
  ASSUME Inv, AllWhole, NEW a \in Accounts, Lock(TRUE, data[a]) = 0
  PROVE  \A v : Weight(data[a], v) = 0
<1>1. CASE IsStake(a)
  <2>1. Status(a).effective = 0
    <3>1. data[a].stake.stake # 0
      BY <1>1, StatusOK
    <3>. QED
      BY <1>1, <3>1 DEF Lock, IsStake, Status
  <2>. QED
    BY <1>1, <2>1, EffectiveIsWhole, NoWeight
<1>2. CASE ~IsStake(a)
  BY <1>2, NoWeight DEF IsStake
<1>. QED
  BY <1>1, <1>2

\* So data without a delegation may take its place.
LEMMA FreeingBalances ==
  ASSUME Inv, AllWhole, NEW a \in Accounts, Lock(TRUE, data[a]) = 0,
         NEW state, state.kind # "Stake", SetState(a, state)
  PROVE  Balanced
<1>1. SameWeight(a, state)
  BY FreeHasNoWeight, NoWeight DEF SameWeight
<1>. QED
  BY <1>1, WriteBalances

\* What a delegation weighs that has the validator and the epochs of another.
LEMMA WeightOfPart ==
  ASSUME NEW d, NEW state, state.kind = "Stake",
         state.stake.voter_pubkey = d.voter_pubkey,
         state.stake.activation_epoch = d.activation_epoch,
         state.stake.deactivation_epoch = d.deactivation_epoch, NEW v
  PROVE  Weight(state, v) = IF d.voter_pubkey = v /\ Whole(d) THEN state.stake.stake ELSE 0
BY DEF Weight, Whole

LEMMA MetaWriteBalances ==
  ASSUME Inv, NEW a \in Accounts, HasMeta(data[a]), NEW meta,
         SetState(a, [data[a] EXCEPT !.meta = meta])
  PROVE  Balanced
<1>. DEFINE state == [data[a] EXCEPT !.meta = meta]
<1>1. state.kind = data[a].kind /\ (state.kind = "Stake" => state.stake = data[a].stake)
  <2>1. data[a] \in AccountData
    BY AccountOK
  <2>2. CASE data[a].kind = "Stake"
    BY <2>1, <2>2, StakeData
  <2>3. CASE data[a].kind = "Initialized"
    BY <2>1, <2>3 DEF AccountData, StakeStateV2, Uninitialized, NoAccount, Closed
  <2>. QED
    BY <2>2, <2>3 DEF HasMeta
<1>. HIDE DEF state
<1>2. SameWeight(a, state)
  BY <1>1 DEF SameWeight, Weight
<1>. QED
  BY <1>2, WriteBalances DEF state

\* A delegation of this epoch weighs nothing yet; a rescinded deactivation of
\* this epoch has not taken anything.
LEMMA DelegateBalances ==
  ASSUME Inv, AllWhole, NEW S, NEW a \in Accounts, NEW u \in Voters, Delegate(S, a, u)
  PROVE  Balanced
<1>. DEFINE stake == data[a].stake
            fresh == NewStake(SatSub(lamports[a], rent), u, Credits(u), clock.epoch)
            started == Staked(data[a].meta, fresh)
            rescinded == [data[a] EXCEPT !.stake.deactivation_epoch = Never]
<1>1. /\ \/ /\ IsStake(a) => Status(a).effective = 0
            /\ SetState(a, started)
         \/ /\ IsStake(a) /\ clock.epoch = stake.deactivation_epoch
            /\ SetState(a, rescinded)
  BY DEF Delegate, MayRescind
<1>2. clock.epoch \in Nat /\ clock.epoch <= Never
  <2>1. clock.epoch \in 0..MaxEpoch
    BY DEF Inv, SysvarsOK, Clock
  <2>. QED
    BY <2>1, NumbersOK DEF Never
<1>3. CASE (IsStake(a) => Status(a).effective = 0) /\ SetState(a, started)
  <2>1. started.kind = "Stake" /\ started.stake.activation_epoch = clock.epoch
    BY DEF Staked, NewStake
  <2>2. \A v : Weight(started, v) = 0
    BY <1>2, <2>1, NoWeight DEF Whole
  <2>3. \A v : Weight(data[a], v) = 0
    BY <1>3, EffectiveIsWhole, NoWeight DEF IsStake
  <2>. HIDE DEF started
  <2>. QED
    BY <1>3, <2>2, <2>3, WriteBalances DEF SameWeight
<1>4. CASE /\ IsStake(a) /\ clock.epoch = stake.deactivation_epoch
           /\ SetState(a, rescinded)
  <2>1. /\ stake \in Stake
        /\ data[a] = [kind |-> "Stake", meta |-> data[a].meta, stake |-> stake]
    BY <1>4, AccountOK, StakeData DEF IsStake
  <2>2. /\ rescinded.kind = "Stake"
        /\ rescinded.stake.voter_pubkey = stake.voter_pubkey
        /\ rescinded.stake.stake = stake.stake
        /\ rescinded.stake.activation_epoch = stake.activation_epoch
        /\ rescinded.stake.deactivation_epoch = Never
    BY <2>1 DEF Stake
  <2>. HIDE DEF rescinded
  <2>3. Whole(rescinded.stake) <=> Whole(stake)
    BY <1>2, <1>4, <2>2 DEF Whole
  <2>4. SameWeight(a, rescinded)
    BY <1>4, <2>2, <2>3 DEF SameWeight, Weight, IsStake
  <2>. QED
    BY <1>4, <2>4, WriteBalances
<1>. HIDE DEF started, rescinded
<1>. QED
  BY <1>1, <1>3, <1>4

\* What is deactivated in this epoch weighs what it did until the epoch ends.
LEMMA DeactivateBalances ==
  ASSUME Inv, NEW a \in Accounts, IsStake(a), DoDeactivate(a)
  PROVE  Balanced
<1>. DEFINE stake == data[a].stake
            state == [data[a] EXCEPT !.stake.deactivation_epoch = clock.epoch]
<1>1. stake.deactivation_epoch = Never /\ SetState(a, state)
  BY DEF DoDeactivate
<1>2. clock.epoch \in Nat /\ clock.epoch <= Never
  <2>1. clock.epoch \in 0..MaxEpoch
    BY DEF Inv, SysvarsOK, Clock
  <2>. QED
    BY <2>1, NumbersOK DEF Never
<1>3. /\ stake \in Stake
      /\ data[a] = [kind |-> "Stake", meta |-> data[a].meta, stake |-> stake]
  BY AccountOK, StakeData DEF IsStake
<1>4. /\ state.kind = "Stake"
      /\ state.stake.voter_pubkey = stake.voter_pubkey
      /\ state.stake.stake = stake.stake
      /\ state.stake.activation_epoch = stake.activation_epoch
      /\ state.stake.deactivation_epoch = clock.epoch
  BY <1>3 DEF Stake
<1>. HIDE DEF state
<1>5. Whole(state.stake) <=> Whole(stake)
  BY <1>1, <1>2, <1>4 DEF Whole
<1>6. SameWeight(a, state)
  BY <1>4, <1>5 DEF SameWeight, Weight, IsStake
<1>. QED
  BY <1>1, <1>6, WriteBalances

\* A full split moves a delegation as it is.
LEMMA SplitFullBalances ==
  ASSUME Inv, NEW S, NEW from \in Accounts, NEW to \in Accounts, NEW n \in Nat,
         SplitFull(S, from, to, n)
  PROVE  Balanced
<1>1. /\ from # to /\ data[to] = Uninitialized
      /\ SetStates(to, data[from], from, Closed)
  BY DEF SplitFull, SplitChecks
<1>2. (\A v : Weight(Closed, v) = 0) /\ (\A v : Weight(Uninitialized, v) = 0)
  BY NoWeight DEF Closed, Uninitialized
<1>3. \A v : Weight(data[from], v) \in Nat
  BY AccountOK, WeightOK
<1>4. SameWeights(to, data[from], from, Closed)
  BY <1>1, <1>2, <1>3 DEF SameWeights
<1>. QED
  BY <1>1, <1>4, WritesBalance

\* Of inactive stake a copy may be made: neither weighs anything.
LEMMA SplitInactiveBalances ==
  ASSUME Inv, AllWhole, NEW S, NEW from \in Accounts, NEW to \in Accounts, NEW n \in Nat,
         SplitInactive(S, from, to, n)
  PROVE  Balanced
<1>1. /\ data[to] = Uninitialized /\ ~IsActiveOrActivating(from)
      /\ SetState(to, data[from])
  BY DEF SplitInactive, SplitChecks
<1>2. \A v : Weight(Uninitialized, v) = 0
  BY NoWeight DEF Uninitialized
<1>3. \A v : Weight(data[from], v) = 0
  BY <1>1, IdleIsFree, FreeHasNoWeight
<1>4. SameWeight(to, data[from])
  BY <1>1, <1>2, <1>3 DEF SameWeight
<1>. QED
  BY <1>1, <1>4, WriteBalances

\* What an account weighs after its delegation was given another amount.
LEMMA WeightOfAmount ==
  ASSUME Inv, NEW a \in Accounts, IsStake(a), NEW amount \in U64
  PROVE  LET d == data[a].stake
             weight(v) == IF d.voter_pubkey = v /\ Whole(d) THEN amount ELSE 0
         IN  /\ \A v : Weight([data[a] EXCEPT !.stake.stake = amount], v) = weight(v)
             /\ \A meta, v :
                   Weight(Staked(meta, [d EXCEPT !.stake = amount]), v) = weight(v)
<1>. DEFINE d == data[a].stake
            e == [d EXCEPT !.stake = amount]
            weight(v) == IF d.voter_pubkey = v /\ Whole(d) THEN amount ELSE 0
<1>1. /\ [data[a] EXCEPT !.stake.stake = amount] = Staked(data[a].meta, e)
      /\ e.stake = amount
      /\ e.voter_pubkey = d.voter_pubkey
      /\ e.activation_epoch = d.activation_epoch
      /\ e.deactivation_epoch = d.deactivation_epoch
  BY OtherAmount
<1>. HIDE DEF e, d
<1>2. ASSUME NEW meta, NEW v PROVE Weight(Staked(meta, e), v) = weight(v)
  <2>. DEFINE state == Staked(meta, e)
  <2>1. state.kind = "Stake" /\ state.stake = e
    BY DEF Staked
  <2>. HIDE DEF state
  <2>2. Weight(state, v) = IF d.voter_pubkey = v /\ Whole(d) THEN state.stake.stake ELSE 0
    BY <1>1, <2>1, WeightOfPart
  <2>. QED
    BY <1>1, <2>1, <2>2 DEF state
<1>. HIDE DEF weight
<1>3. /\ \A v : Weight([data[a] EXCEPT !.stake.stake = amount], v) = weight(v)
      /\ \A meta, v : Weight(Staked(meta, e), v) = weight(v)
  BY <1>1, <1>2
<1>. QED
  BY <1>3 DEF d, e, weight

\* A split of active stake shares out what it weighs.
LEMMA SplitActiveBalances ==
  ASSUME Inv, NEW S, NEW from \in Accounts, NEW to \in Accounts, NEW n \in Nat,
         SplitActive(S, from, to, n)
  PROVE  Balanced
<1>. DEFINE amount == data[from].stake.stake
            rest == amount - n
            source == [data[from] EXCEPT !.stake.stake = rest]
            target == [data[from] EXCEPT !.stake.stake = n]
            counts(v) == data[from].stake.voter_pubkey = v /\ Whole(data[from].stake)
<1>1. /\ from # to /\ data[to] = Uninitialized /\ IsStake(from) /\ amount >= n
      /\ SetStates(from, source, to, target)
  BY DEF SplitActive, SplitChecks, IsActiveOrActivating
<1>2. amount \in U64 /\ n \in U64 /\ rest \in U64 /\ amount \in Nat
  <2>1. amount \in U64
    BY <1>1, DelegationOK DEF Stake, Lamports
  <2>. QED
    BY <1>1, <2>1, NumbersOK DEF U64
<1>3. \A v : /\ Weight(data[to], v) = 0
             /\ Weight(data[from], v) = IF counts(v) THEN amount ELSE 0
  BY <1>1, NoWeight DEF Uninitialized, Weight, IsStake
<1>. HIDE DEF rest
<1>4. \A v : /\ Weight(source, v) = IF counts(v) THEN rest ELSE 0
             /\ Weight(target, v) = IF counts(v) THEN n ELSE 0
  BY <1>1, <1>2, WeightOfAmount
<1>5. rest + n = amount
  BY <1>2 DEF rest
<1>. HIDE DEF source, target, amount
<1>6. SameWeights(from, source, to, target)
  BY <1>2, <1>3, <1>4, <1>5 DEF SameWeights
<1>. QED
  BY <1>1, <1>6, WritesBalance

\* Stake that is merged while it does not weigh anything does not either when
\* it is merged; stake in force adds up.
LEMMA MergeBalances ==
  ASSUME Inv, Inv', AllWhole, NEW S, NEW from \in Accounts, NEW to \in Accounts,
         Merge(S, to, from)
  PROVE  Balanced
<1>. DEFINE dk == Kind(to)
            sk == Kind(from)
            held == lamports[from]
            absorbed == Absorbed(data[from], sk, held)
            seen == data[from].stake.credits_observed
            target == Merged(data[to], dk, data[from], sk, held)
<1>1. /\ from # to /\ HasMeta(data[to]) /\ HasMeta(data[from])
      /\ KindsCanMerge(dk, sk)
      /\ (dk # "Inactive" /\ sk # "Inactive" =>
            ActiveDelegationsCanMerge(data[to].stake, data[from].stake))
      /\ SetStates(to, target, from, Closed)
  BY DEF Merge, Mergeable, CanMerge
<1>2. \A v : Weight(Closed, v) = 0
  BY NoWeight DEF Closed
<1>3. ASSUME NEW a \in Accounts, HasMeta(data[a]), Kind(a) \in {"Inactive", "ActivationEpoch"}
      PROVE  \A v : Weight(data[a], v) = 0
  <2>1. CASE Kind(a) = "Inactive"
    BY <1>3, <2>1, InactiveIsFree, FreeHasNoWeight
  <2>2. CASE Kind(a) = "ActivationEpoch"
    BY <1>3, <2>2, KindEffective, EffectiveIsWhole, NoWeight
  <2>. QED
    BY <1>3, <2>1, <2>2
<1>4. SameWeights(to, target, from, Closed)
  <2>1. CASE dk = "Inactive"
    <3>1. target = data[to]
      BY <2>1 DEF Merged
    <3>2. \A v : Weight(data[from], v) = 0
      BY <1>1, <1>3, <2>1 DEF KindsCanMerge
    <3>. HIDE DEF target
    <3>. QED
      BY <1>2, <3>1, <3>2 DEF SameWeights
  <2>2. CASE dk = "ActivationEpoch"
    <3>1. /\ \A v : Weight(data[to], v) = 0
          /\ \A v : Weight(data[from], v) = 0
      BY <1>1, <1>3, <2>2 DEF KindsCanMerge
    <3>2. IsStake(to) /\ ~Whole(data[to].stake)
      BY <1>1, <2>2, KindEffective, EffectiveIsWhole
    <3>3. /\ data[to].stake \in Stake
          /\ data[to] = [kind |-> "Stake", meta |-> data[to].meta,
                         stake |-> data[to].stake]
      BY <3>2, AccountOK, StakeData DEF IsStake
    <3>4. \E amount, credits :
             target.stake = [data[to].stake EXCEPT !.stake = amount,
                                                   !.credits_observed = credits]
      <4>1. CASE sk = "Inactive"
        <5>1. target = [data[to] EXCEPT !.stake.stake = data[to].stake.stake + held]
          BY <2>2, <4>1 DEF Merged
        <5>. HIDE DEF held, target
        <5>2. target.stake = [data[to].stake EXCEPT !.stake = data[to].stake.stake + held]
          BY <3>3, <5>1
        <5>3. target.stake = [data[to].stake EXCEPT
                                 !.stake = data[to].stake.stake + held,
                                 !.credits_observed = data[to].stake.credits_observed]
          BY <3>3, <5>2 DEF Stake
        <5>. QED
          BY <5>3
      <4>2. CASE sk # "Inactive"
        <5>1. target = [data[to] EXCEPT !.stake = Absorb(data[to].stake, absorbed, seen)]
          BY <2>2, <4>2 DEF Merged
        <5>. HIDE DEF target, absorbed, seen
        <5>2. target.stake = Absorb(data[to].stake, absorbed, seen)
          BY <3>3, <5>1
        <5>. QED
          BY <5>2 DEF Absorb
      <4>. QED
        BY <4>1, <4>2
    <3>. HIDE DEF target
    <3>5. ~Whole(target.stake)
      BY <3>2, <3>3, <3>4 DEF Whole, Stake
    <3>6. \A v : Weight(target, v) = 0
      BY <3>5, NoWeight
    <3>. QED
      BY <1>2, <3>1, <3>6 DEF SameWeights
  <2>3. CASE dk = "FullyActive" /\ sk = "FullyActive"
    <3>1. /\ IsStake(to) /\ IsStake(from)
          /\ Whole(data[to].stake) /\ Whole(data[from].stake)
          /\ data[to].stake.voter_pubkey = data[from].stake.voter_pubkey
      BY <1>1, <2>3, KindEffective, EffectiveIsWhole DEF ActiveDelegationsCanMerge
    <3>2. /\ data[to].stake \in Stake
          /\ data[to] = [kind |-> "Stake", meta |-> data[to].meta,
                         stake |-> data[to].stake]
      BY <3>1, AccountOK, StakeData DEF IsStake
    <3>3. /\ target.kind = "Stake"
          /\ target.stake = Absorb(data[to].stake, absorbed, seen)
      <4>1. target = [data[to] EXCEPT !.stake = Absorb(data[to].stake, absorbed, seen)]
        BY <2>3 DEF Merged
      <4>. HIDE DEF target, absorbed, seen
      <4>. QED
        BY <3>2, <4>1
    <3>4. absorbed = data[from].stake.stake
      BY <2>3 DEF Absorbed
    <3>. HIDE DEF target, absorbed
    <3>5. /\ target.stake.voter_pubkey = data[to].stake.voter_pubkey
          /\ target.stake.activation_epoch = data[to].stake.activation_epoch
          /\ target.stake.deactivation_epoch = data[to].stake.deactivation_epoch
          /\ target.stake.stake = data[to].stake.stake + data[from].stake.stake
      BY <3>2, <3>3, <3>4 DEF Absorb, Stake
    <3>6. data[to].stake.stake \in Nat /\ data[from].stake.stake \in Nat
      BY <3>1, StatusOK
    <3>7. \A v : LET weighs == data[to].stake.voter_pubkey = v
                 IN  /\ Weight(target, v) = IF weighs THEN target.stake.stake ELSE 0
                     /\ Weight(data[to], v) = IF weighs THEN data[to].stake.stake ELSE 0
                     /\ Weight(data[from], v) = IF weighs THEN data[from].stake.stake ELSE 0
      BY <3>1, <3>3, <3>5 DEF Weight, Whole, IsStake
    <3>. QED
      BY <1>2, <3>5, <3>6, <3>7 DEF SameWeights
  <2>. QED
    BY <1>1, <2>1, <2>2, <2>3 DEF KindsCanMerge
<1>. HIDE DEF target
<1>. QED
  BY <1>1, <1>4, WritesBalance

\* MoveStake moves what n lamports in force weigh, to the same validator.
LEMMA MoveStakeBalances ==
  ASSUME Inv, Inv', AllWhole, NEW S, NEW from \in Accounts, NEW to \in Accounts,
         NEW n \in Nat, MoveStake(S, from, to, n)
  PROVE  Balanced
<1>. DEFINE amount == data[from].stake.stake
            rest == amount - n
            source == Remainder(from, n)
            target == Moved(from, to, n)
            u == data[from].stake.voter_pubkey
<1>1. /\ from # to /\ HasMeta(data[to]) /\ HasMeta(data[from])
      /\ Kind(from) = "FullyActive" /\ amount >= n
      /\ \/ Kind(to) = "FullyActive" /\ u = data[to].stake.voter_pubkey
         \/ Kind(to) = "Inactive"
      /\ SetStates(to, target, from, source)
  BY DEF MoveStake, MoveStakeChecks, MoveChecks, Mergeable
<1>2. IsStake(from) /\ Whole(data[from].stake)
  BY <1>1, KindEffective, EffectiveIsWhole
<1>3. amount \in Nat /\ n \in U64 /\ rest \in U64 /\ rest \in Nat
  <2>1. amount \in U64
    BY <1>2, DelegationOK DEF Stake, Lamports
  <2>. QED
    BY <1>1, <2>1, NumbersOK DEF U64
<1>4. \A v : Weight(data[from], v) = IF u = v THEN amount ELSE 0
  BY <1>2 DEF Weight, IsStake
<1>5. \A v : Weight(source, v) = IF u = v THEN rest ELSE 0
  <2>1. CASE amount = n
    <3>1. source = Initialized(data[from].meta) /\ rest = 0
      BY <1>3, <2>1 DEF Remainder
    <3>2. \A v : Weight(source, v) = 0
      BY <3>1, NoWeight DEF Initialized
    <3>. HIDE DEF source, rest
    <3>. QED
      BY <3>1, <3>2
  <2>2. CASE amount # n
    <3>1. source = [data[from] EXCEPT !.stake.stake = rest]
      BY <2>2 DEF Remainder
    <3>. HIDE DEF source, rest
    <3>. QED
      BY <1>2, <1>3, <3>1, WeightOfAmount
  <2>. QED
    BY <2>1, <2>2
<1>6. \A v : /\ Weight(data[to], v) \in Nat
             /\ Weight(target, v) = Weight(data[to], v) + (IF u = v THEN n ELSE 0)
  <2>1. CASE Kind(to) = "FullyActive"
    <3>1. /\ IsStake(to) /\ Whole(data[to].stake)
          /\ u = data[to].stake.voter_pubkey
      BY <1>1, <2>1, KindEffective, EffectiveIsWhole
    <3>2. /\ data[to].stake \in Stake /\ data[to].stake.stake \in Nat
          /\ data[to] = [kind |-> "Stake", meta |-> data[to].meta,
                         stake |-> data[to].stake]
      BY <3>1, AccountOK, StakeData, StatusOK DEF IsStake
    <3>3. target = [data[to] EXCEPT !.stake =
                      Absorb(data[to].stake, n, data[from].stake.credits_observed)]
      BY <2>1 DEF Moved
    <3>. DEFINE seen == data[from].stake.credits_observed
    <3>. HIDE DEF target, u, seen
    <3>4. /\ target.kind = "Stake"
          /\ target.stake = Absorb(data[to].stake, n, seen)
      BY <3>2, <3>3 DEF seen
    <3>5. /\ target.kind = "Stake"
          /\ target.stake.voter_pubkey = data[to].stake.voter_pubkey
          /\ target.stake.activation_epoch = data[to].stake.activation_epoch
          /\ target.stake.deactivation_epoch = data[to].stake.deactivation_epoch
          /\ target.stake.stake = data[to].stake.stake + n
      BY <3>2, <3>4 DEF Absorb, Stake
    <3>6. \A v : /\ Weight(target, v) = IF u = v THEN data[to].stake.stake + n ELSE 0
                 /\ Weight(data[to], v) = IF u = v THEN data[to].stake.stake ELSE 0
      BY <3>1, <3>5 DEF Weight, Whole, IsStake
    <3>. QED
      BY <3>2, <3>6
  <2>2. CASE Kind(to) = "Inactive"
    <3>1. target = Staked(data[to].meta, [data[from].stake EXCEPT !.stake = n])
      BY <2>2 DEF Moved
    <3>2. \A v : Weight(data[to], v) = 0
      BY <1>1, <2>2, InactiveIsFree, FreeHasNoWeight
    <3>3. \A v : Weight(target, v) = IF u = v THEN n ELSE 0
      <4>. DEFINE d == data[from].stake
                  weight(v) == IF d.voter_pubkey = v /\ Whole(d) THEN n ELSE 0
      <4>1. \A meta, v : Weight(Staked(meta, [d EXCEPT !.stake = n]), v) = weight(v)
        BY <1>2, <1>3, WeightOfAmount
      <4>2. \A v : weight(v) = IF u = v THEN n ELSE 0
        BY <1>2
      <4>3. target = Staked(data[to].meta, [d EXCEPT !.stake = n])
        BY <3>1
      <4>. HIDE DEF target, u, d, weight
      <4>. QED
        BY <4>1, <4>2, <4>3
    <3>. HIDE DEF target
    <3>. QED
      BY <3>2, <3>3
  <2>. QED
    BY <1>1, <2>1, <2>2
<1>7. rest + n = amount
  BY <1>3
<1>. HIDE DEF source, target, amount, rest, u
<1>8. SameWeights(to, target, from, source)
  <2>. SUFFICES ASSUME NEW v \in Voters
                PROVE  Weight(target, v) + Weight(source, v)
                         = Weight(data[to], v) + Weight(data[from], v)
    BY DEF SameWeights
  <2>1. /\ Weight(data[from], v) = (IF u = v THEN amount ELSE 0)
        /\ Weight(source, v) = (IF u = v THEN rest ELSE 0)
        /\ Weight(data[to], v) \in Nat
        /\ Weight(target, v) = Weight(data[to], v) + (IF u = v THEN n ELSE 0)
    BY <1>4, <1>5, <1>6
  <2>. QED
    BY <1>3, <1>7, <2>1
<1>. QED
  BY <1>1, <1>8, WritesBalance

LEMMA ProcessBalances ==
  ASSUME Inv, Inv', AllWhole, NEW S, Process(S)
  PROVE  Balanced \/ data' = data
<1>. PICK a \in Accounts :
        \/ Initialize(a)
        \/ InitializeChecked(S, a)
        \/ Authorize(S, a)
        \/ AuthorizeChecked(S, a)
        \/ AuthorizeWithSeed(S, a)
        \/ AuthorizeCheckedWithSeed(S, a)
        \/ SetLockup(S, a)
        \/ SetLockupChecked(S, a)
        \/ \E v \in Voters : Delegate(S, a, v)
        \/ Deactivate(S, a)
        \/ \E delinquent, reference \in Voters :
              DeactivateDelinquent(a, delinquent, reference)
        \/ \E to \in Holders : Withdraw(S, a, to)
        \/ \E to \in Accounts : Merge(S, to, a)
        \/ \E to \in Accounts : \E n \in Amounts \cup {lamports[a]} :
              \/ SplitFull(S, a, to, n)
              \/ SplitInactive(S, a, to, n)
              \/ SplitActive(S, a, to, n)
              \/ MoveStake(S, a, to, n)
              \/ MoveLamports(S, a, to, n)
  BY Zenon DEF Process
<1>1. CASE Initialize(a) \/ InitializeChecked(S, a)
  <2>1. PICK staker, withdrawer, lockup : DoInitialize(a, staker, withdrawer, lockup)
    BY <1>1 DEF Initialize, InitializeChecked
  <2>. DEFINE state == Initialized([staker |-> staker, withdrawer |-> withdrawer,
                                    lockup |-> lockup])
  <2>2. SetState(a, state) /\ data[a] = Uninitialized
    BY <2>1 DEF DoInitialize
  <2>3. state.kind # "Stake" /\ Lock(TRUE, data[a]) = 0
    BY <2>2 DEF Initialized, Uninitialized, Lock
  <2>. HIDE DEF state
  <2>. QED
    BY <2>2, <2>3, FreeingBalances
<1>2. ASSUME NEW signers, NEW new, NEW who, NEW custodian,
             DoAuthorize(a, signers, new, who, custodian)
      PROVE  Balanced
  <2>. DEFINE meta == WithAuthority(data[a].meta, who, new)
  <2>1. HasMeta(data[a]) /\ SetState(a, [data[a] EXCEPT !.meta = meta])
    BY <1>2 DEF DoAuthorize
  <2>. HIDE DEF meta
  <2>. QED
    BY <2>1, MetaWriteBalances
<1>3. CASE \/ Authorize(S, a) \/ AuthorizeChecked(S, a)
           \/ AuthorizeWithSeed(S, a) \/ AuthorizeCheckedWithSeed(S, a)
  BY <1>2, <1>3
     DEF Authorize, AuthorizeChecked, AuthorizeWithSeed, AuthorizeCheckedWithSeed
<1>4. ASSUME NEW args, DoSetLockup(a, S, args)
      PROVE  Balanced
  <2>. DEFINE meta == WithLockup(data[a].meta, args)
  <2>1. HasMeta(data[a]) /\ SetState(a, [data[a] EXCEPT !.meta = meta])
    BY <1>4 DEF DoSetLockup
  <2>. HIDE DEF meta
  <2>. QED
    BY <2>1, MetaWriteBalances
<1>5. CASE SetLockup(S, a) \/ SetLockupChecked(S, a)
  BY <1>4, <1>5 DEF SetLockup, SetLockupChecked
<1>6. CASE \E v \in Voters : Delegate(S, a, v)
  BY <1>6, DelegateBalances
<1>7. CASE \/ Deactivate(S, a)
           \/ \E delinquent, reference \in Voters :
                 DeactivateDelinquent(a, delinquent, reference)
  BY <1>7, DeactivateBalances DEF Deactivate, DeactivateDelinquent
<1>8. CASE \E to \in Holders : Withdraw(S, a, to)
  <2>1. \/ SetState(a, Closed) /\ LockedStake(a) = 0
        \/ data' = data
    BY <1>8 DEF Withdraw, WithdrawAll, WithdrawPart
  <2>2. Closed.kind # "Stake"
    BY DEF Closed
  <2>. QED
    BY <2>1, <2>2, LockedStakeIsLock, FreeingBalances
<1>9. CASE \E to \in Accounts : Merge(S, to, a)
  BY <1>9, MergeBalances
<1>10. CASE \E to \in Accounts : \E n \in Amounts \cup {lamports[a]} :
               \/ SplitFull(S, a, to, n)
               \/ SplitInactive(S, a, to, n)
               \/ SplitActive(S, a, to, n)
               \/ MoveStake(S, a, to, n)
               \/ MoveLamports(S, a, to, n)
  <2>1. PICK to \in Accounts, n \in Amounts \cup {lamports[a]} :
               \/ SplitFull(S, a, to, n)
               \/ SplitInactive(S, a, to, n)
               \/ SplitActive(S, a, to, n)
               \/ MoveStake(S, a, to, n)
               \/ MoveLamports(S, a, to, n)
    BY <1>10
  <2>2. n \in Nat
    BY InputsOK, AccountOK
  <2>3. CASE MoveLamports(S, a, to, n)
    BY <2>3 DEF MoveLamports
  <2>. QED
    BY <2>1, <2>2, <2>3, SplitFullBalances, SplitInactiveBalances, SplitActiveBalances,
       MoveStakeBalances
<1>. QED
  BY <1>1, <1>3, <1>5, <1>6, <1>7, <1>8, <1>9, <1>10

\* An account that vanishes holds nothing, so nothing of it was effective.
LEMMA StepBalances ==
  ASSUME Inv, Inv', AllWhole, EffectiveStakeBacked, [Next]_vars
  PROVE  Balanced \/ data' = data
<1>1. ASSUME NEW S \in SignerSets, Process(S)
      PROVE  Balanced \/ data' = data
  BY <1>1, ProcessBalances
<1>2. ASSUME NEW a \in Accounts, CreateAccount(a) \/ Reap(a)
      PROVE  Balanced
  <2>1. PICK state \in {Uninitialized, NoAccount} :
           /\ SetState(a, state)
           /\ data[a] = NoAccount \/ lamports[a] = 0
    BY <1>2 DEF CreateAccount, Reap
  <2>2. state.kind # "Stake" /\ NoAccount.kind # "Stake"
    BY DEF Uninitialized, NoAccount
  <2>3. IsStake(a) => Status(a).effective = 0
    <3>1. IsStake(a) => lamports[a] = 0
      BY <2>1, <2>2 DEF IsStake
    <3>2. IsStake(a) => Status(a).effective \in Nat /\ lamports[a] >= Status(a).effective
      BY StatusOK DEF EffectiveStakeBacked, StakeAccounts
    <3>. QED
      BY <3>1, <3>2
  <2>4. SameWeight(a, state)
    <3>1. \A v : Weight(data[a], v) = 0
      BY <2>3, EffectiveIsWhole, NoWeight DEF IsStake
    <3>. QED
      BY <2>2, <3>1, NoWeight DEF SameWeight
  <2>. QED
    BY <2>1, <2>4, WriteBalances
<1>3. CASE \/ \E a \in Accounts, n \in Amounts : Deposit(a, n)
           \/ AdvanceEpoch \/ EndRewards \/ AdvanceTime \/ ChangeRent
           \/ \E v \in Voters : Vote(v)
           \/ UNCHANGED vars
  BY <1>3 DEF Deposit, AdvanceEpoch, EndRewards, AdvanceTime, ChangeRent, Vote, vars
<1>. QED
  BY <1>1, <1>2, <1>3, Zenon DEF Next, Runtime

-----------------------------------------------------------------------------
(* What follows for epochs that limit no account.                          *)

\* What does not depend on the rate.
Counted == StartCounted /\ LamportsKept /\ AmountsKept

LEMMA CountedKept == Spec => []Counted
<1>1. Init => Counted
  BY InitialLamports
     DEF Init, Counted, StartCounted, AmountsKept, StakeAccounts, IsStake, NoAccount
<1>2. Inv /\ Inv' /\ Counted /\ [Next]_vars => Counted'
  BY StartCountedKept, LamportsStay, AmountsStay DEF Counted
<1>. QED
  BY <1>1, <1>2, Invariance, PTL DEF Spec

(***************************************************************************)
(* Where no epoch limits an account, all stake has warmed up by the epoch  *)
(* after its activation: this is what the theorems about deactivated stake *)
(* assume.                                                                 *)
(***************************************************************************)
THEOREM InTimeWhileUnlimited == Spec /\ []Unlimited => []WarmedUpInTime
<1>1. Inv /\ Counted /\ Unlimited => WarmedUpInTime
  BY WholeInTime DEF Counted
<1>. QED
  BY <1>1, Invariance, CountedKept, PTL

(***************************************************************************)
(* Within an epoch no sequence of instructions changes the effective stake *)
(* of a validator by a single lamport, as long as the warmup and cooldown  *)
(* rate has limited no account: merging, moving, splitting, delegating,    *)
(* rescinding, withdrawing and closing accounts neither activate stake at  *)
(* once nor take any from the vote.                                        *)
(***************************************************************************)
THEOREM EffectiveKeptFixed ==
  ASSUME 0 \notin RentValues
  PROVE  Spec /\ []Unlimited => EffectiveFixedInEpoch
<1>. DEFINE A == clock' = clock /\ data' # data =>
                    \A v \in Voters :
                       EffectiveOf(v)' - EffectiveOf(v) \in -RoundingSlack..RoundingSlack
<1>1. Init => CoolCounted
  BY DEF Init, CoolCounted, StakeAccounts, IsStake, NoAccount
<1>2. Inv /\ CoolCounted /\ WarmedUpInTime /\ [Next]_vars => CoolCounted'
  BY CoolCountedKept
<1>3. Inv /\ Counted /\ CoolCounted /\ Unlimited => AllWhole
  BY AllAreWhole DEF Counted
<1>4. ASSUME Inv, Inv', AllWhole, AllWhole', EffectiveStakeBacked, [Next]_vars,
             clock' = clock, data' # data, NEW v \in Voters
      PROVE  EffectiveOf(v)' - EffectiveOf(v) \in -RoundingSlack..RoundingSlack
  <2>1. Balanced
    BY <1>4, StepBalances
  <2>2. EffectiveOf(v)' - EffectiveOf(v) = 0
    BY <1>4, <2>1, EffectiveStays
  <2>. QED
    BY <2>2, RoundingConstants
<1>5. Inv /\ Inv' /\ AllWhole /\ AllWhole' /\ EffectiveStakeBacked /\ [Next]_vars => [A]_vars
  BY <1>4
<1>6. EffectiveFixedInEpoch <=> [][A]_vars
  BY DEF EffectiveFixedInEpoch
<1>7. Spec /\ []WarmedUpInTime => []EffectiveStakeBacked
  BY EffectiveKeptBacked
<1>. HIDE DEF A
<1>. QED
  BY <1>1, <1>2, <1>3, <1>5, <1>6, <1>7, InTimeWhileUnlimited, Invariance, CountedKept,
     PTL DEF Spec

(***************************************************************************)
(* The modelled accounts are a small part of the cluster: if all lamports  *)
(* there are moved at once, on top of what else may move in an epoch, the  *)
(* rate would still not limit any account.                                 *)
(***************************************************************************)
LargeCluster ==
    \A b \in Background :
        /\ Ample(b.activating + Supply, b.effective, Supply)
        /\ Ample(b.deactivating + Supply, b.effective, Supply)

\* Less that moves, in a larger cluster, is limited no more.
LEMMA AmpleKept ==
  ASSUME NEW moving \in Nat, NEW effective \in Nat, NEW most \in Nat,
         NEW less \in 0..moving, NEW more \in Nat, effective <= more,
         Ample(moving, effective, most)
  PROVE  Ample(less, more, most)
<1>1. BasisPoints \in Nat /\ RateBps \in Nat /\ MaxU128 \in Nat
  BY ActivationConstants
<1>. DEFINE lessPoints == less * BasisPoints
            points == moving * BasisPoints
            rate == effective * RateBps
            moreRate == more * RateBps
<1>2. lessPoints <= points /\ rate <= moreRate
  BY <1>1, ProductsOrdered
<1>3. lessPoints \in Nat /\ points \in Nat /\ rate \in Nat /\ moreRate \in Nat
  BY <1>1, ProductPositive
<1>4. points <= rate /\ most * points <= MaxU128
  BY DEF Ample
<1>. HIDE DEF lessPoints, points, rate, moreRate
<1>5. most * lessPoints <= most * points
  BY <1>2, <1>3, ProductsOrdered
<1>6. most * lessPoints \in Nat /\ most * points \in Nat
  BY <1>3, ProductPositive
<1>7. lessPoints <= moreRate /\ most * lessPoints <= MaxU128
  BY <1>1, <1>2, <1>3, <1>4, <1>5, <1>6
<1>. QED
  BY <1>7 DEF Ample, lessPoints, moreRate

\* No more lamports are effective or move in an epoch than there are.
LEMMA WithinLamports ==
  ASSUME Inv, LamportsKept, EffectiveStakeBacked,
         NEW field \in {"effective", "activating", "deactivating"},
         NEW background \in Entry
  PROVE  ClusterTotal(field, background)
           \in background[field]..(background[field] + Supply)
<1>. DEFINE staked == {a \in Accounts : IsStake(a)}
            f == [a \in staked |-> Status(a)[field]]
            g == lamports
<1>1. \A a \in staked : f[a] \in Nat /\ f[a] <= g[a]
  <2>. SUFFICES ASSUME NEW a \in Accounts, IsStake(a)
                PROVE  Status(a)[field] \in Nat /\ Status(a)[field] <= lamports[a]
    OBVIOUS
  <2>1. /\ Status(a).effective \in Nat /\ Status(a).activating \in Nat
        /\ Status(a).deactivating \in Nat /\ data[a].stake.stake \in Nat
        /\ data[a].stake.deactivation_epoch = Never =>
              Status(a).deactivating = 0
              /\ Status(a).effective + Status(a).activating = data[a].stake.stake
        /\ data[a].stake.deactivation_epoch # Never =>
              Status(a).activating = 0 /\ Status(a).deactivating = Status(a).effective
    BY StatusOK
  <2>2. lamports[a] \in Nat /\ lamports[a] >= Status(a).effective
    BY AccountOK DEF EffectiveStakeBacked, StakeAccounts
  <2>3. data[a].stake.deactivation_epoch = Never => lamports[a] >= data[a].stake.stake
    BY AccountOK DEF Backed, IsStake
  <2>4. Status(a).activating <= lamports[a] /\ Status(a).deactivating <= lamports[a]
    BY <2>1, <2>2, <2>3
  <2>. QED
    BY <2>1, <2>2, <2>4
<1>2. staked \in SUBSET Holders /\ \A h \in Holders : g[h] \in Nat
  BY WalletHolds, Balances
<1>3. Total(g, Holders) = Supply
  BY DEF LamportsKept
<1>4. ClusterTotal(field, background) = background[field] + Total(f, staked)
  <2>1. ClusterTotal(field, background)
          = background[field] + MapThenSumSet(LAMBDA a : Status(a)[field], staked)
    BY DEF ClusterTotal
  <2>. HIDE DEF staked
  <2>. QED
    BY <2>1, TotalIsFold
<1>. HIDE DEF staked, f, g
<1>5. Total(f, staked) <= Total(g, Holders)
  <2>1. \A a \in staked : f[a] \in Int /\ f[a] <= g[a]
    BY <1>1
  <2>. QED
    BY <1>2, <2>1, HoldersFinite, TotalMonotone
<1>6. Total(f, staked) \in Nat
  BY <1>1, <1>2, HoldersFinite, FS_Subset, TotalTyped
<1>7. background[field] \in Nat /\ Supply \in Nat
  BY ProgramConstants, NumbersOK DEF Entry, Lamports, U64
<1>. QED
  BY <1>3, <1>4, <1>5, <1>6, <1>7

\* What is effective in a cluster is at least what is effective outside the model.
LEMMA ClusterGrows ==
  ASSUME Inv, NEW background \in Entry
  PROVE  /\ ClusterTotal("effective", background) \in Nat
         /\ background.effective <= ClusterTotal("effective", background)
<1>. DEFINE staked == {a \in Accounts : IsStake(a)}
            value == [a \in staked |-> Status(a)["effective"]]
<1>1. \A a \in staked : value[a] \in Nat
  BY StatusOK
<1>2. IsFiniteSet(staked)
  BY ProgramConstants, FS_Subset
<1>3. ClusterTotal("effective", background) = background["effective"] + Total(value, staked)
  BY TotalIsFold DEF ClusterTotal
<1>. HIDE DEF value, staked
<1>4. Total(value, staked) \in Nat
  BY <1>1, <1>2, TotalTyped
<1>5. background["effective"] \in Nat
  BY DEF Entry
<1>. QED
  BY <1>3, <1>4, <1>5

\* So no epoch that ends limits an account.
LEMMA UnlimitedKept ==
  ASSUME LargeCluster, Inv, LamportsKept, EffectiveStakeBacked, Unlimited, [Next]_vars
  PROVE  Unlimited'
<1>1. CASE ~AdvanceEpoch
  <2>1. history' = history
    BY <1>1, StepDescends
  <2>. QED
    BY <2>1 DEF Unlimited, AmpleHistory
<1>2. CASE AdvanceEpoch
  <2>. DEFINE entry(b) == [effective    |-> ClusterTotal("effective", b),
                           activating   |-> ClusterTotal("activating", b),
                           deactivating |-> ClusterTotal("deactivating", b)]
              fits(x) == /\ Ample(x.activating, x.effective, Supply)
                         /\ Ample(x.deactivating, x.effective, Supply)
  <2>1. PICK b \in Background :
           history' = [e \in 0..clock.epoch |->
                         IF e < clock.epoch THEN history[e] ELSE entry(b)]
    BY <1>2 DEF AdvanceEpoch
  <2>2. b \in Entry /\ Supply \in Nat
    BY ProgramConstants, NumbersOK DEF Lamports, U64
  <2>3. b.effective \in Nat /\ b.activating \in Nat /\ b.deactivating \in Nat
    BY <2>2 DEF Entry
  <2>4. /\ ClusterTotal("activating", b) \in b.activating..(b.activating + Supply)
        /\ ClusterTotal("deactivating", b) \in b.deactivating..(b.deactivating + Supply)
    <3>1. ASSUME NEW field \in {"activating", "deactivating"}
          PROVE  ClusterTotal(field, b) \in b[field]..(b[field] + Supply)
      BY <2>2, WithinLamports
    <3>. QED
      BY <3>1
  <2>5. ClusterTotal("effective", b) \in Nat /\ b.effective <= ClusterTotal("effective", b)
    BY <2>2, ClusterGrows
  <2>6. fits(entry(b))
    <3>. DEFINE effective == ClusterTotal("effective", b)
                activating == ClusterTotal("activating", b)
                deactivating == ClusterTotal("deactivating", b)
    <3>1. /\ Ample(b.activating + Supply, b.effective, Supply)
          /\ Ample(b.deactivating + Supply, b.effective, Supply)
      BY DEF LargeCluster
    <3>2. /\ b.activating + Supply \in Nat /\ activating \in 0..(b.activating + Supply)
          /\ b.deactivating + Supply \in Nat
          /\ deactivating \in 0..(b.deactivating + Supply)
          /\ effective \in Nat /\ b.effective <= effective
      BY <2>2, <2>3, <2>4, <2>5
    <3>. HIDE DEF effective, activating, deactivating
    <3>3. Ample(activating, effective, Supply) /\ Ample(deactivating, effective, Supply)
      BY <2>2, <2>3, <3>1, <3>2, AmpleKept
    <3>. QED
      BY <3>3 DEF effective, activating, deactivating
  <2>. HIDE DEF entry, fits
  <2>7. clock.epoch \in Nat /\ DOMAIN history = 0..(clock.epoch - 1)
    BY HistoryOK DEF Inv, SysvarsOK, Clock
  <2>8. \A e \in DOMAIN history : fits(history[e])
    BY DEF Unlimited, AmpleHistory, fits
  <2>9. \A e \in 0..clock.epoch : e < clock.epoch => e \in 0..(clock.epoch - 1)
    BY <2>7
  <2>10. \A e \in DOMAIN history' : fits(history'[e])
    BY <2>1, <2>6, <2>7, <2>8, <2>9
  <2>. QED
    BY <2>10 DEF Unlimited, AmpleHistory, fits
<1>. QED
  BY <1>1, <1>2

(***************************************************************************)
(* In a large cluster nothing is assumed any more: whatever is done with   *)
(* the modelled accounts, no epoch limits one of them, so what votes for a *)
(* validator is fixed within each epoch, deactivated stake leaves it in    *)
(* the next one, and what is effective is covered by lamports.             *)
(***************************************************************************)
THEOREM LargeClustersKeepAll ==
  ASSUME 0 \notin RentValues, LargeCluster
  PROVE  Spec => /\ []Unlimited
                 /\ []WarmedUpInTime
                 /\ EffectiveFixedInEpoch
                 /\ WarmupAndCooldownMonotone
                 /\ []CooldownProgresses
                 /\ []EffectiveStakeBacked
<1>. DEFINE kept == ReserveKept(0, TRUE)
<1>1. Baseline(0)
  BY ProgramConstants, NumbersOK DEF Baseline
<1>2. Init => kept /\ Unlimited
  BY InitCovers DEF Init, Unlimited, AmpleHistory
<1>3. Inv /\ Inv' /\ Counted /\ Unlimited /\ kept /\ [Next]_vars => kept'
  BY <1>1, WholeInTime, NextCovers DEF Counted
<1>4. Inv /\ Counted /\ Unlimited /\ kept /\ [Next]_vars => Unlimited'
  BY <1>1, ReserveBacks, UnlimitedKept DEF Counted
<1>. HIDE DEF kept
<1>5. Spec => []Unlimited
  BY <1>2, <1>3, <1>4, Invariance, CountedKept, PTL DEF Spec
<1>6. Spec /\ []Unlimited => EffectiveFixedInEpoch
  BY EffectiveKeptFixed
<1>7. Spec /\ []WarmedUpInTime => []EffectiveStakeBacked
  BY EffectiveKeptBacked
<1>. QED
  BY <1>5, <1>6, <1>7, InTimeWhileUnlimited, EpochsAreMonotone, CooldownKeepsOn, PTL

-----------------------------------------------------------------------------
(* Effective stake of a validator, in any cluster.                         *)

(***************************************************************************)
(* In no epoch so far were the amounts so large that their products would  *)
(* saturate: a share is then the exact quotient, rounded down.             *)
(***************************************************************************)
Unsaturated == RoomyHistory(history, Supply)

\* What v votes with of an account.
Votes(state, v) ==
    IF state.kind = "Stake" /\ state.stake.voter_pubkey = v
    THEN StakeActivatingAndDeactivating(state.stake, history, clock.epoch).effective
    ELSE 0

VotesAt(accounts, h, v) == IF h \in Accounts THEN Votes(accounts[h], v) ELSE 0

VotesOf(accounts, s, v) == [a \in s |-> Votes(accounts[a], v)]

CountedInTotal ==
    \A v : EffectiveOf(v) = LET s == Supporters(data, v)
                            IN  Total(VotesOf(data, s, v), s)

LEMMA CountsInTotal == CountedInTotal
<1>. SUFFICES ASSUME NEW v
              PROVE  EffectiveOf(v) = LET s == Supporters(data, v)
                                      IN  Total(VotesOf(data, s, v), s)
  BY DEF CountedInTotal
<1>. DEFINE s == Supporters(data, v)
            f == VotesOf(data, s, v)
            g == [a \in s |-> Status(a).effective]
<1>1. DelegatedTo(v) = s
  BY DEF DelegatedTo, StakeAccounts, IsStake, Supporters
<1>2. EffectiveOf(v) = Total(g, s)
  <2>1. EffectiveOf(v) = MapThenSumSet(LAMBDA a : Status(a).effective, s)
    BY <1>1 DEF EffectiveOf
  <2>. HIDE DEF s
  <2>. QED
    BY <2>1, TotalIsFold
<1>3. g = f
  BY DEF Supporters, VotesOf, Votes, Status
<1>. HIDE DEF f, g
<1>. QED
  BY <1>2, <1>3 DEF f

\* No account votes with more than is delegated.
LEMMA VotesOK ==
  ASSUME Inv, NEW state \in AccountData, NEW v
  PROVE  /\ Votes(state, v) \in Nat
         /\ state.kind = "Stake" =>
              /\ IsDelegation(state.stake) /\ state.stake.stake \in Nat
              /\ Votes(state, v) <= (IF state.stake.voter_pubkey = v
                                     THEN state.stake.stake ELSE 0)
<1>1. CASE state.kind # "Stake"
  BY <1>1 DEF Votes
<1>2. CASE state.kind = "Stake"
  <2>. DEFINE d == state.stake
              effective == StakeActivatingAndDeactivating(d, history, clock.epoch).effective
  <2>1. IsDelegation(d) /\ d.stake \in Nat
    <3>1. d \in Stake
      BY <1>2, StakeData
    <3>. QED
      BY <3>1, NumbersOK DEF IsDelegation, Stake, Lamports, U64
  <2>2. IsHistory(history) /\ clock.epoch \in Nat
    <3>1. IsHistory(history)
      BY DEF Inv, SysvarsOK, IsHistory
    <3>2. clock.epoch \in 0..MaxEpoch
      BY DEF Inv, SysvarsOK, Clock
    <3>. QED
      BY <3>1, <3>2, NumbersOK
  <2>3. effective \in 0..d.stake
    BY <2>1, <2>2, StatusBounded
  <2>4. Votes(state, v) = IF d.voter_pubkey = v THEN effective ELSE 0
    BY <1>2 DEF Votes
  <2>. HIDE DEF effective
  <2>. QED
    BY <2>1, <2>3, <2>4
<1>. QED
  BY <1>1, <1>2

\* One account is written, or two, and no validator votes with more, but for a
\* lamport for each epoch.
NotRaised ==
    \E x \in Accounts, y \in Holders :
        /\ x # y
        /\ \A c \in Accounts \ {x, y} : data'[c] = data[c]
        /\ \A v \in Voters : VotesAt(data', x, v) + VotesAt(data', y, v)
                               <= VotesAt(data, x, v) + VotesAt(data, y, v) + clock.epoch

LEMMA EffectiveRises ==
  ASSUME Inv, Inv', UNCHANGED <<clock, history>>, NotRaised, NEW v \in Voters
  PROVE  EffectiveOf(v)' - EffectiveOf(v) <= clock.epoch
<1>. PICK x \in Accounts, y \in Holders :
        /\ x # y
        /\ \A c \in Accounts \ {x, y} : data'[c] = data[c]
        /\ \A u \in Voters : VotesAt(data', x, u) + VotesAt(data', y, u)
                               <= VotesAt(data, x, u) + VotesAt(data, y, u) + clock.epoch
  BY DEF NotRaised
<1>. DEFINE s == Supporters(data, v)
            r == Supporters(data', v)
            f == VotesOf(data, s, v)
            g == VotesOf(data', r, v)
<1>1. EffectiveOf(v) = Total(f, s)
  BY CountsInTotal DEF CountedInTotal
<1>2. EffectiveOf(v)' = Total(g, r)
  <2>1. CountedInTotal'
    BY CountsInTotal, PTL
  <2>2. EffectiveOf(v)' = Total(VotesOf(data, s, v)', s')
    BY <2>1 DEF CountedInTotal
  <2>3. s' = r /\ VotesOf(data, s, v)' = VotesOf(data', s', v)
    BY DEF Supporters, VotesOf, Votes
  <2>. QED
    BY <2>2, <2>3
<1>3. data \in [Accounts -> AccountData] /\ data' \in [Accounts -> AccountData]
  BY DEF Inv, AccountsOK
<1>4. \A a \in Accounts : Votes(data[a], v) \in Nat /\ Votes(data'[a], v) \in Nat
  BY <1>3, VotesOK
<1>5. IsFiniteSet(Holders) /\ s \in SUBSET Holders /\ r \in SUBSET Holders
  BY HoldersFinite, WalletHolds DEF Supporters
<1>6. (\A a \in s : f[a] \in Int) /\ (\A a \in r : g[a] \in Int)
  BY <1>4 DEF Supporters, VotesOf
<1>7. \A h : /\ Part(f, s, h) = VotesAt(data, h, v)
             /\ Part(g, r, h) = VotesAt(data', h, v)
  BY DEF Part, VotesAt, Votes, VotesOf, Supporters
<1>8. \A a \in Holders \ {x, y} : /\ a \in s <=> a \in r
                                  /\ a \in s => f[a] = g[a]
  BY DEF Supporters, VotesOf
<1>9. /\ VotesAt(data', x, v) + VotesAt(data', y, v)
           <= VotesAt(data, x, v) + VotesAt(data, y, v) + clock.epoch
      /\ VotesAt(data, x, v) \in Nat /\ VotesAt(data, y, v) \in Nat
      /\ VotesAt(data', x, v) \in Nat /\ VotesAt(data', y, v) \in Nat
  BY <1>4 DEF VotesAt
<1>10. clock.epoch \in Int
  <2>1. clock.epoch \in 0..MaxEpoch
    BY DEF Inv, SysvarsOK, Clock
  <2>. QED
    BY <2>1
<1>. HIDE DEF s, r, f, g
<1>11. Total(g, r) - Total(f, s)
        = (Part(g, r, x) + Part(g, r, y)) - (Part(f, s, x) + Part(f, s, y))
  BY <1>5, <1>6, <1>8, TotalChanged
<1>12. Total(f, s) \in Int /\ Total(g, r) \in Int
  BY <1>5, <1>6, FS_Subset, TotalTyped
<1>. QED
  BY <1>1, <1>2, <1>7, <1>9, <1>10, <1>11, <1>12

NoMoreVotes(a, state) == \A v \in Voters : Votes(state, v) <= Votes(data[a], v)

LittleMoreVotes(a, state, b, other) ==
    \A v \in Voters : Votes(state, v) + Votes(other, v)
                        <= Votes(data[a], v) + Votes(data[b], v) + clock.epoch

\* The epoch, which bounds what is gained.
LEMMA EpochOK == Inv => clock.epoch \in Nat
<1>1. Inv => clock.epoch \in 0..MaxEpoch
  BY DEF Inv, SysvarsOK, Clock
<1>. QED
  BY <1>1

LEMMA WriteRaisesNot ==
  ASSUME Inv, Inv', NEW a \in Accounts, NEW state, NoMoreVotes(a, state),
         SetState(a, state)
  PROVE  NotRaised
<1>1. \A c \in Accounts : data'[c] = IF c = a THEN state ELSE data[c]
  BY DEF Inv, AccountsOK, SetState
<1>2. Wallet \in Holders /\ a # Wallet /\ Wallet \notin Accounts
  BY WalletHolds
<1>3. ASSUME NEW v \in Voters
      PROVE  VotesAt(data', a, v) + VotesAt(data', Wallet, v)
               <= VotesAt(data, a, v) + VotesAt(data, Wallet, v) + clock.epoch
  <2>1. data[a] \in AccountData /\ data'[a] \in AccountData
    BY DEF Inv, AccountsOK
  <2>2. Votes(data[a], v) \in Nat /\ Votes(state, v) \in Nat /\ clock.epoch \in Nat
    BY <1>1, <2>1, VotesOK, EpochOK
  <2>3. /\ VotesAt(data', a, v) = Votes(state, v) /\ VotesAt(data', Wallet, v) = 0
        /\ VotesAt(data, a, v) = Votes(data[a], v) /\ VotesAt(data, Wallet, v) = 0
    BY <1>1, <1>2 DEF VotesAt
  <2>. QED
    BY <2>2, <2>3 DEF NoMoreVotes
<1>. QED
  BY <1>1, <1>2, <1>3 DEF NotRaised

LEMMA WritesRaiseLittle ==
  ASSUME Inv, NEW a \in Accounts, NEW state, NEW b \in Accounts, NEW other, a # b,
         LittleMoreVotes(a, state, b, other), SetStates(a, state, b, other)
  PROVE  NotRaised
<1>1. \A c \in Accounts : data'[c] = IF c = b THEN other
                                     ELSE IF c = a THEN state ELSE data[c]
  BY DEF Inv, AccountsOK, SetStates
<1>2. b \in Holders
  BY WalletHolds
<1>3. \A v \in Voters : VotesAt(data', a, v) + VotesAt(data', b, v)
                          <= VotesAt(data, a, v) + VotesAt(data, b, v) + clock.epoch
  BY <1>1 DEF VotesAt, LittleMoreVotes
<1>. QED
  BY <1>1, <1>2, <1>3 DEF NotRaised

\* Data without a delegation votes with nothing, whatever it replaces.
LEMMA NoVotes ==
  ASSUME NEW state, state.kind # "Stake"
  PROVE  \A v : Votes(state, v) = 0
BY DEF Votes

LEMMA FreeingRaisesNot ==
  ASSUME Inv, Inv', NEW a \in Accounts, NEW state, state.kind # "Stake",
         SetState(a, state)
  PROVE  NotRaised
<1>1. \A v : Votes(state, v) = 0 /\ Votes(data[a], v) \in Nat
  BY NoVotes, VotesOK, AccountOK
<1>2. NoMoreVotes(a, state)
  BY <1>1 DEF NoMoreVotes
<1>. QED
  BY <1>2, WriteRaisesNot

\* What an account votes with, by its class.
LEMMA VotesByKind ==
  ASSUME Inv, NEW a \in Accounts, HasMeta(data[a]), NEW v
  PROVE  /\ Kind(a) \in {"Inactive", "ActivationEpoch"} => Votes(data[a], v) = 0
         /\ Kind(a) = "FullyActive" =>
              /\ IsStake(a)
              /\ Votes(data[a], v) = IF data[a].stake.voter_pubkey = v
                                     THEN data[a].stake.stake ELSE 0
<1>1. CASE ~IsStake(a)
  <2>1. data[a].kind = "Initialized"
    BY <1>1 DEF HasMeta, IsStake
  <2>. QED
    BY <2>1, NoVotes DEF Kind, MergeKind
<1>2. CASE IsStake(a)
  <2>. DEFINE s == Status(a)
  <2>1. /\ s.effective \in Nat /\ s.activating \in Nat /\ s.deactivating \in Nat
        /\ data[a].stake.deactivation_epoch = Never =>
              s.deactivating = 0 /\ s.effective + s.activating = data[a].stake.stake
        /\ data[a].stake.deactivation_epoch # Never =>
              s.activating = 0 /\ s.deactivating = s.effective
    BY <1>2, StatusOK
  <2>2. Votes(data[a], v) = IF data[a].stake.voter_pubkey = v THEN s.effective ELSE 0
    BY <1>2 DEF Votes, Status, IsStake
  <2>3. Kind(a) = IF s.effective = 0
                  THEN IF s.activating = 0 /\ s.deactivating = 0
                       THEN "Inactive" ELSE "ActivationEpoch"
                  ELSE IF s.activating = 0 /\ s.deactivating = 0
                       THEN "FullyActive" ELSE "Transient"
    BY <1>2 DEF Kind, MergeKind, Status, IsStake
  <2>. HIDE DEF s
  <2>. QED
    BY <1>2, <2>1, <2>2, <2>3
<1>. QED
  BY <1>1, <1>2

LEMMA MetaWriteRaisesNot ==
  ASSUME Inv, Inv', NEW a \in Accounts, HasMeta(data[a]), NEW meta,
         SetState(a, [data[a] EXCEPT !.meta = meta])
  PROVE  NotRaised
<1>. DEFINE state == [data[a] EXCEPT !.meta = meta]
<1>1. state.kind = data[a].kind /\ (state.kind = "Stake" => state.stake = data[a].stake)
  <2>1. data[a] \in AccountData
    BY AccountOK
  <2>2. CASE data[a].kind = "Stake"
    BY <2>1, <2>2, StakeData
  <2>3. CASE data[a].kind = "Initialized"
    BY <2>1, <2>3 DEF AccountData, StakeStateV2, Uninitialized, NoAccount, Closed
  <2>. QED
    BY <2>2, <2>3 DEF HasMeta
<1>. HIDE DEF state
<1>2. NoMoreVotes(a, state)
  <2>1. \A v : Votes(state, v) = Votes(data[a], v) /\ Votes(data[a], v) \in Nat
    BY <1>1, AccountOK, VotesOK DEF Votes
  <2>. QED
    BY <2>1 DEF NoMoreVotes
<1>. QED
  BY <1>2, WriteRaisesNot DEF state

\* A delegation that is started votes with nothing yet; one whose deactivation
\* is rescinded with what it did, as does one that is deactivated.
LEMMA DelegateRaisesNot ==
  ASSUME Inv, Inv', NEW S, NEW a \in Accounts, NEW u \in Voters, Delegate(S, a, u)
  PROVE  NotRaised
<1>. DEFINE stake == data[a].stake
            fresh == NewStake(SatSub(lamports[a], rent), u, Credits(u), clock.epoch)
            started == Staked(data[a].meta, fresh)
            rescinded == [data[a] EXCEPT !.stake.deactivation_epoch = Never]
<1>1. \/ SetState(a, started)
      \/ /\ IsStake(a) /\ clock.epoch = stake.deactivation_epoch
         /\ SetState(a, rescinded)
  BY DEF Delegate, MayRescind
<1>2. ASSUME NEW state, SetState(a, state)
      PROVE  data'[a] = state /\ state \in AccountData
  <2>1. data'[a] = state
    BY <1>2 DEF Inv, AccountsOK, SetState
  <2>2. data'[a] \in AccountData
    BY DEF Inv, AccountsOK
  <2>. QED
    BY <2>1, <2>2
<1>3. \A v : Votes(data[a], v) \in Nat
  BY AccountOK, VotesOK
<1>4. IsHistory(history) /\ clock.epoch \in Nat /\ clock.epoch < Never /\ Never \in Nat
  <2>1. IsHistory(history)
    BY DEF Inv, SysvarsOK, IsHistory
  <2>2. clock.epoch \in 0..MaxEpoch
    BY DEF Inv, SysvarsOK, Clock
  <2>. QED
    BY <2>1, <2>2, NumbersOK DEF Never
<1>5. CASE SetState(a, started)
  <2>1. /\ started.kind = "Stake" /\ started.stake.activation_epoch = clock.epoch
        /\ started.stake.deactivation_epoch = Never
    BY DEF Staked, NewStake
  <2>. HIDE DEF started
  <2>2. IsDelegation(started.stake)
    BY <1>2, <1>5, <2>1, VotesOK
  <2>3. StakeAndActivating(started.stake, history, clock.epoch).effective = 0
    BY <1>4, <2>1, <2>2, StartsFromNothing
  <2>4. StakeActivatingAndDeactivating(started.stake, history, clock.epoch).effective = 0
    BY <1>4, <2>1, <2>3, EffectiveUnfolded
  <2>5. NoMoreVotes(a, started)
    BY <1>3, <2>4 DEF NoMoreVotes, Votes
  <2>. QED
    BY <1>5, <2>5, WriteRaisesNot
<1>6. CASE /\ IsStake(a) /\ clock.epoch = stake.deactivation_epoch
           /\ SetState(a, rescinded)
  <2>1. /\ stake \in Stake /\ stake.activation_epoch <= clock.epoch
        /\ data[a] = [kind |-> "Stake", meta |-> data[a].meta, stake |-> stake]
    BY <1>6, AccountOK, DelegationOK, StakeData DEF IsStake
  <2>2. /\ rescinded.kind = "Stake"
        /\ rescinded.stake.voter_pubkey = stake.voter_pubkey
        /\ rescinded.stake.stake = stake.stake
        /\ rescinded.stake.activation_epoch = stake.activation_epoch
        /\ rescinded.stake.deactivation_epoch = Never
    BY <2>1 DEF Stake
  <2>. HIDE DEF rescinded
  <2>3. IsDelegation(rescinded.stake) /\ IsDelegation(stake)
    BY <1>2, <1>6, <2>2, VotesOK, DelegationOK
  <2>4. StakeActivatingAndDeactivating(stake, history, clock.epoch).effective
          = StakeActivatingAndDeactivating(rescinded.stake, history, clock.epoch).effective
    <3>. DEFINE d == rescinded.stake
    <3>1. d.activation_epoch <= clock.epoch
      BY <2>1, <2>2
    <3>. HIDE DEF d
    <3>2. IsDelegation(d) /\ IsDelegation(stake) /\ d.activation_epoch <= clock.epoch
          /\ stake.activation_epoch = d.activation_epoch /\ stake.stake = d.stake
          /\ d.deactivation_epoch = Never /\ stake.deactivation_epoch = clock.epoch
      BY <1>6, <2>2, <2>3, <3>1 DEF d
    <3>. HIDE DEF stake
    <3>3. StakeActivatingAndDeactivating(stake, history, clock.epoch).effective
            = StakeActivatingAndDeactivating(d, history, clock.epoch).effective
      BY <1>4, <3>2, DeactivationTakesNothing
    <3>. QED
      BY <3>3 DEF d
  <2>5. NoMoreVotes(a, rescinded)
    <3>1. \A v : Votes(rescinded, v) = Votes(data[a], v)
      BY <1>6, <2>2, <2>4 DEF Votes, IsStake
    <3>. QED
      BY <1>3, <3>1 DEF NoMoreVotes
  <2>. QED
    BY <1>6, <2>5, WriteRaisesNot
<1>. HIDE DEF started, rescinded
<1>. QED
  BY <1>1, <1>5, <1>6

LEMMA DeactivateRaisesNot ==
  ASSUME Inv, Inv', NEW a \in Accounts, IsStake(a), DoDeactivate(a)
  PROVE  NotRaised
<1>. DEFINE stake == data[a].stake
            state == [data[a] EXCEPT !.stake.deactivation_epoch = clock.epoch]
<1>1. stake.deactivation_epoch = Never /\ SetState(a, state)
  BY DEF DoDeactivate
<1>2. state \in AccountData
  <2>1. data'[a] = state
    BY <1>1 DEF Inv, AccountsOK, SetState
  <2>2. data'[a] \in AccountData
    BY DEF Inv, AccountsOK
  <2>. QED
    BY <2>1, <2>2
<1>3. /\ stake \in Stake /\ IsDelegation(stake) /\ IsHistory(history)
      /\ clock.epoch \in Nat /\ clock.epoch < Never
      /\ stake.activation_epoch <= clock.epoch
      /\ data[a] = [kind |-> "Stake", meta |-> data[a].meta, stake |-> stake]
  BY AccountOK, DelegationOK, StakeData DEF IsStake
<1>4. /\ state.kind = "Stake"
      /\ state.stake.voter_pubkey = stake.voter_pubkey
      /\ state.stake.stake = stake.stake
      /\ state.stake.activation_epoch = stake.activation_epoch
      /\ state.stake.deactivation_epoch = clock.epoch
  BY <1>3 DEF Stake
<1>. HIDE DEF state
<1>5. IsDelegation(state.stake)
  BY <1>2, <1>4, VotesOK
<1>6. StakeActivatingAndDeactivating(state.stake, history, clock.epoch).effective
        = StakeActivatingAndDeactivating(stake, history, clock.epoch).effective
  <2>. HIDE DEF stake
  <2>. QED
    BY <1>1, <1>3, <1>4, <1>5, DeactivationTakesNothing
<1>7. \A v : Votes(state, v) = Votes(data[a], v) /\ Votes(data[a], v) \in Nat
  BY <1>4, <1>6, AccountOK, VotesOK DEF Votes, IsStake
<1>8. NoMoreVotes(a, state)
  BY <1>7 DEF NoMoreVotes
<1>. QED
  BY <1>1, <1>8, WriteRaisesNot

\* A full split moves a delegation as it is.
LEMMA SplitFullRaisesNot ==
  ASSUME Inv, NEW S, NEW from \in Accounts, NEW to \in Accounts, NEW n \in Nat,
         SplitFull(S, from, to, n)
  PROVE  NotRaised
<1>1. /\ from # to /\ data[to] = Uninitialized
      /\ SetStates(to, data[from], from, Closed)
  BY DEF SplitFull, SplitChecks
<1>2. (\A v : Votes(Closed, v) = 0) /\ (\A v : Votes(Uninitialized, v) = 0)
  BY NoVotes DEF Closed, Uninitialized
<1>3. (\A v : Votes(data[from], v) \in Nat) /\ clock.epoch \in Nat
  BY AccountOK, VotesOK, EpochOK
<1>4. LittleMoreVotes(to, data[from], from, Closed)
  BY <1>1, <1>2, <1>3 DEF LittleMoreVotes
<1>. QED
  BY <1>1, <1>4, WritesRaiseLittle

\* Of inactive stake a copy may be made: neither votes with anything.
LEMMA SplitInactiveRaisesNot ==
  ASSUME Inv, Inv', NEW S, NEW from \in Accounts, NEW to \in Accounts, NEW n \in Nat,
         SplitInactive(S, from, to, n)
  PROVE  NotRaised
<1>1. /\ data[to] = Uninitialized /\ ~IsActiveOrActivating(from)
      /\ SetState(to, data[from])
  BY DEF SplitInactive, SplitChecks
<1>2. \A v : Votes(Uninitialized, v) = 0
  BY NoVotes DEF Uninitialized
<1>3. \A v : Votes(data[from], v) = 0
  <2>1. CASE IsStake(from)
    <3>1. Status(from).effective \in Nat /\ ~(Status(from).effective > 0)
      BY <1>1, <2>1, StatusOK DEF IsActiveOrActivating
    <3>2. Status(from).effective = 0
      BY <3>1
    <3>. QED
      BY <3>2 DEF Votes, Status
  <2>2. CASE ~IsStake(from)
    BY <2>2, NoVotes DEF IsStake
  <2>. QED
    BY <2>1, <2>2
<1>4. NoMoreVotes(to, data[from])
  BY <1>1, <1>2, <1>3 DEF NoMoreVotes
<1>. QED
  BY <1>1, <1>4, WriteRaisesNot

\* The parts of a split may gain by rounding: this is all that any instruction
\* brings.
LEMMA SplitActiveRaisesLittle ==
  ASSUME Inv, AmountsKept, Unsaturated,
         NEW S, NEW from \in Accounts, NEW to \in Accounts, NEW n \in Nat,
         SplitActive(S, from, to, n)
  PROVE  NotRaised
<1>. DEFINE d == data[from].stake
            amount == d.stake
            rest == amount - n
            e == [d EXCEPT !.stake = rest]
            f == [d EXCEPT !.stake = n]
            source == [data[from] EXCEPT !.stake.stake = rest]
            target == [data[from] EXCEPT !.stake.stake = n]
            effective(s) == StakeActivatingAndDeactivating(s, history, clock.epoch).effective
<1>1. /\ from # to /\ data[to] = Uninitialized /\ IsStake(from) /\ amount >= n
      /\ SetStates(from, source, to, target)
  BY DEF SplitActive, SplitChecks, IsActiveOrActivating
<1>2. amount \in U64 /\ n \in U64 /\ rest \in U64 /\ amount \in Nat /\ rest \in Nat
  <2>1. amount \in U64
    BY <1>1, DelegationOK DEF Stake, Lamports
  <2>. QED
    BY <1>1, <2>1, NumbersOK DEF U64
<1>3. /\ IsDelegation(d) /\ IsHistory(history) /\ clock.epoch \in Nat /\ clock.epoch < Never
      /\ d.activation_epoch <= clock.epoch
      /\ d.deactivation_epoch \in {Never} \cup d.activation_epoch..clock.epoch
  BY <1>1, DelegationOK
<1>4. /\ source = Staked(data[from].meta, e) /\ target = Staked(data[from].meta, f)
      /\ e \in Stake /\ e.stake = rest /\ f \in Stake /\ f.stake = n
      /\ e.voter_pubkey = d.voter_pubkey /\ f.voter_pubkey = d.voter_pubkey
      /\ e.activation_epoch = d.activation_epoch
      /\ f.activation_epoch = d.activation_epoch
      /\ e.deactivation_epoch = d.deactivation_epoch
      /\ f.deactivation_epoch = d.deactivation_epoch
  <2>. HIDE DEF rest
  <2>1. LET x == [data[from].stake EXCEPT !.stake = rest]
        IN  /\ [data[from] EXCEPT !.stake.stake = rest] = Staked(data[from].meta, x)
            /\ x \in Stake /\ x.stake = rest
            /\ x.voter_pubkey = d.voter_pubkey
            /\ x.activation_epoch = d.activation_epoch
            /\ x.deactivation_epoch = d.deactivation_epoch
    BY <1>1, <1>2, OtherAmount
  <2>2. LET x == [data[from].stake EXCEPT !.stake = n]
        IN  /\ [data[from] EXCEPT !.stake.stake = n] = Staked(data[from].meta, x)
            /\ x \in Stake /\ x.stake = n
            /\ x.voter_pubkey = d.voter_pubkey
            /\ x.activation_epoch = d.activation_epoch
            /\ x.deactivation_epoch = d.deactivation_epoch
    BY <1>1, <1>2, OtherAmount
  <2>. QED
    BY <2>1, <2>2
<1>. HIDE DEF e, f
<1>5. Shares(d, e, f)
  <2>1. IsDelegation(e) /\ IsDelegation(f)
    BY <1>4, NumbersOK DEF IsDelegation, Stake, Lamports, U64
  <2>2. e.stake + f.stake = d.stake
    BY <1>2, <1>4
  <2>. QED
    BY <1>3, <1>4, <2>1, <2>2 DEF Shares
<1>6. Near(effective(e) + effective(f), effective(d), clock.epoch - d.activation_epoch)
  <2>1. Supply \in Nat
    BY ProgramConstants, NumbersOK DEF Lamports, U64
  <2>2. d.stake <= Supply /\ RoomyHistory(history, Supply)
    BY <1>1 DEF AmountsKept, StakeAccounts, Unsaturated
  <2>. HIDE DEF d
  <2>. QED
    BY <1>3, <1>5, <2>1, <2>2, StatusShared
<1>7. /\ effective(d) \in Nat /\ effective(e) \in Nat /\ effective(f) \in Nat
      /\ d.activation_epoch \in Nat
  <2>1. ASSUME NEW s, IsDelegation(s) PROVE effective(s) \in Nat
    <3>1. effective(s) \in 0..s.stake
      BY <1>3, <2>1, StatusBounded
    <3>. HIDE DEF effective
    <3>. QED
      BY <2>1, <3>1 DEF IsDelegation
  <2>. HIDE DEF effective
  <2>. QED
    BY <1>5, <2>1 DEF Shares, IsDelegation
<1>8. effective(e) + effective(f) <= effective(d) + clock.epoch
  <2>. HIDE DEF effective, d
  <2>. QED
    BY <1>3, <1>6, <1>7 DEF Near
<1>9. ASSUME NEW v
      PROVE  /\ Votes(data[to], v) = 0
             /\ Votes(data[from], v) = IF d.voter_pubkey = v THEN effective(d) ELSE 0
             /\ Votes(source, v) = IF d.voter_pubkey = v THEN effective(e) ELSE 0
             /\ Votes(target, v) = IF d.voter_pubkey = v THEN effective(f) ELSE 0
  <2>1. Votes(data[to], v) = 0
    BY <1>1, NoVotes DEF Uninitialized
  <2>2. Votes(data[from], v) = IF d.voter_pubkey = v THEN effective(d) ELSE 0
    BY <1>1 DEF Votes, IsStake
  <2>3. /\ source.kind = "Stake" /\ source.stake = e
        /\ target.kind = "Stake" /\ target.stake = f
    BY <1>4 DEF Staked
  <2>. HIDE DEF source, target, d
  <2>4. /\ Votes(source, v) = IF d.voter_pubkey = v THEN effective(e) ELSE 0
        /\ Votes(target, v) = IF d.voter_pubkey = v THEN effective(f) ELSE 0
    BY <1>4, <2>3 DEF Votes
  <2>. QED
    BY <2>1, <2>2, <2>4
<1>. HIDE DEF effective, source, target, d
<1>10. LittleMoreVotes(from, source, to, target)
  <2>. SUFFICES ASSUME NEW v \in Voters
                PROVE  Votes(source, v) + Votes(target, v)
                         <= Votes(data[from], v) + Votes(data[to], v) + clock.epoch
    BY DEF LittleMoreVotes
  <2>. QED
    BY <1>3, <1>7, <1>8, <1>9
<1>. QED
  BY <1>1, <1>10, WritesRaiseLittle

\* What is merged into stake that is not in force yet is not either; stake in
\* force adds up.
LEMMA MergeRaisesNot ==
  ASSUME Inv, Inv', NEW S, NEW from \in Accounts, NEW to \in Accounts,
         Merge(S, to, from)
  PROVE  NotRaised
<1>. DEFINE dk == Kind(to)
            sk == Kind(from)
            held == lamports[from]
            absorbed == Absorbed(data[from], sk, held)
            seen == data[from].stake.credits_observed
            target == Merged(data[to], dk, data[from], sk, held)
<1>1. /\ from # to /\ HasMeta(data[to]) /\ HasMeta(data[from])
      /\ KindsCanMerge(dk, sk)
      /\ (dk # "Inactive" /\ sk # "Inactive" =>
            ActiveDelegationsCanMerge(data[to].stake, data[from].stake))
      /\ SetStates(to, target, from, Closed)
  BY DEF Merge, Mergeable, CanMerge
<1>2. target \in AccountData
  <2>1. data'[to] = target
    BY <1>1 DEF Inv, AccountsOK, SetStates
  <2>2. data'[to] \in AccountData
    BY DEF Inv, AccountsOK
  <2>. QED
    BY <2>1, <2>2
<1>3. /\ \A v : Votes(Closed, v) = 0
      /\ \A v : Votes(data[to], v) \in Nat /\ Votes(data[from], v) \in Nat
      /\ clock.epoch \in Nat
  BY AccountOK, VotesOK, NoVotes, EpochOK DEF Closed
<1>4. SUFFICES \A v : Votes(target, v) <= Votes(data[to], v) + Votes(data[from], v)
  <2>1. \A v : Votes(target, v) \in Nat
    BY <1>2, VotesOK
  <2>. HIDE DEF target
  <2>2. LittleMoreVotes(to, target, from, Closed)
    BY <1>3, <1>4, <2>1 DEF LittleMoreVotes
  <2>. QED
    BY <1>1, <2>2, WritesRaiseLittle
<1>5. CASE dk = "Inactive"
  <2>1. target = data[to]
    BY <1>5 DEF Merged
  <2>. HIDE DEF target
  <2>. QED
    BY <1>3, <2>1
<1>6. CASE dk = "ActivationEpoch"
  <2>1. IsStake(to) /\ Status(to).effective = 0
    BY <1>1, <1>6, KindEffective
  <2>. DEFINE d == data[to].stake
  <2>2. /\ d \in Stake /\ IsDelegation(d) /\ d.stake # 0 /\ IsHistory(history)
        /\ clock.epoch \in Nat /\ clock.epoch < Never /\ clock.epoch <= Never
        /\ d.activation_epoch <= clock.epoch
        /\ data[to] = [kind |-> "Stake", meta |-> data[to].meta, stake |-> d]
    BY <2>1, AccountOK, StakeData, DelegationOK, StatusOK, NumbersOK DEF IsStake, Never
  <2>3. d.deactivation_epoch = Never
    <3>. DEFINE s == Status(to)
    <3>1. d.deactivation_epoch # Never => s.activating = 0 /\ s.deactivating = s.effective
      BY <2>1, StatusOK
    <3>2. Kind(to) = IF s.effective = 0
                     THEN IF s.activating = 0 /\ s.deactivating = 0
                          THEN "Inactive" ELSE "ActivationEpoch"
                     ELSE IF s.activating = 0 /\ s.deactivating = 0
                          THEN "FullyActive" ELSE "Transient"
      BY <2>1 DEF Kind, MergeKind, Status, IsStake
    <3>. HIDE DEF s, d
    <3>. QED
      BY <1>6, <2>1, <3>1, <3>2 DEF s
  <2>4. target.kind = "Stake" /\
        \E amount, credits :
           target.stake = [d EXCEPT !.stake = amount, !.credits_observed = credits]
    <3>1. CASE sk = "Inactive"
      <4>1. target = [data[to] EXCEPT !.stake.stake = d.stake + held]
        BY <1>6, <3>1 DEF Merged
      <4>. HIDE DEF held, target
      <4>2. target.kind = "Stake" /\ target.stake = [d EXCEPT !.stake = d.stake + held]
        BY <2>2, <4>1
      <4>. HIDE DEF d
      <4>3. target.stake = [d EXCEPT !.stake = d.stake + held,
                                     !.credits_observed = d.credits_observed]
        BY <2>2, <4>2 DEF Stake
      <4>. QED
        BY <4>2, <4>3
    <3>2. CASE sk # "Inactive"
      <4>1. target = [data[to] EXCEPT !.stake = Absorb(d, absorbed, seen)]
        BY <1>6, <3>2 DEF Merged
      <4>. HIDE DEF target, absorbed, seen
      <4>2. target.kind = "Stake" /\ target.stake = Absorb(d, absorbed, seen)
        BY <2>2, <4>1
      <4>. QED
        BY <4>2 DEF Absorb
    <3>. QED
      BY <3>1, <3>2
  <2>. DEFINE e == target.stake
  <2>5. IsDelegation(e)
    BY <1>2, <2>4, VotesOK
  <2>. HIDE DEF target
  <2>6. /\ e.activation_epoch = d.activation_epoch
        /\ e.deactivation_epoch = d.deactivation_epoch
    BY <2>2, <2>4 DEF Stake
  <2>7. StakeActivatingAndDeactivating(e, history, clock.epoch).effective = 0
    <3>1. StakeActivatingAndDeactivating(d, history, clock.epoch).effective = 0
      BY <2>1 DEF Status
    <3>. HIDE DEF d, e
    <3>. QED
      BY <2>2, <2>3, <2>5, <2>6, <3>1, NotYetEffective
  <2>8. \A v : Votes(target, v) = 0
    BY <2>7 DEF Votes
  <2>. QED
    BY <1>3, <2>8
<1>7. CASE dk = "FullyActive" /\ sk = "FullyActive"
  <2>1. /\ IsStake(to) /\ IsStake(from)
        /\ data[to].stake.voter_pubkey = data[from].stake.voter_pubkey
        /\ \A v : LET supports == data[to].stake.voter_pubkey = v
                  IN  /\ Votes(data[to], v) = IF supports THEN data[to].stake.stake ELSE 0
                      /\ Votes(data[from], v) =
                           IF supports THEN data[from].stake.stake ELSE 0
    BY <1>1, <1>7, VotesByKind DEF ActiveDelegationsCanMerge
  <2>2. /\ data[to].stake \in Stake
        /\ data[to] = [kind |-> "Stake", meta |-> data[to].meta,
                       stake |-> data[to].stake]
    BY <2>1, AccountOK, StakeData DEF IsStake
  <2>3. /\ target.kind = "Stake"
        /\ target.stake = Absorb(data[to].stake, absorbed, seen)
    <3>1. target = [data[to] EXCEPT !.stake = Absorb(data[to].stake, absorbed, seen)]
      BY <1>7 DEF Merged
    <3>. HIDE DEF target, absorbed, seen
    <3>. QED
      BY <2>2, <3>1
  <2>4. absorbed = data[from].stake.stake
    BY <1>7 DEF Absorbed
  <2>5. \A v : Votes(target, v) <= (IF target.stake.voter_pubkey = v
                                    THEN target.stake.stake ELSE 0)
    BY <1>2, <2>3, VotesOK
  <2>. HIDE DEF target, absorbed
  <2>6. /\ target.stake.voter_pubkey = data[to].stake.voter_pubkey
        /\ target.stake.stake = data[to].stake.stake + data[from].stake.stake
    BY <2>2, <2>3, <2>4 DEF Absorb, Stake
  <2>7. data[to].stake.stake \in Nat /\ data[from].stake.stake \in Nat
    BY <2>1, StatusOK
  <2>. QED
    BY <2>1, <2>5, <2>6, <2>7
<1>. QED
  BY <1>1, <1>5, <1>6, <1>7 DEF KindsCanMerge

\* MoveStake moves what n lamports in force vote with, to the same validator.
LEMMA MoveStakeRaisesNot ==
  ASSUME Inv, Inv', NEW S, NEW from \in Accounts, NEW to \in Accounts,
         NEW n \in Nat, MoveStake(S, from, to, n)
  PROVE  NotRaised
<1>. DEFINE amount == data[from].stake.stake
            rest == amount - n
            source == Remainder(from, n)
            target == Moved(from, to, n)
            u == data[from].stake.voter_pubkey
<1>1. /\ from # to /\ HasMeta(data[to]) /\ HasMeta(data[from])
      /\ Kind(from) = "FullyActive" /\ amount >= n
      /\ \/ Kind(to) = "FullyActive" /\ u = data[to].stake.voter_pubkey
         \/ Kind(to) = "Inactive"
      /\ SetStates(to, target, from, source)
  BY DEF MoveStake, MoveStakeChecks, MoveChecks, Mergeable
<1>2. source \in AccountData /\ target \in AccountData
  <2>1. data'[to] = target /\ data'[from] = source
    BY <1>1 DEF Inv, AccountsOK, SetStates
  <2>2. data'[to] \in AccountData /\ data'[from] \in AccountData
    BY DEF Inv, AccountsOK
  <2>. QED
    BY <2>1, <2>2
<1>3. /\ IsStake(from)
      /\ \A v : Votes(data[from], v) = IF u = v THEN amount ELSE 0
  BY <1>1, VotesByKind
<1>4. amount \in Nat /\ n \in U64 /\ rest \in U64 /\ rest \in Nat
  <2>1. amount \in U64
    BY <1>3, DelegationOK DEF Stake, Lamports
  <2>. QED
    BY <1>1, <2>1, NumbersOK DEF U64
<1>5. \A v : /\ Votes(source, v) \in Nat
             /\ Votes(source, v) <= (IF u = v THEN rest ELSE 0)
  <2>1. CASE amount = n
    <3>1. source = Initialized(data[from].meta) /\ rest = 0
      BY <1>4, <2>1 DEF Remainder
    <3>2. \A v : Votes(source, v) = 0
      BY <3>1, NoVotes DEF Initialized
    <3>. HIDE DEF source, rest
    <3>. QED
      BY <3>1, <3>2
  <2>2. CASE amount # n
    <3>1. source = [data[from] EXCEPT !.stake.stake = rest]
      BY <2>2 DEF Remainder
    <3>. HIDE DEF rest
    <3>2. LET e == [data[from].stake EXCEPT !.stake = rest]
          IN  /\ [data[from] EXCEPT !.stake.stake = rest] = Staked(data[from].meta, e)
              /\ e.stake = rest /\ e.voter_pubkey = u
      BY <1>3, <1>4, OtherAmount
    <3>. HIDE DEF source, u
    <3>3. source.kind = "Stake" /\ source.stake.stake = rest
          /\ source.stake.voter_pubkey = u
      BY <3>1, <3>2 DEF Staked
    <3>. QED
      BY <1>2, <3>3, VotesOK
  <2>. QED
    BY <2>1, <2>2
<1>6. \A v : /\ Votes(data[to], v) \in Nat /\ Votes(target, v) \in Nat
             /\ Votes(target, v) <= Votes(data[to], v) + (IF u = v THEN n ELSE 0)
  <2>1. \A v : Votes(data[to], v) \in Nat /\ Votes(target, v) \in Nat
    BY <1>2, AccountOK, VotesOK
  <2>2. CASE Kind(to) = "FullyActive"
    <3>1. /\ IsStake(to) /\ u = data[to].stake.voter_pubkey
          /\ \A v : Votes(data[to], v) = IF u = v THEN data[to].stake.stake ELSE 0
      BY <1>1, <2>2, VotesByKind
    <3>2. /\ data[to].stake \in Stake /\ data[to].stake.stake \in Nat
          /\ data[to] = [kind |-> "Stake", meta |-> data[to].meta,
                         stake |-> data[to].stake]
      BY <3>1, AccountOK, StakeData, StatusOK DEF IsStake
    <3>. DEFINE seen == data[from].stake.credits_observed
    <3>3. target = [data[to] EXCEPT !.stake = Absorb(data[to].stake, n, seen)]
      BY <2>2 DEF Moved
    <3>. HIDE DEF target, u, seen
    <3>4. target.kind = "Stake" /\ target.stake = Absorb(data[to].stake, n, seen)
      BY <3>2, <3>3
    <3>5. /\ target.stake.voter_pubkey = data[to].stake.voter_pubkey
          /\ target.stake.stake = data[to].stake.stake + n
      BY <3>2, <3>4 DEF Absorb, Stake
    <3>6. \A v : Votes(target, v) <= (IF target.stake.voter_pubkey = v
                                      THEN target.stake.stake ELSE 0)
      BY <1>2, <3>4, VotesOK
    <3>. QED
      BY <2>1, <3>1, <3>2, <3>5, <3>6
  <2>3. CASE Kind(to) = "Inactive"
    <3>1. target = Staked(data[to].meta, [data[from].stake EXCEPT !.stake = n])
      BY <2>3 DEF Moved
    <3>2. data[from].stake \in Stake
      BY <1>3, DelegationOK
    <3>. HIDE DEF target
    <3>3. target.kind = "Stake" /\ target.stake.stake = n /\ target.stake.voter_pubkey = u
      BY <3>1, <3>2 DEF Staked, Stake
    <3>. HIDE DEF u
    <3>4. \A v : Votes(target, v) <= (IF u = v THEN n ELSE 0)
      BY <1>2, <3>3, VotesOK
    <3>5. \A v : Votes(data[to], v) = 0
      BY <1>1, <2>3, VotesByKind
    <3>. QED
      BY <2>1, <3>4, <3>5
  <2>. QED
    BY <1>1, <2>1, <2>2, <2>3
<1>7. rest + n = amount /\ clock.epoch \in Nat
  BY <1>4, EpochOK
<1>. HIDE DEF source, target, amount, rest, u
<1>8. LittleMoreVotes(to, target, from, source)
  <2>. SUFFICES ASSUME NEW v \in Voters
                PROVE  Votes(target, v) + Votes(source, v)
                         <= Votes(data[to], v) + Votes(data[from], v) + clock.epoch
    BY DEF LittleMoreVotes
  <2>1. /\ Votes(data[from], v) = (IF u = v THEN amount ELSE 0)
        /\ Votes(source, v) \in Nat
        /\ Votes(source, v) <= (IF u = v THEN rest ELSE 0)
        /\ Votes(data[to], v) \in Nat /\ Votes(target, v) \in Nat
        /\ Votes(target, v) <= Votes(data[to], v) + (IF u = v THEN n ELSE 0)
    BY <1>3, <1>5, <1>6
  <2>. QED
    BY <1>4, <1>7, <2>1
<1>. QED
  BY <1>1, <1>8, WritesRaiseLittle

LEMMA ProcessRaisesLittle ==
  ASSUME Inv, Inv', AmountsKept, Unsaturated, NEW S, Process(S)
  PROVE  NotRaised \/ data' = data
<1>. PICK a \in Accounts :
        \/ Initialize(a)
        \/ InitializeChecked(S, a)
        \/ Authorize(S, a)
        \/ AuthorizeChecked(S, a)
        \/ AuthorizeWithSeed(S, a)
        \/ AuthorizeCheckedWithSeed(S, a)
        \/ SetLockup(S, a)
        \/ SetLockupChecked(S, a)
        \/ \E v \in Voters : Delegate(S, a, v)
        \/ Deactivate(S, a)
        \/ \E delinquent, reference \in Voters :
              DeactivateDelinquent(a, delinquent, reference)
        \/ \E to \in Holders : Withdraw(S, a, to)
        \/ \E to \in Accounts : Merge(S, to, a)
        \/ \E to \in Accounts : \E n \in Amounts \cup {lamports[a]} :
              \/ SplitFull(S, a, to, n)
              \/ SplitInactive(S, a, to, n)
              \/ SplitActive(S, a, to, n)
              \/ MoveStake(S, a, to, n)
              \/ MoveLamports(S, a, to, n)
  BY Zenon DEF Process
<1>1. CASE Initialize(a) \/ InitializeChecked(S, a)
  <2>1. PICK staker, withdrawer, lockup : DoInitialize(a, staker, withdrawer, lockup)
    BY <1>1 DEF Initialize, InitializeChecked
  <2>. DEFINE state == Initialized([staker |-> staker, withdrawer |-> withdrawer,
                                    lockup |-> lockup])
  <2>2. SetState(a, state)
    BY <2>1 DEF DoInitialize
  <2>3. state.kind # "Stake"
    BY DEF Initialized
  <2>. HIDE DEF state
  <2>. QED
    BY <2>2, <2>3, FreeingRaisesNot
<1>2. ASSUME NEW signers, NEW new, NEW who, NEW custodian,
             DoAuthorize(a, signers, new, who, custodian)
      PROVE  NotRaised
  <2>. DEFINE meta == WithAuthority(data[a].meta, who, new)
  <2>1. HasMeta(data[a]) /\ SetState(a, [data[a] EXCEPT !.meta = meta])
    BY <1>2 DEF DoAuthorize
  <2>. HIDE DEF meta
  <2>. QED
    BY <2>1, MetaWriteRaisesNot
<1>3. CASE \/ Authorize(S, a) \/ AuthorizeChecked(S, a)
           \/ AuthorizeWithSeed(S, a) \/ AuthorizeCheckedWithSeed(S, a)
  BY <1>2, <1>3
     DEF Authorize, AuthorizeChecked, AuthorizeWithSeed, AuthorizeCheckedWithSeed
<1>4. ASSUME NEW args, DoSetLockup(a, S, args)
      PROVE  NotRaised
  <2>. DEFINE meta == WithLockup(data[a].meta, args)
  <2>1. HasMeta(data[a]) /\ SetState(a, [data[a] EXCEPT !.meta = meta])
    BY <1>4 DEF DoSetLockup
  <2>. HIDE DEF meta
  <2>. QED
    BY <2>1, MetaWriteRaisesNot
<1>5. CASE SetLockup(S, a) \/ SetLockupChecked(S, a)
  BY <1>4, <1>5 DEF SetLockup, SetLockupChecked
<1>6. CASE \E v \in Voters : Delegate(S, a, v)
  BY <1>6, DelegateRaisesNot
<1>7. CASE \/ Deactivate(S, a)
           \/ \E delinquent, reference \in Voters :
                 DeactivateDelinquent(a, delinquent, reference)
  BY <1>7, DeactivateRaisesNot DEF Deactivate, DeactivateDelinquent
<1>8. CASE \E to \in Holders : Withdraw(S, a, to)
  <2>1. SetState(a, Closed) \/ data' = data
    BY <1>8 DEF Withdraw, WithdrawAll, WithdrawPart
  <2>2. Closed.kind # "Stake"
    BY DEF Closed
  <2>. QED
    BY <2>1, <2>2, FreeingRaisesNot
<1>9. CASE \E to \in Accounts : Merge(S, to, a)
  BY <1>9, MergeRaisesNot
<1>10. CASE \E to \in Accounts : \E n \in Amounts \cup {lamports[a]} :
               \/ SplitFull(S, a, to, n)
               \/ SplitInactive(S, a, to, n)
               \/ SplitActive(S, a, to, n)
               \/ MoveStake(S, a, to, n)
               \/ MoveLamports(S, a, to, n)
  <2>1. PICK to \in Accounts, n \in Amounts \cup {lamports[a]} :
               \/ SplitFull(S, a, to, n)
               \/ SplitInactive(S, a, to, n)
               \/ SplitActive(S, a, to, n)
               \/ MoveStake(S, a, to, n)
               \/ MoveLamports(S, a, to, n)
    BY <1>10
  <2>2. n \in Nat
    BY InputsOK, AccountOK
  <2>3. CASE MoveLamports(S, a, to, n)
    BY <2>3 DEF MoveLamports
  <2>. QED
    BY <2>1, <2>2, <2>3, SplitFullRaisesNot, SplitInactiveRaisesNot,
       SplitActiveRaisesLittle, MoveStakeRaisesNot
<1>. QED
  BY <1>1, <1>3, <1>5, <1>6, <1>7, <1>8, <1>9, <1>10


LEMMA StepRaisesLittle ==
  ASSUME Inv, Inv', AmountsKept, Unsaturated, [Next]_vars
  PROVE  NotRaised \/ data' = data
<1>1. ASSUME NEW S \in SignerSets, Process(S)
      PROVE  NotRaised \/ data' = data
  BY <1>1, ProcessRaisesLittle
<1>2. ASSUME NEW a \in Accounts, CreateAccount(a) \/ Reap(a)
      PROVE  NotRaised
  <2>1. PICK state \in {Uninitialized, NoAccount} : SetState(a, state)
    BY <1>2 DEF CreateAccount, Reap
  <2>2. state.kind # "Stake"
    BY DEF Uninitialized, NoAccount
  <2>. QED
    BY <2>1, <2>2, FreeingRaisesNot
<1>3. CASE \/ \E a \in Accounts, n \in Amounts : Deposit(a, n)
           \/ AdvanceEpoch \/ EndRewards \/ AdvanceTime \/ ChangeRent
           \/ \E v \in Voters : Vote(v)
           \/ UNCHANGED vars
  BY <1>3 DEF Deposit, AdvanceEpoch, EndRewards, AdvanceTime, ChangeRent, Vote, vars
<1>. QED
  BY <1>1, <1>2, <1>3, Zenon DEF Next, Runtime

(***************************************************************************)
(* There is no way around the warmup: within an epoch no instruction makes *)
(* more stake vote for a validator than did, but for the rounding of the   *)
(* parts when an account that is warming up or cooling down is split, a    *)
(* lamport for each epoch so far.  Stake that is not in force is neither   *)
(* merged nor moved into stake that is.  This holds whatever the rate lets *)
(* through.  There is no such bound on what is lost: merged, accounts that *)
(* were each let through for their last lamport have warmed up less.       *)
(***************************************************************************)
THEOREM EffectiveRaisedLittle == Spec /\ []Unsaturated => EffectiveNotRaised
<1>. DEFINE A == clock' = clock /\ data' # data =>
                    \A v \in Voters : EffectiveOf(v)' - EffectiveOf(v) <= clock.epoch
<1>1. ASSUME Inv, Inv', AmountsKept, Unsaturated, [Next]_vars,
             clock' = clock, data' # data, NEW v \in Voters
      PROVE  EffectiveOf(v)' - EffectiveOf(v) <= clock.epoch
  <2>1. NotRaised
    BY <1>1, StepRaisesLittle
  <2>2. history' = history
    <3>1. ~AdvanceEpoch
      BY <1>1 DEF AdvanceEpoch
    <3>. QED
      BY <1>1, <3>1, StepDescends
  <2>. QED
    BY <1>1, <2>1, <2>2, EffectiveRises
<1>2. Inv /\ Inv' /\ Counted /\ Unsaturated /\ [Next]_vars => [A]_vars
  BY <1>1 DEF Counted
<1>3. EffectiveNotRaised <=> [][A]_vars
  BY DEF EffectiveNotRaised
<1>. HIDE DEF A
<1>. QED
  BY <1>2, <1>3, Invariance, CountedKept, PTL DEF Spec

(***************************************************************************)
(* The products of the cluster's largest amounts leave room: the lamports  *)
(* outside the model and all that are in it at once do not saturate.       *)
(***************************************************************************)
RoomyCluster ==
    \A b \in Background :
        /\ Roomy(b.activating + Supply, b.effective + Supply, Supply)
        /\ Roomy(b.deactivating + Supply, b.effective + Supply, Supply)

\* Less leaves more room.
LEMMA RoomyKept ==
  ASSUME NEW moving \in Nat, NEW effective \in Nat, NEW most \in Nat,
         NEW less \in 0..moving, NEW fewer \in 0..effective,
         Roomy(moving, effective, most)
  PROVE  Roomy(less, fewer, most)
<1>1. BasisPoints \in Nat /\ RateBps \in Nat /\ MaxU128 \in Nat
  BY ActivationConstants
<1>. DEFINE lessPoints == less * BasisPoints
            points == moving * BasisPoints
            fewerRate == fewer * RateBps
            rate == effective * RateBps
<1>2. lessPoints <= points /\ fewerRate <= rate
  BY <1>1, ProductsOrdered
<1>3. lessPoints \in Nat /\ points \in Nat /\ fewerRate \in Nat /\ rate \in Nat
  BY <1>1, ProductPositive
<1>4. most * rate <= MaxU128 /\ points <= MaxU128
  BY DEF Roomy
<1>. HIDE DEF lessPoints, points, fewerRate, rate
<1>5. most * fewerRate <= most * rate
  BY <1>2, <1>3, ProductsOrdered
<1>6. most * fewerRate \in Nat /\ most * rate \in Nat
  BY <1>3, ProductPositive
<1>7. most * fewerRate <= MaxU128 /\ lessPoints <= MaxU128
  BY <1>1, <1>2, <1>3, <1>4, <1>5, <1>6
<1>. QED
  BY <1>7 DEF Roomy, lessPoints, fewerRate

\* So in no epoch that ends do the products saturate.
LEMMA UnsaturatedKept ==
  ASSUME RoomyCluster, Inv, LamportsKept, EffectiveStakeBacked, Unsaturated,
         [Next]_vars
  PROVE  Unsaturated'
<1>1. CASE ~AdvanceEpoch
  <2>1. history' = history
    BY <1>1, StepDescends
  <2>. QED
    BY <2>1 DEF Unsaturated, RoomyHistory
<1>2. CASE AdvanceEpoch
  <2>. DEFINE entry(b) == [effective    |-> ClusterTotal("effective", b),
                           activating   |-> ClusterTotal("activating", b),
                           deactivating |-> ClusterTotal("deactivating", b)]
              fits(x) == /\ Roomy(x.activating, x.effective, Supply)
                         /\ Roomy(x.deactivating, x.effective, Supply)
  <2>1. PICK b \in Background :
           history' = [e \in 0..clock.epoch |->
                         IF e < clock.epoch THEN history[e] ELSE entry(b)]
    BY <1>2 DEF AdvanceEpoch
  <2>2. b \in Entry /\ Supply \in Nat
    BY ProgramConstants, NumbersOK DEF Lamports, U64
  <2>3. b.effective \in Nat /\ b.activating \in Nat /\ b.deactivating \in Nat
    BY <2>2 DEF Entry
  <2>4. /\ ClusterTotal("effective", b) \in b.effective..(b.effective + Supply)
        /\ ClusterTotal("activating", b) \in b.activating..(b.activating + Supply)
        /\ ClusterTotal("deactivating", b) \in b.deactivating..(b.deactivating + Supply)
    <3>1. ASSUME NEW field \in {"effective", "activating", "deactivating"}
          PROVE  ClusterTotal(field, b) \in b[field]..(b[field] + Supply)
      BY <2>2, WithinLamports
    <3>. QED
      BY <3>1
  <2>5. fits(entry(b))
    <3>. DEFINE effective == ClusterTotal("effective", b)
                activating == ClusterTotal("activating", b)
                deactivating == ClusterTotal("deactivating", b)
                allEffective == b.effective + Supply
                allActivating == b.activating + Supply
                allDeactivating == b.deactivating + Supply
    <3>1. /\ Roomy(allActivating, allEffective, Supply)
          /\ Roomy(allDeactivating, allEffective, Supply)
      BY DEF RoomyCluster
    <3>2. /\ allActivating \in Nat /\ activating \in 0..allActivating
          /\ allDeactivating \in Nat /\ deactivating \in 0..allDeactivating
          /\ allEffective \in Nat /\ effective \in 0..allEffective
      BY <2>2, <2>3, <2>4
    <3>. HIDE DEF effective, activating, deactivating, allEffective, allActivating,
                  allDeactivating
    <3>3. Roomy(activating, effective, Supply) /\ Roomy(deactivating, effective, Supply)
      BY <2>2, <3>1, <3>2, RoomyKept
    <3>. QED
      BY <3>3 DEF effective, activating, deactivating
  <2>. HIDE DEF entry, fits
  <2>6. clock.epoch \in Nat /\ DOMAIN history = 0..(clock.epoch - 1)
    BY HistoryOK DEF Inv, SysvarsOK, Clock
  <2>7. \A e \in DOMAIN history : fits(history[e])
    BY DEF Unsaturated, RoomyHistory, fits
  <2>8. \A e \in 0..clock.epoch : e < clock.epoch => e \in 0..(clock.epoch - 1)
    BY <2>6
  <2>9. \A e \in DOMAIN history' : fits(history'[e])
    BY <2>1, <2>5, <2>6, <2>7, <2>8
  <2>. QED
    BY <2>9 DEF Unsaturated, RoomyHistory, fits
<1>. QED
  BY <1>1, <1>2

(***************************************************************************)
(* Where the amounts leave room nothing is assumed of the history: as long *)
(* as what is effective is covered by lamports, no product saturates, and  *)
(* no instruction makes more stake vote for a validator, but for rounding. *)
(***************************************************************************)
THEOREM RoomyClustersRaiseLittle ==
  ASSUME RoomyCluster
  PROVE  Spec /\ []EffectiveStakeBacked => []Unsaturated /\ EffectiveNotRaised
<1>1. Init => Unsaturated
  BY DEF Init, Unsaturated, RoomyHistory
<1>2. Inv /\ Counted /\ EffectiveStakeBacked /\ Unsaturated /\ [Next]_vars => Unsaturated'
  BY UnsaturatedKept DEF Counted
<1>3. Spec /\ []EffectiveStakeBacked => []Unsaturated
  BY <1>1, <1>2, Invariance, CountedKept, PTL DEF Spec
<1>. QED
  BY <1>3, EffectiveRaisedLittle, PTL

-----------------------------------------------------------------------------
(* What the withdrawer can do.                                             *)

\* The custodian's signature is the one that a lockup in force asks for.
LEMMA CosignerFrees ==
  ASSUME NEW meta
  PROVE  ~IsInForce(meta.lockup, clock, Cosigner(meta))
BY DEF Cosigner, IsInForce

\* There is room for the lamports of one holder at another.
LEMMA RoomFor ==
  ASSUME Inv, LamportsKept, NEW x \in Holders, NEW y \in Holders, x # y
  PROVE  lamports[x] + lamports[y] <= MaxU64
<1>. DEFINE l == lamports
            rest == Holders \ {x, y}
<1>1. \A h \in Holders : l[h] \in Nat
  BY Balances
<1>2. IsFiniteSet(Holders) /\ IsFiniteSet(rest)
  BY HoldersFinite, FS_Subset
<1>3. Total(l, Holders) = Supply /\ Supply \in Nat /\ Supply <= MaxU64 /\ MaxU64 \in Nat
  BY ProgramConstants, NumbersOK DEF LamportsKept, Lamports, U64
<1>. HIDE DEF l
<1>4. /\ Total(l, rest) \in Nat
      /\ Total(l, Holders) = l[x] + l[y] + Total(l, rest)
  <2>1. \A h \in Holders : l[h] \in Int
    BY <1>1
  <2>2. rest = Holders \ {x, y}
    OBVIOUS
  <2>3. \A h \in rest : l[h] \in Nat
    BY <1>1
  <2>. HIDE DEF rest
  <2>4. Total(l, Holders) = Part(l, Holders, x) + Part(l, Holders, y) + Total(l, rest)
    BY <1>2, <2>1, <2>2, TotalInParts
  <2>5. Total(l, rest) \in Nat
    BY <1>2, <2>3, TotalTyped
  <2>. QED
    BY <2>4, <2>5 DEF Part
<1>. HIDE DEF rest
<1>5. l[x] + l[y] <= MaxU64
  BY <1>1, <1>3, <1>4
<1>. QED
  BY <1>5 DEF l

(***************************************************************************)
(* Funds are never stuck: where locks are covered, what is not locked as   *)
(* stake can be withdrawn by the withdrawer, and the custodian if the      *)
(* lockup is in force, or by the account's own key as long as it has no    *)
(* authorities.  The step that takes the lamports, and closes the account  *)
(* when nothing of it is locked, is one that the program performs for that *)
(* order.                                                                  *)
(***************************************************************************)
THEOREM FundsCanLeave ==
  ASSUME Inv, LamportsKept, LocksCovered, ~rewards_active,
         NEW a \in Accounts, data[a] # NoAccount, NEW to, to \notin Accounts
  PROVE  LET owned     == HasMeta(data[a])
             authority == IF owned THEN data[a].meta.withdrawer ELSE a
             cosigner  == IF owned THEN Cosigner(data[a].meta) ELSE NoKey
             signers   == {authority} \cup ({cosigner} \ {NoKey})
             amount    == Unlocked(a)
         IN  /\ amount \in 0..lamports[a]
             /\ /\ lamports' = [lamports EXCEPT ![a] = @ - amount, ![Wallet] = @ + amount]
                /\ data' = IF LockedStake(a) = 0 THEN [data EXCEPT ![a] = Closed] ELSE data
                /\ UNCHANGED sysvars
                => Perform(Withdrawal(a, to, signers, cosigner, amount))
<1>. DEFINE owned     == HasMeta(data[a])
            authority == IF owned THEN data[a].meta.withdrawer ELSE a
            cosigner  == IF owned THEN Cosigner(data[a].meta) ELSE NoKey
            signers   == {authority} \cup ({cosigner} \ {NoKey})
            locked    == LockedStake(a)
            held      == lamports[a]
            amount    == Unlocked(a)
            r         == Withdrawal(a, to, signers, cosigner, amount)
<1>1. /\ a \in Holders /\ a # Wallet /\ Wallet \in Holders
      /\ held \in Nat /\ lamports[Wallet] \in Nat /\ rent \in Nat
  BY AccountOK, WalletHolds, Balances
<1>2. locked \in Nat /\ (~owned => locked = 0)
  <2>1. CASE IsStake(a)
    <3>1. Status(a).effective \in Nat /\ data[a].stake.stake \in Nat
      BY <2>1, StatusOK
    <3>. QED
      BY <2>1, <3>1 DEF LockedStake, IsStake, HasMeta
  <2>2. CASE ~IsStake(a)
    BY <2>2 DEF LockedStake
  <2>. QED
    BY <2>1, <2>2
<1>3. owned => held >= rent + locked
  BY DEF LocksCovered
<1>4. amount = IF locked = 0 THEN held ELSE held - locked - rent
  BY DEF Unlocked
<1>5. MayWithdraw(signers, a, cosigner)
  <2>1. CASE owned
    <3>1. ~IsInForce(data[a].meta.lockup, clock, cosigner)
      BY <2>1, CosignerFrees
    <3>2. Check(data[a].meta, signers, "Withdrawer")
      BY <2>1 DEF Check
    <3>. QED
      BY <2>1, <3>1, <3>2 DEF MayWithdraw
  <2>2. CASE ~owned
    <3>1. data[a] \in {Uninitialized, Closed}
      BY <2>2, AccountOK DEF AccountData, StakeStateV2, HasMeta
    <3>. QED
      BY <2>2, <3>1 DEF MayWithdraw
  <2>. QED
    BY <2>1, <2>2
<1>6. /\ r.op = "Withdraw" /\ r.from = a /\ r.to = to /\ r.signers = signers
      /\ r.custodian = cosigner /\ r.lamports = amount
  BY DEF Withdrawal
<1>7. held + lamports[Wallet] <= MaxU64 /\ MaxU64 \in Nat
  BY <1>1, RoomFor, NumbersOK
<1>8. Holder(to) = Wallet
  BY DEF Holder
<1>9. HasMeta(data[a]) <=> owned
  OBVIOUS
<1>. HIDE DEF owned, cosigner, signers, locked, held, amount, r
<1>10. amount \in 0..held /\ lamports[Wallet] + amount <= MaxU64
  BY <1>1, <1>2, <1>3, <1>4, <1>7
<1>11. ASSUME lamports' = [lamports EXCEPT ![a] = @ - amount, ![Wallet] = @ + amount],
              data' = IF locked = 0 THEN [data EXCEPT ![a] = Closed] ELSE data,
              UNCHANGED sysvars
       PROVE  Perform(r)
  <2>1. amount <= held
    BY <1>1, <1>10
  <2>2. Relocate(a, Wallet, amount)
    BY <1>10, <1>11, <2>1 DEF Relocate, held
  <2>3. CASE locked = 0
    <3>1. amount = held /\ SetState(a, Closed)
      BY <1>4, <1>11, <2>3 DEF SetState
    <3>2. WithdrawAll(signers, a, Wallet, cosigner)
      BY <1>1, <1>5, <1>11, <2>2, <2>3, <3>1 DEF WithdrawAll, locked, held
    <3>3. PerformWithdraw(r)
      BY <1>6, <1>8, <3>1, <3>2 DEF PerformWithdraw, held
    <3>. QED
      BY <1>6, <3>3 DEF Perform, PerformBetween
  <2>4. CASE locked # 0
    <3>1. data' = data /\ owned
      BY <1>2, <1>11, <2>4
    <3>2. amount # held /\ amount + (locked + rent) <= held
      BY <1>1, <1>2, <1>3, <1>4, <2>4, <3>1
    <3>3. WithdrawPart(signers, a, Wallet, amount, cosigner)
      BY <1>1, <1>5, <1>9, <1>11, <2>2, <3>1, <3>2 DEF WithdrawPart, locked, held
    <3>4. PerformWithdraw(r)
      BY <1>6, <1>8, <3>3 DEF PerformWithdraw
    <3>. QED
      BY <1>6, <3>4 DEF Perform, PerformBetween
  <2>. QED
    BY <2>3, <2>4
<1>. QED
  BY <1>10, <1>11 DEF owned, cosigner, signers, locked, held, amount, r

(***************************************************************************)
(* What is locked as stake comes free: as many epochs after its            *)
(* deactivation as it has lamports, at the latest, none of an account is   *)
(* locked, so that the withdrawer can take all of it.  Stake deactivated   *)
(* while it warmed up is assumed to be gone in time.                       *)
(***************************************************************************)
THEOREM FreedInTime ==
  Spec /\ []WarmedUpInTime =>
    [](\A a \in StakeAccounts :
          data[a].stake.deactivation_epoch + data[a].stake.stake <= clock.epoch
            => LockedStake(a) = 0)
<1>. DEFINE freed == \A a \in StakeAccounts :
               data[a].stake.deactivation_epoch + data[a].stake.stake <= clock.epoch
                 => LockedStake(a) = 0
<1>1. ASSUME Inv, CooldownProgresses, NEW a \in Accounts, IsStake(a),
             data[a].stake.deactivation_epoch + data[a].stake.stake <= clock.epoch
      PROVE  LockedStake(a) = 0
  <2>. DEFINE d == data[a].stake
  <2>1. /\ d.deactivation_epoch \in Nat /\ d.stake \in Nat /\ d.stake # 0
        /\ clock.epoch \in Nat /\ Status(a).effective \in Nat
    BY <1>1, DelegationOK, StatusOK DEF IsDelegation
  <2>2. d.deactivation_epoch < clock.epoch =>
          Status(a).effective <= SatSub(d.stake, clock.epoch - d.deactivation_epoch)
    BY <1>1 DEF CooldownProgresses, StakeAccounts
  <2>3. d.deactivation_epoch + d.stake <= clock.epoch
    BY <1>1
  <2>4. LockedStake(a) = IF clock.epoch >= d.deactivation_epoch
                         THEN Status(a).effective ELSE d.stake
    BY <1>1 DEF LockedStake
  <2>. HIDE DEF d
  <2>. QED
    BY <2>1, <2>2, <2>3, <2>4 DEF SatSub
<1>2. Inv /\ CooldownProgresses => freed
  BY <1>1 DEF StakeAccounts
<1>. HIDE DEF freed
<1>3. Spec /\ []WarmedUpInTime => []freed
  BY <1>2, Invariance, CooldownKeepsOn, PTL
<1>. QED
  BY <1>3 DEF freed

-----------------------------------------------------------------------------
(* What the other authorities can do.                                      *)

(***************************************************************************)
(* Authorities are never stuck: the staker hands on its own, the           *)
(* withdrawer both, with the custodian for the withdrawer's while the      *)
(* lockup is in force; and the custodian, or once it has expired the       *)
(* withdrawer, changes the lockup.  It does not matter who else signs.     *)
(***************************************************************************)
THEOREM AuthoritiesCanPass ==
  ASSUME ~rewards_active, NEW a \in Accounts, HasMeta(data[a]), NEW signers
  PROVE  LET meta   == data[a].meta
             master == IF Cosigner(meta) = NoKey THEN meta.withdrawer ELSE Cosigner(meta)
         IN  /\ \A new : \A handover \in Handovers(meta) :
                   LET holder    == handover[1]
                       who       == handover[2]
                       custodian == handover[3]
                   IN  /\ {holder} \cup ({custodian} \ {NoKey}) \subseteq signers
                       /\ data' = [data EXCEPT ![a].meta = WithAuthority(@, who, new)]
                       /\ UNCHANGED <<lamports, sysvars>>
                       => Perform(Authorization(a, signers, new, who, custodian))
             /\ \A change :
                   /\ master \in signers
                   /\ data' = [data EXCEPT ![a].meta = WithLockup(@, change)]
                   /\ UNCHANGED <<lamports, sysvars>>
                   => Perform(LockupChange(a, signers, change))
<1>. DEFINE meta == data[a].meta
            master == IF Cosigner(meta) = NoKey THEN meta.withdrawer ELSE Cosigner(meta)
<1>1. ASSUME NEW holder, NEW who, NEW custodian, NEW new,
             << holder, who, custodian >> \in Handovers(meta),
             {holder} \cup ({custodian} \ {NoKey}) \subseteq signers,
             data' = [data EXCEPT ![a].meta = WithAuthority(@, who, new)],
             UNCHANGED <<lamports, sysvars>>
      PROVE  Perform(Authorization(a, signers, new, who, custodian))
  <2>. DEFINE r == Authorization(a, signers, new, who, custodian)
  <2>1. MayAuthorize(meta, signers, who, clock, custodian)
    <3>1. CASE who = "Staker"
      <4>1. holder \in {meta.staker, meta.withdrawer} /\ holder \in signers
        BY <1>1, <3>1 DEF Handovers
      <4>. QED
        BY <3>1, <4>1 DEF MayAuthorize
    <3>2. CASE who # "Staker"
      <4>1. /\ who = "Withdrawer" /\ holder = meta.withdrawer
            /\ custodian = Cosigner(meta) /\ holder \in signers
        BY <1>1, <3>2 DEF Handovers
      <4>2. ~IsInForce(meta.lockup, clock, custodian)
        BY <4>1, CosignerFrees
      <4>3. IsInForce(meta.lockup, clock, NoKey) => custodian \in signers
        <5>1. IsInForce(meta.lockup, clock, NoKey) => custodian # NoKey
          BY <4>1 DEF Cosigner, IsInForce
        <5>. QED
          BY <1>1, <5>1
      <4>4. Check(meta, signers, who)
        BY <4>1 DEF Check
      <4>. QED
        BY <4>1, <4>2, <4>3, <4>4 DEF MayAuthorize
    <3>. QED
      BY <3>1, <3>2
  <2>2. DoAuthorize(a, signers, new, who, custodian)
    <3>1. SetState(a, [data[a] EXCEPT !.meta = WithAuthority(@, who, new)])
      BY <1>1 DEF SetState
    <3>. QED
      BY <1>1, <2>1, <3>1 DEF DoAuthorize
  <2>3. /\ r.op = "Authorize" /\ r.stake = a /\ r.signers = signers /\ r.new = new
        /\ r.who = who /\ r.custodian = custodian
    BY DEF Authorization
  <2>. HIDE DEF r
  <2>4. PerformOnStake(r)
    BY <2>2, <2>3 DEF PerformOnStake
  <2>5. Perform(r)
    BY <2>4 DEF Perform
  <2>. QED
    BY <2>5 DEF r
<1>2. ASSUME NEW change, master \in signers,
             data' = [data EXCEPT ![a].meta = WithLockup(@, change)],
             UNCHANGED <<lamports, sysvars>>
      PROVE  Perform(LockupChange(a, signers, change))
  <2>. DEFINE r == LockupChange(a, signers, change)
  <2>1. MaySetLockup(meta, signers, clock)
    BY <1>2 DEF MaySetLockup, Cosigner, IsInForce
  <2>2. DoSetLockup(a, signers, change)
    <3>1. SetState(a, [data[a] EXCEPT !.meta = WithLockup(@, change)])
      BY <1>2 DEF SetState
    <3>. QED
      BY <1>2, <2>1, <3>1 DEF DoSetLockup
  <2>3. r.op = "SetLockup" /\ r.stake = a /\ r.signers = signers /\ r.lockup = change
    BY DEF LockupChange
  <2>. HIDE DEF r
  <2>4. PerformOnStake(r)
    BY <2>2, <2>3 DEF PerformOnStake
  <2>5. Perform(r)
    BY <2>4 DEF Perform
  <2>. QED
    BY <2>5 DEF r
<1>3. \A handover \in Handovers(meta) :
         handover = << handover[1], handover[2], handover[3] >>
  BY DEF Handovers
<1>. QED
  BY <1>1, <1>2, <1>3

(***************************************************************************)
(* Stake is never stuck either: the staker deactivates a delegation at any *)
(* time, and delegates to any validator what is not effective; what it     *)
(* deactivated in this epoch it delegates to the same validator again,     *)
(* while the lamports for it are still there.                              *)
(***************************************************************************)
THEOREM StakeCanChange ==
  ASSUME Inv, ~rewards_active, NEW a \in Accounts, HasMeta(data[a]),
         NEW signers, data[a].meta.staker \in signers
  PROVE  /\ /\ IsStake(a) /\ data[a].stake.deactivation_epoch = Never
            /\ data' = [data EXCEPT ![a].stake.deactivation_epoch = clock.epoch]
            /\ UNCHANGED <<lamports, sysvars>>
            => Perform(Deactivation(a, signers))
         /\ \A v \in Delegable(a) :
               LET amount == SatSub(lamports[a], rent)
                   fresh  == NewStake(amount, v, Credits(v), clock.epoch)
               IN  /\ amount >= MinimumDelegation
                   /\ data' = [data EXCEPT ![a] =
                                  IF IsStake(a) /\ Status(a).effective # 0
                                  THEN [data[a] EXCEPT !.stake.deactivation_epoch = Never]
                                  ELSE Staked(data[a].meta, fresh)]
                   /\ UNCHANGED <<lamports, sysvars>>
                   => Perform(Delegation(a, signers, v))
<1>. DEFINE amount == SatSub(lamports[a], rent)
            fresh(v) == NewStake(amount, v, Credits(v), clock.epoch)
<1>1. Check(data[a].meta, signers, "Staker")
  BY DEF Check
<1>2. ASSUME IsStake(a), data[a].stake.deactivation_epoch = Never,
             data' = [data EXCEPT ![a].stake.deactivation_epoch = clock.epoch],
             UNCHANGED <<lamports, sysvars>>
      PROVE  Perform(Deactivation(a, signers))
  <2>. DEFINE r == Deactivation(a, signers)
  <2>1. SetState(a, [data[a] EXCEPT !.stake.deactivation_epoch = clock.epoch])
    BY <1>2 DEF SetState
  <2>2. Deactivate(signers, a)
    BY <1>1, <1>2, <2>1 DEF Deactivate, DoDeactivate
  <2>3. r.op = "Deactivate" /\ r.stake = a /\ r.signers = signers
    BY DEF Deactivation
  <2>. HIDE DEF r
  <2>4. PerformOnStake(r)
    BY <2>2, <2>3 DEF PerformOnStake
  <2>5. Perform(r)
    BY <2>4 DEF Perform
  <2>. QED
    BY <2>5 DEF r
<1>3. ASSUME NEW v \in Delegable(a), amount >= MinimumDelegation,
             data' = [data EXCEPT ![a] =
                        IF IsStake(a) /\ Status(a).effective # 0
                        THEN [data[a] EXCEPT !.stake.deactivation_epoch = Never]
                        ELSE Staked(data[a].meta, fresh(v))],
             UNCHANGED <<lamports, sysvars>>
      PROVE  Perform(Delegation(a, signers, v))
  <2>. DEFINE r == Delegation(a, signers, v)
  <2>1. v \in Voters
    <3>1. IsStake(a) => data[a].stake.voter_pubkey \in Voters
      BY DelegationOK DEF Stake
    <3>. QED
      BY <3>1 DEF Delegable
  <2>2. Delegate(signers, a, v)
    <3>1. CASE IsStake(a) /\ Status(a).effective # 0
      <4>1. MayRescind(data[a].stake, v, amount)
        BY <1>3, <3>1 DEF Delegable, MayRescind
      <4>2. SetState(a, [data[a] EXCEPT !.stake.deactivation_epoch = Never])
        BY <1>3, <3>1 DEF SetState
      <4>. HIDE DEF amount
      <4>. QED
        BY <1>1, <1>3, <3>1, <4>1, <4>2 DEF Delegate, amount
    <3>2. CASE ~(IsStake(a) /\ Status(a).effective # 0)
      <4>1. SetState(a, Staked(data[a].meta, fresh(v)))
        BY <1>3, <3>2 DEF SetState
      <4>. QED
        BY <1>1, <1>3, <3>2, <4>1 DEF Delegate
    <3>. QED
      BY <3>1, <3>2
  <2>3. r.op = "DelegateStake" /\ r.stake = a /\ r.signers = signers /\ r.vote = v
    BY DEF Delegation
  <2>. HIDE DEF r
  <2>4. PerformOnStake(r)
    BY <2>1, <2>2, <2>3 DEF PerformOnStake
  <2>5. Perform(r)
    BY <2>4 DEF Perform
  <2>. QED
    BY <2>5 DEF r
<1>. QED
  BY <1>2, <1>3

=============================================================================
