------------------------- MODULE StakeInterfaceProofs -------------------------
(***************************************************************************)
(* What a builder of the interface crate builds, the processor reads as    *)
(* the operation that was meant: for every choice of keys, which may be    *)
(* the same in several places, lockups and amounts.                        *)
(***************************************************************************)
EXTENDS StakeInterface, TLAPS

-----------------------------------------------------------------------------
(* How a message merges the flags of the accounts of one instruction.      *)

SignsAs(m, k) == m.is_signer /\ k = m.pubkey
WritesAs(m, k) == m.is_writable /\ k = m.pubkey

Signed(metas) == {m.pubkey : m \in {n \in metas : n.is_signer}}
Written(metas) == {m.pubkey : m \in {n \in metas : n.is_writable}}

\* S are the keys that sign, and W those that are writable.
Merged(metas, S, W) ==
    \A k : /\ k \in S <=> \E m \in metas : SignsAs(m, k)
           /\ k \in W <=> \E m \in metas : WritesAs(m, k)

\* An account info, for the signers S and the writable accounts W.
Info(m, S, W) ==
    [pubkey |-> m.pubkey, is_signer |-> m.pubkey \in S,
     is_writable |-> m.pubkey \in W]

\* The account info at a place of the list.
Shown(info, key, S, W) ==
    /\ info.pubkey = key
    /\ info.is_signer <=> key \in S
    /\ info.is_writable <=> key \in W

Answer(name, list, args, W) ==
    LET operation == process(name, list, args)
    IN  IF Writes(operation) \subseteq W THEN operation ELSE Refused

\* A key signs if a meta that names it signs, and is writable likewise.
LEMMA SignedOne ==
  \A metas, k :
     /\ k \in Signed(metas) <=> \E m \in metas : SignsAs(m, k)
     /\ k \in Written(metas) <=> \E m \in metas : WritesAs(m, k)
BY DEF Signed, Written, SignsAs, WritesAs

\* The metas that the builders put in their lists.
LEMMA Flags ==
  ASSUME NEW key
  PROVE  /\ LET m == Writable(key, FALSE) IN
               /\ m.pubkey = key
               /\ \A k : ~SignsAs(m, k) /\ (WritesAs(m, k) <=> k = key)
         /\ LET m == Readonly(key, FALSE) IN
               /\ m.pubkey = key
               /\ \A k : ~SignsAs(m, k) /\ ~WritesAs(m, k)
         /\ LET m == Readonly(key, TRUE) IN
               /\ m.pubkey = key
               /\ \A k : (SignsAs(m, k) <=> k = key) /\ ~WritesAs(m, k)
BY DEF Writable, Readonly, SignsAs, WritesAs

LEMMA InfoShown ==
  ASSUME NEW m, NEW S, NEW W
  PROVE  Shown(Info(m, S, W), m.pubkey, S, W)
BY DEF Info, Shown

\* What the processor gets of an instruction that is alone in its message.
LEMMA ReadList ==
  ASSUME NEW name, NEW args, NEW accounts, NEW metas,
         metas = {accounts[j] : j \in DOMAIN accounts}
  PROVE  Alone(Instruction(name, args, accounts))
           = Answer(name, Loaded(accounts, Signed(metas), Written(metas)), args,
                    Written(metas))
<1> DEFINE ix == Instruction(name, args, accounts)
<1>1. ix.name = name /\ ix.args = args /\ ix.accounts = accounts
  BY DEF Instruction
<1>2. Mentions(<< ix >>) = {ix.accounts[j] : j \in DOMAIN ix.accounts}
  BY DEF Mentions
<1> HIDE DEF ix
<1>3. Mentions(<< ix >>) = metas
  BY <1>1, <1>2
<1>4. SignerKeys(<< ix >>) = Signed(metas)
      /\ WritableKeys(<< ix >>) = Written(metas)
  BY <1>3 DEF SignerKeys, WritableKeys, Signed, Written
<1>5. Alone(ix)
        = Answer(name, Loaded(accounts, Signed(metas), Written(metas)), args,
                         Written(metas))
  BY <1>1, <1>4 DEF Alone, Read, Answer
<1> QED
  BY <1>5 DEF ix

\* The same for lists of two to six accounts, place by place: the list L has
\* the keys of the metas, a key signs or is writable wherever it is listed, and
\* the signers are those of the message.
LEMMA Read2 ==
  ASSUME NEW name, NEW args, NEW m1, NEW m2,
         NEW S, NEW W, Merged({m1, m2}, S, W)
  PROVE  \E L :
            /\ Alone(Instruction(name, args, << m1, m2 >>))
                 = Answer(name, L, args, W)
            /\ collect_signers(L) = S
            /\ Len(L) = 2 /\ DOMAIN L = 1..2
            /\ Shown(L[1], m1.pubkey, S, W)
            /\ Shown(L[2], m2.pubkey, S, W)
<1> DEFINE accounts == << m1, m2 >>
           metas == {m1, m2}
           L == << Info(m1, S, W), Info(m2, S, W) >>
<1>1. {accounts[j] : j \in DOMAIN accounts} = metas
  OBVIOUS
<1>2. Loaded(accounts, S, W) = L
  BY DEF Loaded, Info
<1>3. /\ Len(L) = 2 /\ DOMAIN L = 1..2
      /\ Shown(L[1], m1.pubkey, S, W)
      /\ Shown(L[2], m2.pubkey, S, W)
  BY InfoShown
<1> HIDE DEF L
<1>4. collect_signers(L) = S
  <2>1. \A k : k \in collect_signers(L) <=>
                 \E j \in 1..2 : L[j].is_signer /\ k = L[j].pubkey
    BY <1>3 DEF collect_signers
  <2>2. \A j : j \in 1..2 <=> j \in {1, 2}
    OBVIOUS
  <2>3. \A k : k \in collect_signers(L) <=>
                 k \in S /\ k \in {m1.pubkey, m2.pubkey}
    BY <1>3, <2>1, <2>2 DEF Shown
  <2>4. \A k \in S : k \in {m1.pubkey, m2.pubkey}
    BY DEF Merged, SignsAs
  <2> QED
    BY <2>3, <2>4
<1>5. S = Signed(metas) /\ W = Written(metas)
  <2> HIDE DEF metas
  <2>1. Merged(metas, S, W)
    BY DEF metas
  <2> QED
    BY <2>1, SignedOne DEF Merged
<1> HIDE DEF accounts, metas
<1>6. Alone(Instruction(name, args, accounts)) = Answer(name, L, args, W)
  BY <1>1, <1>2, <1>5, ReadList
<1> QED
  BY <1>3, <1>4, <1>6 DEF accounts

\* The list of 3 accounts.
LEMMA Read3 ==
  ASSUME NEW name, NEW args, NEW m1, NEW m2, NEW m3,
         NEW S, NEW W, Merged({m1, m2, m3}, S, W)
  PROVE  \E L :
            /\ Alone(Instruction(name, args, << m1, m2, m3 >>))
                 = Answer(name, L, args, W)
            /\ collect_signers(L) = S
            /\ Len(L) = 3 /\ DOMAIN L = 1..3
            /\ Shown(L[1], m1.pubkey, S, W)
            /\ Shown(L[2], m2.pubkey, S, W)
            /\ Shown(L[3], m3.pubkey, S, W)
<1> DEFINE accounts == << m1, m2, m3 >>
           metas == {m1, m2, m3}
           L == << Info(m1, S, W), Info(m2, S, W), Info(m3, S, W) >>
<1>1. {accounts[j] : j \in DOMAIN accounts} = metas
  OBVIOUS
<1>2. Loaded(accounts, S, W) = L
  BY DEF Loaded, Info
<1>3. /\ Len(L) = 3 /\ DOMAIN L = 1..3
      /\ Shown(L[1], m1.pubkey, S, W)
      /\ Shown(L[2], m2.pubkey, S, W)
      /\ Shown(L[3], m3.pubkey, S, W)
  BY InfoShown
<1> HIDE DEF L
<1>4. collect_signers(L) = S
  <2>1. \A k : k \in collect_signers(L) <=>
                 \E j \in 1..3 : L[j].is_signer /\ k = L[j].pubkey
    BY <1>3 DEF collect_signers
  <2>2. \A j : j \in 1..3 <=> j \in {1, 2, 3}
    OBVIOUS
  <2>3. \A k : k \in collect_signers(L) <=>
                 k \in S /\ k \in {m1.pubkey, m2.pubkey, m3.pubkey}
    BY <1>3, <2>1, <2>2 DEF Shown
  <2>4. \A k \in S : k \in {m1.pubkey, m2.pubkey, m3.pubkey}
    BY DEF Merged, SignsAs
  <2> QED
    BY <2>3, <2>4
<1>5. S = Signed(metas) /\ W = Written(metas)
  <2> HIDE DEF metas
  <2>1. Merged(metas, S, W)
    BY DEF metas
  <2> QED
    BY <2>1, SignedOne DEF Merged
<1> HIDE DEF accounts, metas
<1>6. Alone(Instruction(name, args, accounts)) = Answer(name, L, args, W)
  BY <1>1, <1>2, <1>5, ReadList
<1> QED
  BY <1>3, <1>4, <1>6 DEF accounts

\* The list of 4 accounts.
LEMMA Read4 ==
  ASSUME NEW name, NEW args, NEW m1, NEW m2, NEW m3, NEW m4,
         NEW S, NEW W, Merged({m1, m2, m3, m4}, S, W)
  PROVE  \E L :
            /\ Alone(Instruction(name, args, << m1, m2, m3, m4 >>))
                 = Answer(name, L, args, W)
            /\ collect_signers(L) = S
            /\ Len(L) = 4 /\ DOMAIN L = 1..4
            /\ Shown(L[1], m1.pubkey, S, W)
            /\ Shown(L[2], m2.pubkey, S, W)
            /\ Shown(L[3], m3.pubkey, S, W)
            /\ Shown(L[4], m4.pubkey, S, W)
<1> DEFINE accounts == << m1, m2, m3, m4 >>
           metas == {m1, m2, m3, m4}
           L == << Info(m1, S, W), Info(m2, S, W), Info(m3, S, W), Info(m4, S,
                   W) >>
<1>1. {accounts[j] : j \in DOMAIN accounts} = metas
  OBVIOUS
<1>2. Loaded(accounts, S, W) = L
  BY DEF Loaded, Info
<1>3. /\ Len(L) = 4 /\ DOMAIN L = 1..4
      /\ Shown(L[1], m1.pubkey, S, W)
      /\ Shown(L[2], m2.pubkey, S, W)
      /\ Shown(L[3], m3.pubkey, S, W)
      /\ Shown(L[4], m4.pubkey, S, W)
  BY InfoShown
<1> HIDE DEF L
<1>4. collect_signers(L) = S
  <2>1. \A k : k \in collect_signers(L) <=>
                 \E j \in 1..4 : L[j].is_signer /\ k = L[j].pubkey
    BY <1>3 DEF collect_signers
  <2>2. \A j : j \in 1..4 <=> j \in {1, 2, 3, 4}
    OBVIOUS
  <2>3. \A k : k \in collect_signers(L) <=>
                 k \in S /\ k \in {m1.pubkey, m2.pubkey, m3.pubkey, m4.pubkey}
    BY <1>3, <2>1, <2>2 DEF Shown
  <2>4. \A k \in S : k \in {m1.pubkey, m2.pubkey, m3.pubkey, m4.pubkey}
    BY DEF Merged, SignsAs
  <2> QED
    BY <2>3, <2>4
<1>5. S = Signed(metas) /\ W = Written(metas)
  <2> HIDE DEF metas
  <2>1. Merged(metas, S, W)
    BY DEF metas
  <2> QED
    BY <2>1, SignedOne DEF Merged
<1> HIDE DEF accounts, metas
<1>6. Alone(Instruction(name, args, accounts)) = Answer(name, L, args, W)
  BY <1>1, <1>2, <1>5, ReadList
<1> QED
  BY <1>3, <1>4, <1>6 DEF accounts

\* The list of 5 accounts.
LEMMA Read5 ==
  ASSUME NEW name, NEW args, NEW m1, NEW m2, NEW m3, NEW m4, NEW m5,
         NEW S, NEW W, Merged({m1, m2, m3, m4, m5}, S, W)
  PROVE  \E L :
            /\ Alone(Instruction(name, args, << m1, m2, m3, m4, m5 >>))
                 = Answer(name, L, args, W)
            /\ collect_signers(L) = S
            /\ Len(L) = 5 /\ DOMAIN L = 1..5
            /\ Shown(L[1], m1.pubkey, S, W)
            /\ Shown(L[2], m2.pubkey, S, W)
            /\ Shown(L[3], m3.pubkey, S, W)
            /\ Shown(L[4], m4.pubkey, S, W)
            /\ Shown(L[5], m5.pubkey, S, W)
<1> DEFINE accounts == << m1, m2, m3, m4, m5 >>
           metas == {m1, m2, m3, m4, m5}
           L == << Info(m1, S, W), Info(m2, S, W), Info(m3, S, W), Info(m4, S,
                   W), Info(m5, S, W) >>
<1>1. {accounts[j] : j \in DOMAIN accounts} = metas
  OBVIOUS
<1>2. Loaded(accounts, S, W) = L
  BY DEF Loaded, Info
<1>3. /\ Len(L) = 5 /\ DOMAIN L = 1..5
      /\ Shown(L[1], m1.pubkey, S, W)
      /\ Shown(L[2], m2.pubkey, S, W)
      /\ Shown(L[3], m3.pubkey, S, W)
      /\ Shown(L[4], m4.pubkey, S, W)
      /\ Shown(L[5], m5.pubkey, S, W)
  BY InfoShown
<1> HIDE DEF L
<1>4. collect_signers(L) = S
  <2>1. \A k : k \in collect_signers(L) <=>
                 \E j \in 1..5 : L[j].is_signer /\ k = L[j].pubkey
    BY <1>3 DEF collect_signers
  <2>2. \A j : j \in 1..5 <=> j \in {1, 2, 3, 4, 5}
    OBVIOUS
  <2>3. \A k : k \in collect_signers(L) <=>
                 k \in S /\ k \in {m1.pubkey, m2.pubkey, m3.pubkey,
                                   m4.pubkey, m5.pubkey}
    BY <1>3, <2>1, <2>2 DEF Shown
  <2>4. \A k \in S : k \in {m1.pubkey, m2.pubkey, m3.pubkey, m4.pubkey,
                            m5.pubkey}
    BY DEF Merged, SignsAs
  <2> QED
    BY <2>3, <2>4
<1>5. S = Signed(metas) /\ W = Written(metas)
  <2> HIDE DEF metas
  <2>1. Merged(metas, S, W)
    BY DEF metas
  <2> QED
    BY <2>1, SignedOne DEF Merged
<1> HIDE DEF accounts, metas
<1>6. Alone(Instruction(name, args, accounts)) = Answer(name, L, args, W)
  BY <1>1, <1>2, <1>5, ReadList
<1> QED
  BY <1>3, <1>4, <1>6 DEF accounts

\* The list of 6 accounts.
LEMMA Read6 ==
  ASSUME NEW name, NEW args, NEW m1, NEW m2, NEW m3, NEW m4, NEW m5, NEW m6,
         NEW S, NEW W, Merged({m1, m2, m3, m4, m5, m6}, S, W)
  PROVE  \E L :
            /\ Alone(Instruction(name, args, << m1, m2, m3, m4, m5, m6 >>))
                 = Answer(name, L, args, W)
            /\ collect_signers(L) = S
            /\ Len(L) = 6 /\ DOMAIN L = 1..6
            /\ Shown(L[1], m1.pubkey, S, W)
            /\ Shown(L[2], m2.pubkey, S, W)
            /\ Shown(L[3], m3.pubkey, S, W)
            /\ Shown(L[4], m4.pubkey, S, W)
            /\ Shown(L[5], m5.pubkey, S, W)
            /\ Shown(L[6], m6.pubkey, S, W)
<1> DEFINE accounts == << m1, m2, m3, m4, m5, m6 >>
           metas == {m1, m2, m3, m4, m5, m6}
           L == << Info(m1, S, W), Info(m2, S, W), Info(m3, S, W), Info(m4, S,
                   W), Info(m5, S, W), Info(m6, S, W) >>
<1>1. {accounts[j] : j \in DOMAIN accounts} = metas
  OBVIOUS
<1>2. Loaded(accounts, S, W) = L
  BY DEF Loaded, Info
<1>3. /\ Len(L) = 6 /\ DOMAIN L = 1..6
      /\ Shown(L[1], m1.pubkey, S, W)
      /\ Shown(L[2], m2.pubkey, S, W)
      /\ Shown(L[3], m3.pubkey, S, W)
      /\ Shown(L[4], m4.pubkey, S, W)
      /\ Shown(L[5], m5.pubkey, S, W)
      /\ Shown(L[6], m6.pubkey, S, W)
  BY InfoShown
<1> HIDE DEF L
<1>4. collect_signers(L) = S
  <2>1. \A k : k \in collect_signers(L) <=>
                 \E j \in 1..6 : L[j].is_signer /\ k = L[j].pubkey
    BY <1>3 DEF collect_signers
  <2>2. \A j : j \in 1..6 <=> j \in {1, 2, 3, 4, 5, 6}
    OBVIOUS
  <2>3. \A k : k \in collect_signers(L) <=>
                 k \in S /\ k \in {m1.pubkey, m2.pubkey, m3.pubkey,
                                   m4.pubkey, m5.pubkey, m6.pubkey}
    BY <1>3, <2>1, <2>2 DEF Shown
  <2>4. \A k \in S : k \in {m1.pubkey, m2.pubkey, m3.pubkey, m4.pubkey,
                            m5.pubkey, m6.pubkey}
    BY DEF Merged, SignsAs
  <2> QED
    BY <2>3, <2>4
<1>5. S = Signed(metas) /\ W = Written(metas)
  <2> HIDE DEF metas
  <2>1. Merged(metas, S, W)
    BY DEF metas
  <2> QED
    BY <2>1, SignedOne DEF Merged
<1> HIDE DEF accounts, metas
<1>6. Alone(Instruction(name, args, accounts)) = Answer(name, L, args, W)
  BY <1>1, <1>2, <1>5, ReadList
<1> QED
  BY <1>3, <1>4, <1>6 DEF accounts

-----------------------------------------------------------------------------
(* The builders and the functions that read what they build.               *)

\* What an operation writes.
LEMMA WritesOne ==
  ASSUME NEW stake, NEW signers, NEW x, NEW y, NEW z
  PROVE  /\ Writes(Authorization(stake, signers, x, y, z)) = {stake}
         /\ Writes(LockupChange(stake, signers, x)) = {stake}
         /\ Writes(Delegation(stake, signers, x)) = {stake}
         /\ Writes(Deactivation(stake, signers)) = {stake}
BY DEF Writes, Authorization, LockupChange, Delegation, Deactivation

LEMMA WritesUnsigned ==
  ASSUME NEW stake, NEW x, NEW y, NEW z
  PROVE  /\ Writes(Initialization(stake, x, y, z)) = {stake}
         /\ Writes(ForcedDeactivation(stake, x, y)) = {stake}
BY DEF Writes, Initialization, ForcedDeactivation

LEMMA WritesTwo ==
  ASSUME NEW from, NEW to, NEW signers, NEW x, NEW y
  PROVE  /\ Writes(Withdrawal(from, to, signers, x, y)) = {from, to}
         /\ Writes(Merging(to, from, signers)) = {from, to}
         /\ Writes(Moving(x, from, to, signers, y)) = {from, to}
BY DEF Writes, Withdrawal, Merging, Moving

\* Optional accounts, given and not.
LEMMA KeyGiven ==
  /\ \A info : info.pubkey \in Keys => KeyOf(info) = {info.pubkey}
  /\ KeyOf(Absent) = {} /\ Absent.pubkey = NoKey
BY MetaConstants DEF KeyOf, Absent

\* Appending to a list of 2.
LEMMA Appended2 ==
  ASSUME NEW S, NEW s \in Seq(S), NEW m \in S
  PROVE  Len(s) = 2 => Append(s, m) = << s[1], s[2], m >>
<1> DEFINE t == Append(s, m)
<1>1. t \in Seq(S)
  OBVIOUS
<1>2. Len(t) = Len(s) + 1
  OBVIOUS
<1>3. t[Len(s) + 1] = m
  OBVIOUS
<1>4. \A i \in 1..Len(s) : t[i] = s[i]
  OBVIOUS
<1> HIDE DEF t
<1> SUFFICES ASSUME Len(s) = 2 PROVE t = << s[1], s[2], m >>
  BY DEF t
<1>5. Len(t) = 3 /\ t[3] = m
  BY <1>2, <1>3
<1>6. t[1] = s[1] /\ t[2] = s[2]
  BY <1>4
<1>7. t = [i \in 1..3 |-> t[i]]
  BY <1>1, <1>5
<1> QED
  BY <1>5, <1>6, <1>7

\* An optional account that is given comes after the 2 others, and signs.
LEMMA Optional2 ==
  ASSUME NEW m1, NEW m2, NEW key \in Keys
  PROVE  WithOptional(<< m1, m2 >>, key)
           = << m1, m2, Readonly(key, TRUE) >>
<1> DEFINE m == Readonly(key, TRUE)
           S == {m1, m2, m}
<1>1. << m1, m2 >> \in Seq(S) /\ m \in S /\ Len(<< m1, m2 >>) = 2
  OBVIOUS
<1>2. << m1, m2 >>[1] = m1 /\ << m1, m2 >>[2] = m2
  OBVIOUS
<1> HIDE DEF S, m
<1>3. Append(<< m1, m2 >>, m) = << m1, m2, m >>
  BY <1>1, <1>2, Appended2
<1>4. key # NoKey
  BY MetaConstants
<1> QED
  BY Zenon, <1>3, <1>4 DEF WithOptional, m

\* Appending to a list of 3.
LEMMA Appended3 ==
  ASSUME NEW S, NEW s \in Seq(S), NEW m \in S
  PROVE  Len(s) = 3 => Append(s, m) = << s[1], s[2], s[3], m >>
<1> DEFINE t == Append(s, m)
<1>1. t \in Seq(S)
  OBVIOUS
<1>2. Len(t) = Len(s) + 1
  OBVIOUS
<1>3. t[Len(s) + 1] = m
  OBVIOUS
<1>4. \A i \in 1..Len(s) : t[i] = s[i]
  OBVIOUS
<1> HIDE DEF t
<1> SUFFICES ASSUME Len(s) = 3 PROVE t = << s[1], s[2], s[3], m >>
  BY DEF t
<1>5. Len(t) = 4 /\ t[4] = m
  BY <1>2, <1>3
<1>6. t[1] = s[1] /\ t[2] = s[2] /\ t[3] = s[3]
  BY <1>4
<1>7. t = [i \in 1..4 |-> t[i]]
  BY <1>1, <1>5
<1> QED
  BY <1>5, <1>6, <1>7

\* An optional account that is given comes after the 3 others, and signs.
LEMMA Optional3 ==
  ASSUME NEW m1, NEW m2, NEW m3, NEW key \in Keys
  PROVE  WithOptional(<< m1, m2, m3 >>, key)
           = << m1, m2, m3, Readonly(key, TRUE) >>
<1> DEFINE m == Readonly(key, TRUE)
           S == {m1, m2, m3, m}
<1>1. << m1, m2, m3 >> \in Seq(S) /\ m \in S /\ Len(<< m1, m2, m3 >>) = 3
  OBVIOUS
<1>2. << m1, m2, m3 >>[1] = m1 /\ << m1, m2, m3 >>[2] = m2
      /\ << m1, m2, m3 >>[3] = m3
  OBVIOUS
<1> HIDE DEF S, m
<1>3. Append(<< m1, m2, m3 >>, m) = << m1, m2, m3, m >>
  BY <1>1, <1>2, Appended3
<1>4. key # NoKey
  BY MetaConstants
<1> QED
  BY Zenon, <1>3, <1>4 DEF WithOptional, m

\* Appending to a list of 4.
LEMMA Appended4 ==
  ASSUME NEW S, NEW s \in Seq(S), NEW m \in S
  PROVE  Len(s) = 4 => Append(s, m) = << s[1], s[2], s[3], s[4], m >>
<1> DEFINE t == Append(s, m)
<1>1. t \in Seq(S)
  OBVIOUS
<1>2. Len(t) = Len(s) + 1
  OBVIOUS
<1>3. t[Len(s) + 1] = m
  OBVIOUS
<1>4. \A i \in 1..Len(s) : t[i] = s[i]
  OBVIOUS
<1> HIDE DEF t
<1> SUFFICES ASSUME Len(s) = 4 PROVE t = << s[1], s[2], s[3], s[4], m >>
  BY DEF t
<1>5. Len(t) = 5 /\ t[5] = m
  BY <1>2, <1>3
<1>6. t[1] = s[1] /\ t[2] = s[2] /\ t[3] = s[3] /\ t[4] = s[4]
  BY <1>4
<1>7. t = [i \in 1..5 |-> t[i]]
  BY <1>1, <1>5
<1> QED
  BY <1>5, <1>6, <1>7

\* An optional account that is given comes after the 4 others, and signs.
LEMMA Optional4 ==
  ASSUME NEW m1, NEW m2, NEW m3, NEW m4, NEW key \in Keys
  PROVE  WithOptional(<< m1, m2, m3, m4 >>, key)
           = << m1, m2, m3, m4, Readonly(key, TRUE) >>
<1> DEFINE m == Readonly(key, TRUE)
           S == {m1, m2, m3, m4, m}
<1>1. << m1, m2, m3, m4 >> \in Seq(S) /\ m \in S
      /\ Len(<< m1, m2, m3, m4 >>) = 4
  OBVIOUS
<1>2. << m1, m2, m3, m4 >>[1] = m1 /\ << m1, m2, m3, m4 >>[2] = m2
      /\ << m1, m2, m3, m4 >>[3] = m3 /\ << m1, m2, m3, m4 >>[4] = m4
  OBVIOUS
<1> HIDE DEF S, m
<1>3. Append(<< m1, m2, m3, m4 >>, m) = << m1, m2, m3, m4, m >>
  BY <1>1, <1>2, Appended4
<1>4. key # NoKey
  BY MetaConstants
<1> QED
  BY Zenon, <1>3, <1>4 DEF WithOptional, m

\* Appending to a list of 5.
LEMMA Appended5 ==
  ASSUME NEW S, NEW s \in Seq(S), NEW m \in S
  PROVE  Len(s) = 5 => Append(s, m) = << s[1], s[2], s[3], s[4], s[5], m >>
<1> DEFINE t == Append(s, m)
<1>1. t \in Seq(S)
  OBVIOUS
<1>2. Len(t) = Len(s) + 1
  OBVIOUS
<1>3. t[Len(s) + 1] = m
  OBVIOUS
<1>4. \A i \in 1..Len(s) : t[i] = s[i]
  OBVIOUS
<1> HIDE DEF t
<1> SUFFICES ASSUME Len(s) = 5 PROVE t = << s[1], s[2], s[3], s[4], s[5], m >>
  BY DEF t
<1>5. Len(t) = 6 /\ t[6] = m
  BY <1>2, <1>3
<1>6. t[1] = s[1] /\ t[2] = s[2] /\ t[3] = s[3] /\ t[4] = s[4] /\ t[5] = s[5]
  BY <1>4
<1>7. t = [i \in 1..6 |-> t[i]]
  BY <1>1, <1>5
<1> QED
  BY <1>5, <1>6, <1>7

\* An optional account that is given comes after the 5 others, and signs.
LEMMA Optional5 ==
  ASSUME NEW m1, NEW m2, NEW m3, NEW m4, NEW m5, NEW key \in Keys
  PROVE  WithOptional(<< m1, m2, m3, m4, m5 >>, key)
           = << m1, m2, m3, m4, m5, Readonly(key, TRUE) >>
<1> DEFINE m == Readonly(key, TRUE)
           S == {m1, m2, m3, m4, m5, m}
<1>1. << m1, m2, m3, m4, m5 >> \in Seq(S) /\ m \in S
      /\ Len(<< m1, m2, m3, m4, m5 >>) = 5
  OBVIOUS
<1>2. << m1, m2, m3, m4, m5 >>[1] = m1 /\ << m1, m2, m3, m4, m5 >>[2] = m2
      /\ << m1, m2, m3, m4, m5 >>[3] = m3
         /\ << m1, m2, m3, m4, m5 >>[4] = m4 /\ << m1, m2, m3, m4, m5 >>[5] = m5
  OBVIOUS
<1> HIDE DEF S, m
<1>3. Append(<< m1, m2, m3, m4, m5 >>, m) = << m1, m2, m3, m4, m5, m >>
  BY <1>1, <1>2, Appended5
<1>4. key # NoKey
  BY MetaConstants
<1> QED
  BY Zenon, <1>3, <1>4 DEF WithOptional, m

\* initialize: the processor takes the staker, withdrawer and lockup from the
\* arguments, and no signature is needed.
LEMMA Initializes ==
  ASSUME NEW stake \in Keys, NEW authorized, NEW lockup
  PROVE  Alone(initialize(stake, authorized, lockup))
           = Initialization(stake, authorized.staker, authorized.withdrawer,
                            lockup)
<1> DEFINE m1 == Writable(stake, FALSE)
           m2 == Readonly(RENT_ID, FALSE)
           S == {}
           W == {stake}
           args == [authorized |-> authorized, lockup |-> lockup]
<1>1. /\ m1.pubkey = stake
      /\ \A k : ~SignsAs(m1, k) /\ (WritesAs(m1, k) <=> k = stake)
      /\ m2.pubkey = RENT_ID
      /\ \A k : ~SignsAs(m2, k) /\ ~WritesAs(m2, k)
  BY Flags
<1>2. initialize(stake, authorized, lockup)
        = Instruction("Initialize", args, << m1, m2 >>)
  BY DEF initialize
<1> HIDE DEF m1, m2
<1>3. Merged({m1, m2}, S, W)
  BY <1>1 DEF Merged
<1> HIDE DEF S, W, args
<1>4. PICK L :
        /\ Alone(Instruction("Initialize", args, << m1, m2 >>))
             = Answer("Initialize", L, args, W)
        /\ collect_signers(L) = S
        /\ Len(L) = 2 /\ DOMAIN L = 1..2
        /\ Shown(L[1], m1.pubkey, S, W)
        /\ Shown(L[2], m2.pubkey, S, W)
  BY <1>3, Read2
<1>5. /\ Shown(L[1], stake, S, W)
      /\ Shown(L[2], RENT_ID, S, W)
  BY <1>1, <1>4
<1>6. process_initialize(L, args)
        = Initialization(stake, authorized.staker, authorized.withdrawer,
                         lockup)
  BY <1>4, <1>5, AccountConstants, MetaConstants
     DEF S, W, args, Shown, Sysvars, At, Absent, process_initialize
<1>7. Writes(Initialization(stake, authorized.staker, authorized.withdrawer,
                            lockup))
        \subseteq W
  BY WritesUnsigned DEF W, S
<1> QED
  BY Zenon, <1>2, <1>4, <1>6, <1>7 DEF Answer, process, S, args

\* initialize_checked: the two accounts after the rent sysvar are the staker and
\* the withdrawer, and the withdrawer has signed.
LEMMA InitializesChecked ==
  ASSUME NEW stake \in Keys, NEW authorized \in [staker : Keys,
         withdrawer : Keys]
  PROVE  Alone(initialize_checked(stake, authorized))
           = Initialization(stake, authorized.staker, authorized.withdrawer,
                            DefaultLockup)
<1> DEFINE m1 == Writable(stake, FALSE)
           m2 == Readonly(RENT_ID, FALSE)
           m3 == Readonly(authorized.staker, FALSE)
           m4 == Readonly(authorized.withdrawer, TRUE)
           S == {authorized.withdrawer}
           W == {stake}
           args == << >>
<1>1. /\ m1.pubkey = stake
      /\ \A k : ~SignsAs(m1, k) /\ (WritesAs(m1, k) <=> k = stake)
      /\ m2.pubkey = RENT_ID
      /\ \A k : ~SignsAs(m2, k) /\ ~WritesAs(m2, k)
      /\ m3.pubkey = authorized.staker
      /\ \A k : ~SignsAs(m3, k) /\ ~WritesAs(m3, k)
      /\ m4.pubkey = authorized.withdrawer
      /\ \A k : (SignsAs(m4, k) <=> k = authorized.withdrawer)
         /\ ~WritesAs(m4, k)
  BY Flags
<1>2. initialize_checked(stake, authorized)
        = Instruction("InitializeChecked", args, << m1, m2, m3, m4 >>)
  BY DEF initialize_checked
<1> HIDE DEF m1, m2, m3, m4
<1>3. Merged({m1, m2, m3, m4}, S, W)
  BY <1>1 DEF Merged
<1> HIDE DEF S, W, args
<1>4. PICK L :
        /\ Alone(Instruction("InitializeChecked", args, << m1, m2, m3, m4 >>))
             = Answer("InitializeChecked", L, args, W)
        /\ collect_signers(L) = S
        /\ Len(L) = 4 /\ DOMAIN L = 1..4
        /\ Shown(L[1], m1.pubkey, S, W)
        /\ Shown(L[2], m2.pubkey, S, W)
        /\ Shown(L[3], m3.pubkey, S, W)
        /\ Shown(L[4], m4.pubkey, S, W)
  BY <1>3, Read4
<1>5. /\ Shown(L[1], stake, S, W)
      /\ Shown(L[2], RENT_ID, S, W)
      /\ Shown(L[3], authorized.staker, S, W)
      /\ Shown(L[4], authorized.withdrawer, S, W)
  BY <1>1, <1>4
<1>6. process_initialize_checked(L)
        = Initialization(stake, authorized.staker, authorized.withdrawer,
                         DefaultLockup)
  BY <1>4, <1>5, AccountConstants, MetaConstants
     DEF S, W, args, Shown, Sysvars, At, Absent, process_initialize_checked
<1>7. Writes(Initialization(stake, authorized.staker, authorized.withdrawer,
                            DefaultLockup))
        \subseteq W
  BY WritesUnsigned DEF W, S
<1> QED
  BY Zenon, <1>2, <1>4, <1>6, <1>7 DEF Answer, process, S, args

\* delegate_stake: the fifth and sixth accounts are the unused config and the
\* authority, whose signature alone counts.
LEMMA Delegates ==
  ASSUME NEW stake \in Keys, NEW authority \in Keys, NEW vote \in Keys
  PROVE  Alone(delegate_stake(stake, authority, vote))
           = Delegation(stake, {authority}, vote)
<1> DEFINE m1 == Writable(stake, FALSE)
           m2 == Readonly(vote, FALSE)
           m3 == Readonly(CLOCK_ID, FALSE)
           m4 == Readonly(STAKE_HISTORY_ID, FALSE)
           m5 == Readonly(CONFIG_ID, FALSE)
           m6 == Readonly(authority, TRUE)
           S == {authority}
           W == {stake}
           args == << >>
<1>1. /\ m1.pubkey = stake
      /\ \A k : ~SignsAs(m1, k) /\ (WritesAs(m1, k) <=> k = stake)
      /\ m2.pubkey = vote
      /\ \A k : ~SignsAs(m2, k) /\ ~WritesAs(m2, k)
      /\ m3.pubkey = CLOCK_ID
      /\ \A k : ~SignsAs(m3, k) /\ ~WritesAs(m3, k)
      /\ m4.pubkey = STAKE_HISTORY_ID
      /\ \A k : ~SignsAs(m4, k) /\ ~WritesAs(m4, k)
      /\ m5.pubkey = CONFIG_ID
      /\ \A k : ~SignsAs(m5, k) /\ ~WritesAs(m5, k)
      /\ m6.pubkey = authority
      /\ \A k : (SignsAs(m6, k) <=> k = authority) /\ ~WritesAs(m6, k)
  BY Flags
<1>2. delegate_stake(stake, authority, vote)
        = Instruction("DelegateStake", args, << m1, m2, m3, m4, m5, m6 >>)
  BY DEF delegate_stake
<1> HIDE DEF m1, m2, m3, m4, m5, m6
<1>3. Merged({m1, m2, m3, m4, m5, m6}, S, W)
  BY <1>1 DEF Merged
<1> HIDE DEF S, W, args
<1>4. PICK L :
        /\ Alone(Instruction("DelegateStake", args,
                             << m1, m2, m3, m4, m5, m6 >>))
             = Answer("DelegateStake", L, args, W)
        /\ collect_signers(L) = S
        /\ Len(L) = 6 /\ DOMAIN L = 1..6
        /\ Shown(L[1], m1.pubkey, S, W)
        /\ Shown(L[2], m2.pubkey, S, W)
        /\ Shown(L[3], m3.pubkey, S, W)
        /\ Shown(L[4], m4.pubkey, S, W)
        /\ Shown(L[5], m5.pubkey, S, W)
        /\ Shown(L[6], m6.pubkey, S, W)
  BY <1>3, Read6
<1>5. /\ Shown(L[1], stake, S, W)
      /\ Shown(L[2], vote, S, W)
      /\ Shown(L[3], CLOCK_ID, S, W)
      /\ Shown(L[4], STAKE_HISTORY_ID, S, W)
      /\ Shown(L[5], CONFIG_ID, S, W)
      /\ Shown(L[6], authority, S, W)
  BY <1>1, <1>4
<1>6. process_delegate(L)
        = Delegation(stake, {authority}, vote)
  BY <1>4, <1>5, AccountConstants, MetaConstants
     DEF S, W, args, Shown, Sysvars, At, Absent, process_delegate, Diverge,
         OldLayout
<1>7. Writes(Delegation(stake, {authority}, vote))
        \subseteq W
  BY WritesOne DEF W, S
<1> QED
  BY Zenon, <1>2, <1>4, <1>6, <1>7 DEF Answer, process, S, args

\* deactivate_stake: by the signature of the authority alone.
LEMMA Deactivates ==
  ASSUME NEW stake \in Keys, NEW authority \in Keys
  PROVE  Alone(deactivate_stake(stake, authority))
           = Deactivation(stake, {authority})
<1> DEFINE m1 == Writable(stake, FALSE)
           m2 == Readonly(CLOCK_ID, FALSE)
           m3 == Readonly(authority, TRUE)
           S == {authority}
           W == {stake}
           args == << >>
<1>1. /\ m1.pubkey = stake
      /\ \A k : ~SignsAs(m1, k) /\ (WritesAs(m1, k) <=> k = stake)
      /\ m2.pubkey = CLOCK_ID
      /\ \A k : ~SignsAs(m2, k) /\ ~WritesAs(m2, k)
      /\ m3.pubkey = authority
      /\ \A k : (SignsAs(m3, k) <=> k = authority) /\ ~WritesAs(m3, k)
  BY Flags
<1>2. deactivate_stake(stake, authority)
        = Instruction("Deactivate", args, << m1, m2, m3 >>)
  BY DEF deactivate_stake
<1> HIDE DEF m1, m2, m3
<1>3. Merged({m1, m2, m3}, S, W)
  BY <1>1 DEF Merged
<1> HIDE DEF S, W, args
<1>4. PICK L :
        /\ Alone(Instruction("Deactivate", args, << m1, m2, m3 >>))
             = Answer("Deactivate", L, args, W)
        /\ collect_signers(L) = S
        /\ Len(L) = 3 /\ DOMAIN L = 1..3
        /\ Shown(L[1], m1.pubkey, S, W)
        /\ Shown(L[2], m2.pubkey, S, W)
        /\ Shown(L[3], m3.pubkey, S, W)
  BY <1>3, Read3
<1>5. /\ Shown(L[1], stake, S, W)
      /\ Shown(L[2], CLOCK_ID, S, W)
      /\ Shown(L[3], authority, S, W)
  BY <1>1, <1>4
<1>6. process_deactivate(L)
        = Deactivation(stake, {authority})
  BY <1>4, <1>5, AccountConstants, MetaConstants
     DEF S, W, args, Shown, Sysvars, At, Absent, process_deactivate, Diverge,
         OldLayout
<1>7. Writes(Deactivation(stake, {authority}))
        \subseteq W
  BY WritesOne DEF W, S
<1> QED
  BY Zenon, <1>2, <1>4, <1>6, <1>7 DEF Answer, process, S, args

\* deactivate_delinquent_stake: the two votes are not taken for one another.
LEMMA DeactivatesDelinquent ==
  ASSUME NEW stake \in Keys, NEW delinquent \in Keys, NEW reference \in Keys
  PROVE  Alone(deactivate_delinquent_stake(stake, delinquent, reference))
           = ForcedDeactivation(stake, delinquent, reference)
<1> DEFINE m1 == Writable(stake, FALSE)
           m2 == Readonly(delinquent, FALSE)
           m3 == Readonly(reference, FALSE)
           S == {}
           W == {stake}
           args == << >>
<1>1. /\ m1.pubkey = stake
      /\ \A k : ~SignsAs(m1, k) /\ (WritesAs(m1, k) <=> k = stake)
      /\ m2.pubkey = delinquent
      /\ \A k : ~SignsAs(m2, k) /\ ~WritesAs(m2, k)
      /\ m3.pubkey = reference
      /\ \A k : ~SignsAs(m3, k) /\ ~WritesAs(m3, k)
  BY Flags
<1>2. deactivate_delinquent_stake(stake, delinquent, reference)
        = Instruction("DeactivateDelinquent", args, << m1, m2, m3 >>)
  BY DEF deactivate_delinquent_stake
<1> HIDE DEF m1, m2, m3
<1>3. Merged({m1, m2, m3}, S, W)
  BY <1>1 DEF Merged
<1> HIDE DEF S, W, args
<1>4. PICK L :
        /\ Alone(Instruction("DeactivateDelinquent", args, << m1, m2, m3 >>))
             = Answer("DeactivateDelinquent", L, args, W)
        /\ collect_signers(L) = S
        /\ Len(L) = 3 /\ DOMAIN L = 1..3
        /\ Shown(L[1], m1.pubkey, S, W)
        /\ Shown(L[2], m2.pubkey, S, W)
        /\ Shown(L[3], m3.pubkey, S, W)
  BY <1>3, Read3
<1>5. /\ Shown(L[1], stake, S, W)
      /\ Shown(L[2], delinquent, S, W)
      /\ Shown(L[3], reference, S, W)
  BY <1>1, <1>4
<1>6. process_deactivate_delinquent(L)
        = ForcedDeactivation(stake, delinquent, reference)
  BY <1>4, <1>5, AccountConstants, MetaConstants
     DEF S, W, args, Shown, Sysvars, At, Absent, process_deactivate_delinquent
<1>7. Writes(ForcedDeactivation(stake, delinquent, reference))
        \subseteq W
  BY WritesUnsigned DEF W, S
<1> QED
  BY Zenon, <1>2, <1>4, <1>6, <1>7 DEF Answer, process, S, args

\* authorize without a custodian: only the authority signs.
LEMMA AuthorizesAlone ==
  ASSUME NEW stake \in Keys, NEW authority \in Keys, NEW new \in Keys, NEW who
  PROVE  Alone(authorize(stake, authority, new, who, NoKey))
           = Authorization(stake, {authority}, new, who, NoKey)
<1> DEFINE m1 == Writable(stake, FALSE)
           m2 == Readonly(CLOCK_ID, FALSE)
           m3 == Readonly(authority, TRUE)
           S == {authority}
           W == {stake}
           args == [new |-> new, who |-> who]
<1>1. /\ m1.pubkey = stake
      /\ \A k : ~SignsAs(m1, k) /\ (WritesAs(m1, k) <=> k = stake)
      /\ m2.pubkey = CLOCK_ID
      /\ \A k : ~SignsAs(m2, k) /\ ~WritesAs(m2, k)
      /\ m3.pubkey = authority
      /\ \A k : (SignsAs(m3, k) <=> k = authority) /\ ~WritesAs(m3, k)
  BY Flags
<1>2. authorize(stake, authority, new, who, NoKey)
        = Instruction("Authorize", args, << m1, m2, m3 >>)
  BY DEF authorize, WithOptional
<1> HIDE DEF m1, m2, m3
<1>3. Merged({m1, m2, m3}, S, W)
  BY <1>1 DEF Merged
<1> HIDE DEF S, W, args
<1>4. PICK L :
        /\ Alone(Instruction("Authorize", args, << m1, m2, m3 >>))
             = Answer("Authorize", L, args, W)
        /\ collect_signers(L) = S
        /\ Len(L) = 3 /\ DOMAIN L = 1..3
        /\ Shown(L[1], m1.pubkey, S, W)
        /\ Shown(L[2], m2.pubkey, S, W)
        /\ Shown(L[3], m3.pubkey, S, W)
  BY <1>3, Read3
<1>5. /\ Shown(L[1], stake, S, W)
      /\ Shown(L[2], CLOCK_ID, S, W)
      /\ Shown(L[3], authority, S, W)
  BY <1>1, <1>4
<1>6. process_authorize(L, args)
        = Authorization(stake, {authority}, new, who, NoKey)
  BY <1>4, <1>5, AccountConstants, MetaConstants
     DEF S, W, args, Shown, Sysvars, At, Absent, process_authorize, Diverge,
         Converge, OldLayout, SignedKey
<1>7. Writes(Authorization(stake, {authority}, new, who, NoKey))
        \subseteq W
  BY WritesOne DEF W, S
<1> QED
  BY Zenon, <1>2, <1>4, <1>6, <1>7 DEF Answer, process, S, args

\* authorize with a custodian: the account after the authority, which signs too.
LEMMA AuthorizesWith ==
  ASSUME NEW stake \in Keys, NEW authority \in Keys, NEW new \in Keys,
         NEW who, NEW custodian \in Keys
  PROVE  Alone(authorize(stake, authority, new, who, custodian))
           = Authorization(stake, {authority, custodian}, new, who, custodian)
<1> DEFINE m1 == Writable(stake, FALSE)
           m2 == Readonly(CLOCK_ID, FALSE)
           m3 == Readonly(authority, TRUE)
           m4 == Readonly(custodian, TRUE)
           S == {authority, custodian}
           W == {stake}
           args == [new |-> new, who |-> who]
<1>1. /\ m1.pubkey = stake
      /\ \A k : ~SignsAs(m1, k) /\ (WritesAs(m1, k) <=> k = stake)
      /\ m2.pubkey = CLOCK_ID
      /\ \A k : ~SignsAs(m2, k) /\ ~WritesAs(m2, k)
      /\ m3.pubkey = authority
      /\ \A k : (SignsAs(m3, k) <=> k = authority) /\ ~WritesAs(m3, k)
      /\ m4.pubkey = custodian
      /\ \A k : (SignsAs(m4, k) <=> k = custodian) /\ ~WritesAs(m4, k)
  BY Flags
<1>2. authorize(stake, authority, new, who, custodian)
        = Instruction("Authorize", args, << m1, m2, m3, m4 >>)
  BY Optional3 DEF authorize
<1> HIDE DEF m1, m2, m3, m4
<1>3. Merged({m1, m2, m3, m4}, S, W)
  BY <1>1 DEF Merged
<1> HIDE DEF S, W, args
<1>4. PICK L :
        /\ Alone(Instruction("Authorize", args, << m1, m2, m3, m4 >>))
             = Answer("Authorize", L, args, W)
        /\ collect_signers(L) = S
        /\ Len(L) = 4 /\ DOMAIN L = 1..4
        /\ Shown(L[1], m1.pubkey, S, W)
        /\ Shown(L[2], m2.pubkey, S, W)
        /\ Shown(L[3], m3.pubkey, S, W)
        /\ Shown(L[4], m4.pubkey, S, W)
  BY <1>3, Read4
<1>5. /\ Shown(L[1], stake, S, W)
      /\ Shown(L[2], CLOCK_ID, S, W)
      /\ Shown(L[3], authority, S, W)
      /\ Shown(L[4], custodian, S, W)
  BY <1>1, <1>4
<1>6. process_authorize(L, args)
        = Authorization(stake, {authority, custodian}, new, who, custodian)
  BY <1>4, <1>5, AccountConstants, MetaConstants
     DEF S, W, args, Shown, Sysvars, At, Absent, process_authorize, Diverge,
         Converge, OldLayout, SignedKey
<1>7. Writes(Authorization(stake, {authority, custodian}, new, who, custodian))
        \subseteq W
  BY WritesOne DEF W, S
<1> QED
  BY Zenon, <1>2, <1>4, <1>6, <1>7 DEF Answer, process, S, args

\* authorize_checked without a custodian: the new authority signs too.
LEMMA AuthorizesCheckedAlone ==
  ASSUME NEW stake \in Keys, NEW authority \in Keys, NEW new \in Keys, NEW who
  PROVE  Alone(authorize_checked(stake, authority, new, who, NoKey))
           = Authorization(stake, {authority, new}, new, who, NoKey)
<1> DEFINE m1 == Writable(stake, FALSE)
           m2 == Readonly(CLOCK_ID, FALSE)
           m3 == Readonly(authority, TRUE)
           m4 == Readonly(new, TRUE)
           S == {authority, new}
           W == {stake}
           args == [who |-> who]
<1>1. /\ m1.pubkey = stake
      /\ \A k : ~SignsAs(m1, k) /\ (WritesAs(m1, k) <=> k = stake)
      /\ m2.pubkey = CLOCK_ID
      /\ \A k : ~SignsAs(m2, k) /\ ~WritesAs(m2, k)
      /\ m3.pubkey = authority
      /\ \A k : (SignsAs(m3, k) <=> k = authority) /\ ~WritesAs(m3, k)
      /\ m4.pubkey = new
      /\ \A k : (SignsAs(m4, k) <=> k = new) /\ ~WritesAs(m4, k)
  BY Flags
<1>2. authorize_checked(stake, authority, new, who, NoKey)
        = Instruction("AuthorizeChecked", args, << m1, m2, m3, m4 >>)
  BY DEF authorize_checked, WithOptional
<1> HIDE DEF m1, m2, m3, m4
<1>3. Merged({m1, m2, m3, m4}, S, W)
  BY <1>1 DEF Merged
<1> HIDE DEF S, W, args
<1>4. PICK L :
        /\ Alone(Instruction("AuthorizeChecked", args, << m1, m2, m3, m4 >>))
             = Answer("AuthorizeChecked", L, args, W)
        /\ collect_signers(L) = S
        /\ Len(L) = 4 /\ DOMAIN L = 1..4
        /\ Shown(L[1], m1.pubkey, S, W)
        /\ Shown(L[2], m2.pubkey, S, W)
        /\ Shown(L[3], m3.pubkey, S, W)
        /\ Shown(L[4], m4.pubkey, S, W)
  BY <1>3, Read4
<1>5. /\ Shown(L[1], stake, S, W)
      /\ Shown(L[2], CLOCK_ID, S, W)
      /\ Shown(L[3], authority, S, W)
      /\ Shown(L[4], new, S, W)
  BY <1>1, <1>4
<1>6. process_authorize_checked(L, args)
        = Authorization(stake, {authority, new}, new, who, NoKey)
  BY <1>4, <1>5, AccountConstants, MetaConstants
     DEF S, W, args, Shown, Sysvars, At, Absent, process_authorize_checked,
         Diverge, Converge, OldLayout, SignedKey
<1>7. Writes(Authorization(stake, {authority, new}, new, who, NoKey))
        \subseteq W
  BY WritesOne DEF W, S
<1> QED
  BY Zenon, <1>2, <1>4, <1>6, <1>7 DEF Answer, process, S, args

\* authorize_checked with a custodian, the account after the new authority.
LEMMA AuthorizesCheckedWith ==
  ASSUME NEW stake \in Keys, NEW authority \in Keys, NEW new \in Keys,
         NEW who, NEW custodian \in Keys
  PROVE  Alone(authorize_checked(stake, authority, new, who, custodian))
           = Authorization(stake, {authority, new, custodian}, new, who,
                           custodian)
<1> DEFINE m1 == Writable(stake, FALSE)
           m2 == Readonly(CLOCK_ID, FALSE)
           m3 == Readonly(authority, TRUE)
           m4 == Readonly(new, TRUE)
           m5 == Readonly(custodian, TRUE)
           S == {authority, new, custodian}
           W == {stake}
           args == [who |-> who]
<1>1. /\ m1.pubkey = stake
      /\ \A k : ~SignsAs(m1, k) /\ (WritesAs(m1, k) <=> k = stake)
      /\ m2.pubkey = CLOCK_ID
      /\ \A k : ~SignsAs(m2, k) /\ ~WritesAs(m2, k)
      /\ m3.pubkey = authority
      /\ \A k : (SignsAs(m3, k) <=> k = authority) /\ ~WritesAs(m3, k)
      /\ m4.pubkey = new
      /\ \A k : (SignsAs(m4, k) <=> k = new) /\ ~WritesAs(m4, k)
      /\ m5.pubkey = custodian
      /\ \A k : (SignsAs(m5, k) <=> k = custodian) /\ ~WritesAs(m5, k)
  BY Flags
<1>2. authorize_checked(stake, authority, new, who, custodian)
        = Instruction("AuthorizeChecked", args, << m1, m2, m3, m4, m5 >>)
  BY Optional4 DEF authorize_checked
<1> HIDE DEF m1, m2, m3, m4, m5
<1>3. Merged({m1, m2, m3, m4, m5}, S, W)
  BY <1>1 DEF Merged
<1> HIDE DEF S, W, args
<1>4. PICK L :
        /\ Alone(Instruction("AuthorizeChecked", args,
                             << m1, m2, m3, m4, m5 >>))
             = Answer("AuthorizeChecked", L, args, W)
        /\ collect_signers(L) = S
        /\ Len(L) = 5 /\ DOMAIN L = 1..5
        /\ Shown(L[1], m1.pubkey, S, W)
        /\ Shown(L[2], m2.pubkey, S, W)
        /\ Shown(L[3], m3.pubkey, S, W)
        /\ Shown(L[4], m4.pubkey, S, W)
        /\ Shown(L[5], m5.pubkey, S, W)
  BY <1>3, Read5
<1>5. /\ Shown(L[1], stake, S, W)
      /\ Shown(L[2], CLOCK_ID, S, W)
      /\ Shown(L[3], authority, S, W)
      /\ Shown(L[4], new, S, W)
      /\ Shown(L[5], custodian, S, W)
  BY <1>1, <1>4
<1>6. process_authorize_checked(L, args)
        = Authorization(stake, {authority, new, custodian}, new, who, custodian)
  BY <1>4, <1>5, AccountConstants, MetaConstants
     DEF S, W, args, Shown, Sysvars, At, Absent, process_authorize_checked,
         Diverge, Converge, OldLayout, SignedKey
<1>7. Writes(Authorization(stake, {authority, new, custodian}, new, who,
                           custodian))
        \subseteq W
  BY WritesOne DEF W, S
<1> QED
  BY Zenon, <1>2, <1>4, <1>6, <1>7 DEF Answer, process, S, args

\* withdraw without a custodian: by the signature of the withdrawer alone.
LEMMA WithdrawsAlone ==
  ASSUME NEW from \in Keys, NEW to \in Keys, NEW authority \in Keys,
         NEW amount
  PROVE  Alone(withdraw(from, authority, to, amount, NoKey))
           = Withdrawal(from, to, {authority}, NoKey, amount)
<1> DEFINE m1 == Writable(from, FALSE)
           m2 == Writable(to, FALSE)
           m3 == Readonly(CLOCK_ID, FALSE)
           m4 == Readonly(STAKE_HISTORY_ID, FALSE)
           m5 == Readonly(authority, TRUE)
           S == {authority}
           W == {from, to}
           args == [lamports |-> amount]
<1>1. /\ m1.pubkey = from
      /\ \A k : ~SignsAs(m1, k) /\ (WritesAs(m1, k) <=> k = from)
      /\ m2.pubkey = to
      /\ \A k : ~SignsAs(m2, k) /\ (WritesAs(m2, k) <=> k = to)
      /\ m3.pubkey = CLOCK_ID
      /\ \A k : ~SignsAs(m3, k) /\ ~WritesAs(m3, k)
      /\ m4.pubkey = STAKE_HISTORY_ID
      /\ \A k : ~SignsAs(m4, k) /\ ~WritesAs(m4, k)
      /\ m5.pubkey = authority
      /\ \A k : (SignsAs(m5, k) <=> k = authority) /\ ~WritesAs(m5, k)
  BY Flags
<1>2. withdraw(from, authority, to, amount, NoKey)
        = Instruction("Withdraw", args, << m1, m2, m3, m4, m5 >>)
  BY DEF withdraw, WithOptional
<1> HIDE DEF m1, m2, m3, m4, m5
<1>3. Merged({m1, m2, m3, m4, m5}, S, W)
  BY <1>1 DEF Merged
<1> HIDE DEF S, W, args
<1>4. PICK L :
        /\ Alone(Instruction("Withdraw", args, << m1, m2, m3, m4, m5 >>))
             = Answer("Withdraw", L, args, W)
        /\ collect_signers(L) = S
        /\ Len(L) = 5 /\ DOMAIN L = 1..5
        /\ Shown(L[1], m1.pubkey, S, W)
        /\ Shown(L[2], m2.pubkey, S, W)
        /\ Shown(L[3], m3.pubkey, S, W)
        /\ Shown(L[4], m4.pubkey, S, W)
        /\ Shown(L[5], m5.pubkey, S, W)
  BY <1>3, Read5
<1>5. /\ Shown(L[1], from, S, W)
      /\ Shown(L[2], to, S, W)
      /\ Shown(L[3], CLOCK_ID, S, W)
      /\ Shown(L[4], STAKE_HISTORY_ID, S, W)
      /\ Shown(L[5], authority, S, W)
  BY <1>1, <1>4
<1>6. Converge(L, 3, 2) = 5
  BY <1>5, AccountConstants, <1>4 DEF Converge, OldLayout, At, Shown, Sysvars
<1>7. /\ At(L, Converge(L, 3, 2)) = L[5]
      /\ At(L, Converge(L, 3, 2) + 1) = Absent
  BY <1>4, <1>5, <1>6 DEF At, Shown, S
<1>8. KeyOf(L[5]) \cup KeyOf(Absent) = {authority}
  BY <1>5, KeyGiven DEF Shown
<1>9. process_withdraw(L, args)
        = Withdrawal(from, to, {authority}, NoKey, amount)
  <2>1. L[5].is_signer /\ SignsIfGiven(Absent) /\ args.lamports = amount
    BY <1>5 DEF SignsIfGiven, Shown, S, args
  <2>2. process_withdraw(L, args)
          = Withdrawal(L[1].pubkey, L[2].pubkey, KeyOf(L[5]) \cup KeyOf(Absent),
                       Absent.pubkey, args.lamports)
    BY Zenon, <2>1, <1>7 DEF process_withdraw
  <2>3. /\ L[1].pubkey = from /\ L[2].pubkey = to
        /\ Absent.pubkey = NoKey
    BY <1>5, KeyGiven DEF Shown
  <2> QED
    BY Zenon, <2>1, <2>2, <2>3, <1>8
<1>10. Writes(Withdrawal(from, to, {authority}, NoKey, amount))
        \subseteq W
  BY WritesTwo DEF W, S
<1> QED
  BY Zenon, <1>2, <1>4, <1>9, <1>10 DEF Answer, process, S, args

\* withdraw with a custodian, the account after the withdrawer.
LEMMA WithdrawsWith ==
  ASSUME NEW from \in Keys, NEW to \in Keys, NEW authority \in Keys,
         NEW amount, NEW custodian \in Keys
  PROVE  Alone(withdraw(from, authority, to, amount, custodian))
           = Withdrawal(from, to, {authority, custodian}, custodian, amount)
<1> DEFINE m1 == Writable(from, FALSE)
           m2 == Writable(to, FALSE)
           m3 == Readonly(CLOCK_ID, FALSE)
           m4 == Readonly(STAKE_HISTORY_ID, FALSE)
           m5 == Readonly(authority, TRUE)
           m6 == Readonly(custodian, TRUE)
           S == {authority, custodian}
           W == {from, to}
           args == [lamports |-> amount]
<1>1. /\ m1.pubkey = from
      /\ \A k : ~SignsAs(m1, k) /\ (WritesAs(m1, k) <=> k = from)
      /\ m2.pubkey = to
      /\ \A k : ~SignsAs(m2, k) /\ (WritesAs(m2, k) <=> k = to)
      /\ m3.pubkey = CLOCK_ID
      /\ \A k : ~SignsAs(m3, k) /\ ~WritesAs(m3, k)
      /\ m4.pubkey = STAKE_HISTORY_ID
      /\ \A k : ~SignsAs(m4, k) /\ ~WritesAs(m4, k)
      /\ m5.pubkey = authority
      /\ \A k : (SignsAs(m5, k) <=> k = authority) /\ ~WritesAs(m5, k)
      /\ m6.pubkey = custodian
      /\ \A k : (SignsAs(m6, k) <=> k = custodian) /\ ~WritesAs(m6, k)
  BY Flags
<1>2. withdraw(from, authority, to, amount, custodian)
        = Instruction("Withdraw", args, << m1, m2, m3, m4, m5, m6 >>)
  BY Optional5 DEF withdraw
<1> HIDE DEF m1, m2, m3, m4, m5, m6
<1>3. Merged({m1, m2, m3, m4, m5, m6}, S, W)
  BY <1>1 DEF Merged
<1> HIDE DEF S, W, args
<1>4. PICK L :
        /\ Alone(Instruction("Withdraw", args, << m1, m2, m3, m4, m5, m6 >>))
             = Answer("Withdraw", L, args, W)
        /\ collect_signers(L) = S
        /\ Len(L) = 6 /\ DOMAIN L = 1..6
        /\ Shown(L[1], m1.pubkey, S, W)
        /\ Shown(L[2], m2.pubkey, S, W)
        /\ Shown(L[3], m3.pubkey, S, W)
        /\ Shown(L[4], m4.pubkey, S, W)
        /\ Shown(L[5], m5.pubkey, S, W)
        /\ Shown(L[6], m6.pubkey, S, W)
  BY <1>3, Read6
<1>5. /\ Shown(L[1], from, S, W)
      /\ Shown(L[2], to, S, W)
      /\ Shown(L[3], CLOCK_ID, S, W)
      /\ Shown(L[4], STAKE_HISTORY_ID, S, W)
      /\ Shown(L[5], authority, S, W)
      /\ Shown(L[6], custodian, S, W)
  BY <1>1, <1>4
<1>6. Converge(L, 3, 2) = 5
  BY <1>5, AccountConstants, <1>4 DEF Converge, OldLayout, At, Shown, Sysvars
<1>7. /\ At(L, Converge(L, 3, 2)) = L[5]
      /\ At(L, Converge(L, 3, 2) + 1) = L[6]
  BY <1>4, <1>5, <1>6 DEF At, Shown, S
<1>8. KeyOf(L[5]) \cup KeyOf(L[6]) = {authority, custodian}
  BY <1>5, KeyGiven DEF Shown
<1>9. process_withdraw(L, args)
        = Withdrawal(from, to, {authority, custodian}, custodian, amount)
  <2>1. L[5].is_signer /\ SignsIfGiven(L[6]) /\ args.lamports = amount
    BY <1>5 DEF SignsIfGiven, Shown, S, args
  <2>2. process_withdraw(L, args)
          = Withdrawal(L[1].pubkey, L[2].pubkey, KeyOf(L[5]) \cup KeyOf(L[6]),
                       L[6].pubkey, args.lamports)
    BY Zenon, <2>1, <1>7 DEF process_withdraw
  <2>3. /\ L[1].pubkey = from /\ L[2].pubkey = to
        /\ L[6].pubkey = custodian
    BY <1>5, KeyGiven DEF Shown
  <2> QED
    BY Zenon, <2>1, <2>2, <2>3, <1>8
<1>10. Writes(Withdrawal(from, to, {authority, custodian}, custodian, amount))
        \subseteq W
  BY WritesTwo DEF W, S
<1> QED
  BY Zenon, <1>2, <1>4, <1>9, <1>10 DEF Answer, process, S, args

\* set_lockup: by the signature of the key that was named.
LEMMA SetsLockup ==
  ASSUME NEW stake \in Keys, NEW authority \in Keys, NEW lockup
  PROVE  Alone(set_lockup(stake, lockup, authority))
           = LockupChange(stake, {authority}, lockup)
<1> DEFINE m1 == Writable(stake, FALSE)
           m2 == Readonly(authority, TRUE)
           S == {authority}
           W == {stake}
           args == [lockup |-> lockup]
<1>1. /\ m1.pubkey = stake
      /\ \A k : ~SignsAs(m1, k) /\ (WritesAs(m1, k) <=> k = stake)
      /\ m2.pubkey = authority
      /\ \A k : (SignsAs(m2, k) <=> k = authority) /\ ~WritesAs(m2, k)
  BY Flags
<1>2. set_lockup(stake, lockup, authority)
        = Instruction("SetLockup", args, << m1, m2 >>)
  BY DEF set_lockup
<1> HIDE DEF m1, m2
<1>3. Merged({m1, m2}, S, W)
  BY <1>1 DEF Merged
<1> HIDE DEF S, W, args
<1>4. PICK L :
        /\ Alone(Instruction("SetLockup", args, << m1, m2 >>))
             = Answer("SetLockup", L, args, W)
        /\ collect_signers(L) = S
        /\ Len(L) = 2 /\ DOMAIN L = 1..2
        /\ Shown(L[1], m1.pubkey, S, W)
        /\ Shown(L[2], m2.pubkey, S, W)
  BY <1>3, Read2
<1>5. /\ Shown(L[1], stake, S, W)
      /\ Shown(L[2], authority, S, W)
  BY <1>1, <1>4
<1>6. process_set_lockup(L, args)
        = LockupChange(stake, {authority}, lockup)
  BY <1>4, <1>5, AccountConstants, MetaConstants
     DEF S, W, args, Shown, Sysvars, At, Absent, process_set_lockup
<1>7. Writes(LockupChange(stake, {authority}, lockup))
        \subseteq W
  BY WritesOne DEF W, S
<1> QED
  BY Zenon, <1>2, <1>4, <1>6, <1>7 DEF Answer, process, S, args

\* _split: from the first account to the second.
LEMMA Splits ==
  ASSUME NEW from \in Keys, NEW to \in Keys, NEW authority \in Keys,
         NEW amount
  PROVE  Alone(_split(from, authority, amount, to))
           = Moving("Split", from, to, {authority}, amount)
<1> DEFINE m1 == Writable(from, FALSE)
           m2 == Writable(to, FALSE)
           m3 == Readonly(authority, TRUE)
           S == {authority}
           W == {from, to}
           args == [lamports |-> amount]
<1>1. /\ m1.pubkey = from
      /\ \A k : ~SignsAs(m1, k) /\ (WritesAs(m1, k) <=> k = from)
      /\ m2.pubkey = to
      /\ \A k : ~SignsAs(m2, k) /\ (WritesAs(m2, k) <=> k = to)
      /\ m3.pubkey = authority
      /\ \A k : (SignsAs(m3, k) <=> k = authority) /\ ~WritesAs(m3, k)
  BY Flags
<1>2. _split(from, authority, amount, to)
        = Instruction("Split", args, << m1, m2, m3 >>)
  BY DEF _split
<1> HIDE DEF m1, m2, m3
<1>3. Merged({m1, m2, m3}, S, W)
  BY <1>1 DEF Merged
<1> HIDE DEF S, W, args
<1>4. PICK L :
        /\ Alone(Instruction("Split", args, << m1, m2, m3 >>))
             = Answer("Split", L, args, W)
        /\ collect_signers(L) = S
        /\ Len(L) = 3 /\ DOMAIN L = 1..3
        /\ Shown(L[1], m1.pubkey, S, W)
        /\ Shown(L[2], m2.pubkey, S, W)
        /\ Shown(L[3], m3.pubkey, S, W)
  BY <1>3, Read3
<1>5. /\ Shown(L[1], from, S, W)
      /\ Shown(L[2], to, S, W)
      /\ Shown(L[3], authority, S, W)
  BY <1>1, <1>4
<1>6. process_split(L, args)
        = Moving("Split", from, to, {authority}, amount)
  BY <1>4, <1>5, AccountConstants, MetaConstants
     DEF S, W, args, Shown, Sysvars, At, Absent, process_split
<1>7. Writes(Moving("Split", from, to, {authority}, amount))
        \subseteq W
  BY WritesTwo DEF W, S
<1> QED
  BY Zenon, <1>2, <1>4, <1>6, <1>7 DEF Answer, process, S, args

\* move_stake: from the first account to the second.
LEMMA MovesStake ==
  ASSUME NEW from \in Keys, NEW to \in Keys, NEW authority \in Keys,
         NEW amount
  PROVE  Alone(move_stake(from, to, authority, amount))
           = Moving("MoveStake", from, to, {authority}, amount)
<1> DEFINE m1 == Writable(from, FALSE)
           m2 == Writable(to, FALSE)
           m3 == Readonly(authority, TRUE)
           S == {authority}
           W == {from, to}
           args == [lamports |-> amount]
<1>1. /\ m1.pubkey = from
      /\ \A k : ~SignsAs(m1, k) /\ (WritesAs(m1, k) <=> k = from)
      /\ m2.pubkey = to
      /\ \A k : ~SignsAs(m2, k) /\ (WritesAs(m2, k) <=> k = to)
      /\ m3.pubkey = authority
      /\ \A k : (SignsAs(m3, k) <=> k = authority) /\ ~WritesAs(m3, k)
  BY Flags
<1>2. move_stake(from, to, authority, amount)
        = Instruction("MoveStake", args, << m1, m2, m3 >>)
  BY DEF move_stake
<1> HIDE DEF m1, m2, m3
<1>3. Merged({m1, m2, m3}, S, W)
  BY <1>1 DEF Merged
<1> HIDE DEF S, W, args
<1>4. PICK L :
        /\ Alone(Instruction("MoveStake", args, << m1, m2, m3 >>))
             = Answer("MoveStake", L, args, W)
        /\ collect_signers(L) = S
        /\ Len(L) = 3 /\ DOMAIN L = 1..3
        /\ Shown(L[1], m1.pubkey, S, W)
        /\ Shown(L[2], m2.pubkey, S, W)
        /\ Shown(L[3], m3.pubkey, S, W)
  BY <1>3, Read3
<1>5. /\ Shown(L[1], from, S, W)
      /\ Shown(L[2], to, S, W)
      /\ Shown(L[3], authority, S, W)
  BY <1>1, <1>4
<1>6. /\ At(L, 2) = L[2]
      /\ At(L, 3) = L[3]
  BY <1>4 DEF At
<1>7. /\ KeyOf(L[1]) = {from}
      /\ KeyOf(L[2]) = {to}
      /\ KeyOf(L[3]) = {authority}
  BY <1>5, KeyGiven DEF Shown
<1>8. process_move("MoveStake", L, args)
        = Moving("MoveStake", from, to, {authority}, amount)
  BY <1>4, <1>5, <1>6, <1>7, KeyGiven, AccountConstants, MetaConstants
     DEF S, W, args, Shown, Sysvars, process_move
<1>9. Writes(Moving("MoveStake", from, to, {authority}, amount))
        \subseteq W
  BY WritesTwo DEF W, S
<1> QED
  BY Zenon, <1>2, <1>4, <1>8, <1>9 DEF Answer, process, S, args

\* move_lamports: from the first account to the second.
LEMMA MovesLamports ==
  ASSUME NEW from \in Keys, NEW to \in Keys, NEW authority \in Keys,
         NEW amount
  PROVE  Alone(move_lamports(from, to, authority, amount))
           = Moving("MoveLamports", from, to, {authority}, amount)
<1> DEFINE m1 == Writable(from, FALSE)
           m2 == Writable(to, FALSE)
           m3 == Readonly(authority, TRUE)
           S == {authority}
           W == {from, to}
           args == [lamports |-> amount]
<1>1. /\ m1.pubkey = from
      /\ \A k : ~SignsAs(m1, k) /\ (WritesAs(m1, k) <=> k = from)
      /\ m2.pubkey = to
      /\ \A k : ~SignsAs(m2, k) /\ (WritesAs(m2, k) <=> k = to)
      /\ m3.pubkey = authority
      /\ \A k : (SignsAs(m3, k) <=> k = authority) /\ ~WritesAs(m3, k)
  BY Flags
<1>2. move_lamports(from, to, authority, amount)
        = Instruction("MoveLamports", args, << m1, m2, m3 >>)
  BY DEF move_lamports
<1> HIDE DEF m1, m2, m3
<1>3. Merged({m1, m2, m3}, S, W)
  BY <1>1 DEF Merged
<1> HIDE DEF S, W, args
<1>4. PICK L :
        /\ Alone(Instruction("MoveLamports", args, << m1, m2, m3 >>))
             = Answer("MoveLamports", L, args, W)
        /\ collect_signers(L) = S
        /\ Len(L) = 3 /\ DOMAIN L = 1..3
        /\ Shown(L[1], m1.pubkey, S, W)
        /\ Shown(L[2], m2.pubkey, S, W)
        /\ Shown(L[3], m3.pubkey, S, W)
  BY <1>3, Read3
<1>5. /\ Shown(L[1], from, S, W)
      /\ Shown(L[2], to, S, W)
      /\ Shown(L[3], authority, S, W)
  BY <1>1, <1>4
<1>6. /\ At(L, 2) = L[2]
      /\ At(L, 3) = L[3]
  BY <1>4 DEF At
<1>7. /\ KeyOf(L[1]) = {from}
      /\ KeyOf(L[2]) = {to}
      /\ KeyOf(L[3]) = {authority}
  BY <1>5, KeyGiven DEF Shown
<1>8. process_move("MoveLamports", L, args)
        = Moving("MoveLamports", from, to, {authority}, amount)
  BY <1>4, <1>5, <1>6, <1>7, KeyGiven, AccountConstants, MetaConstants
     DEF S, W, args, Shown, Sysvars, process_move
<1>9. Writes(Moving("MoveLamports", from, to, {authority}, amount))
        \subseteq W
  BY WritesTwo DEF W, S
<1> QED
  BY Zenon, <1>2, <1>4, <1>8, <1>9 DEF Answer, process, S, args

\* merge: into the first account, from the second.
LEMMA Merges ==
  ASSUME NEW from \in Keys, NEW to \in Keys, NEW authority \in Keys
  PROVE  Alone(merge(to, from, authority)[1])
           = Merging(to, from, {authority})
<1> DEFINE m1 == Writable(to, FALSE)
           m2 == Writable(from, FALSE)
           m3 == Readonly(CLOCK_ID, FALSE)
           m4 == Readonly(STAKE_HISTORY_ID, FALSE)
           m5 == Readonly(authority, TRUE)
           S == {authority}
           W == {from, to}
           args == << >>
<1>1. /\ m1.pubkey = to
      /\ \A k : ~SignsAs(m1, k) /\ (WritesAs(m1, k) <=> k = to)
      /\ m2.pubkey = from
      /\ \A k : ~SignsAs(m2, k) /\ (WritesAs(m2, k) <=> k = from)
      /\ m3.pubkey = CLOCK_ID
      /\ \A k : ~SignsAs(m3, k) /\ ~WritesAs(m3, k)
      /\ m4.pubkey = STAKE_HISTORY_ID
      /\ \A k : ~SignsAs(m4, k) /\ ~WritesAs(m4, k)
      /\ m5.pubkey = authority
      /\ \A k : (SignsAs(m5, k) <=> k = authority) /\ ~WritesAs(m5, k)
  BY Flags
<1>2. merge(to, from, authority)[1]
        = Instruction("Merge", args, << m1, m2, m3, m4, m5 >>)
  BY DEF merge
<1> HIDE DEF m1, m2, m3, m4, m5
<1>3. Merged({m1, m2, m3, m4, m5}, S, W)
  BY <1>1 DEF Merged
<1> HIDE DEF S, W, args
<1>4. PICK L :
        /\ Alone(Instruction("Merge", args, << m1, m2, m3, m4, m5 >>))
             = Answer("Merge", L, args, W)
        /\ collect_signers(L) = S
        /\ Len(L) = 5 /\ DOMAIN L = 1..5
        /\ Shown(L[1], m1.pubkey, S, W)
        /\ Shown(L[2], m2.pubkey, S, W)
        /\ Shown(L[3], m3.pubkey, S, W)
        /\ Shown(L[4], m4.pubkey, S, W)
        /\ Shown(L[5], m5.pubkey, S, W)
  BY <1>3, Read5
<1>5. /\ Shown(L[1], to, S, W)
      /\ Shown(L[2], from, S, W)
      /\ Shown(L[3], CLOCK_ID, S, W)
      /\ Shown(L[4], STAKE_HISTORY_ID, S, W)
      /\ Shown(L[5], authority, S, W)
  BY <1>1, <1>4
<1>6. process_merge(L)
        = Merging(to, from, {authority})
  BY <1>4, <1>5, AccountConstants, MetaConstants
     DEF S, W, args, Shown, Sysvars, At, Absent, process_merge, Diverge,
         OldLayout
<1>7. Writes(Merging(to, from, {authority}))
        \subseteq W
  BY WritesTwo DEF W, S
<1> QED
  BY Zenon, <1>2, <1>4, <1>6, <1>7 DEF Answer, process, S, args

\* authorize_with_seed without a custodian: the key derived from the base that
\* signed counts as the signer, and the base does not.
LEMMA AuthorizesSeedAlone ==
  ASSUME NEW stake \in Keys, NEW base \in Keys, NEW seed \in Seeds,
         NEW new \in Keys, NEW who, NEW derived,
         derived = CreateWithSeed[<< base, seed >>], derived \in Keys
  PROVE  Alone(authorize_with_seed(stake, base, seed, new, who, NoKey))
           = Authorization(stake, {derived}, new, who, NoKey)
<1> DEFINE m1 == Writable(stake, FALSE)
           m2 == Readonly(base, TRUE)
           m3 == Readonly(CLOCK_ID, FALSE)
           S == {base}
           W == {stake}
           args == [new |-> new, who |-> who, seed |-> seed]
<1>1. /\ m1.pubkey = stake
      /\ \A k : ~SignsAs(m1, k) /\ (WritesAs(m1, k) <=> k = stake)
      /\ m2.pubkey = base
      /\ \A k : (SignsAs(m2, k) <=> k = base) /\ ~WritesAs(m2, k)
      /\ m3.pubkey = CLOCK_ID
      /\ \A k : ~SignsAs(m3, k) /\ ~WritesAs(m3, k)
  BY Flags
<1>2. authorize_with_seed(stake, base, seed, new, who, NoKey)
        = Instruction("AuthorizeWithSeed", args, << m1, m2, m3 >>)
  BY DEF authorize_with_seed, WithOptional
<1> HIDE DEF m1, m2, m3
<1>3. Merged({m1, m2, m3}, S, W)
  BY <1>1 DEF Merged
<1> HIDE DEF S, W, args
<1>4. PICK L :
        /\ Alone(Instruction("AuthorizeWithSeed", args, << m1, m2, m3 >>))
             = Answer("AuthorizeWithSeed", L, args, W)
        /\ collect_signers(L) = S
        /\ Len(L) = 3 /\ DOMAIN L = 1..3
        /\ Shown(L[1], m1.pubkey, S, W)
        /\ Shown(L[2], m2.pubkey, S, W)
        /\ Shown(L[3], m3.pubkey, S, W)
  BY <1>3, Read3
<1>5. /\ Shown(L[1], stake, S, W)
      /\ Shown(L[2], base, S, W)
      /\ Shown(L[3], CLOCK_ID, S, W)
  BY <1>1, <1>4
<1>6. Converge(L, 3, 1) = 4
  BY <1>5, AccountConstants, <1>4 DEF Converge, OldLayout, At, Shown, Sysvars
<1>7. /\ At(L, Converge(L, 3, 1)) = Absent
      /\ At(L, Converge(L, 3, 1) + 1) = Absent
      /\ At(L, 2) = L[2]
  BY <1>4, <1>5, <1>6 DEF At, Shown, S
<1>8. SeedSigner(L[2], args.seed) = {derived} /\ NoKey \notin {derived}
  BY <1>5, MetaConstants DEF SeedSigner, Shown, S, args
<1>9. KeyOf(Absent) \cup {derived} = {derived}
  BY <1>5, KeyGiven DEF Shown
<1>10. process_authorize_with_seed(L, args)
        = Authorization(stake, {derived}, new, who, NoKey)
  <2>1. /\ ~(Len(L) < 2) /\ SignsIfGiven(Absent)
        /\ SeedSigner(L[2], args.seed) = {derived} /\ NoKey \notin {derived}
        /\ args.who = who /\ args.new = new
    BY <1>4, <1>5, <1>8 DEF SignsIfGiven, Shown, S, args
  <2>2. process_authorize_with_seed(L, args)
          = Authorization(L[1].pubkey, KeyOf(Absent) \cup {derived},
                          args.new, args.who, Absent.pubkey)
    BY Zenon, <2>1, <1>6, <1>7 DEF process_authorize_with_seed
  <2>3. L[1].pubkey = stake /\ Absent.pubkey = NoKey
    BY <1>5, KeyGiven DEF Shown
  <2> QED
    BY Zenon, <2>1, <2>2, <2>3, <1>9
<1>11. Writes(Authorization(stake, {derived}, new, who, NoKey))
        \subseteq W
  BY WritesOne DEF W, S
<1> QED
  BY Zenon, <1>2, <1>4, <1>10, <1>11 DEF Answer, process, S, args

\* authorize_with_seed with a custodian.
LEMMA AuthorizesSeedWith ==
  ASSUME NEW stake \in Keys, NEW base \in Keys, NEW seed \in Seeds,
         NEW new \in Keys, NEW who, NEW custodian \in Keys, NEW derived,
         derived = CreateWithSeed[<< base, seed >>], derived \in Keys
  PROVE  Alone(authorize_with_seed(stake, base, seed, new, who, custodian))
           = Authorization(stake, {derived, custodian}, new, who, custodian)
<1> DEFINE m1 == Writable(stake, FALSE)
           m2 == Readonly(base, TRUE)
           m3 == Readonly(CLOCK_ID, FALSE)
           m4 == Readonly(custodian, TRUE)
           S == {base, custodian}
           W == {stake}
           args == [new |-> new, who |-> who, seed |-> seed]
<1>1. /\ m1.pubkey = stake
      /\ \A k : ~SignsAs(m1, k) /\ (WritesAs(m1, k) <=> k = stake)
      /\ m2.pubkey = base
      /\ \A k : (SignsAs(m2, k) <=> k = base) /\ ~WritesAs(m2, k)
      /\ m3.pubkey = CLOCK_ID
      /\ \A k : ~SignsAs(m3, k) /\ ~WritesAs(m3, k)
      /\ m4.pubkey = custodian
      /\ \A k : (SignsAs(m4, k) <=> k = custodian) /\ ~WritesAs(m4, k)
  BY Flags
<1>2. authorize_with_seed(stake, base, seed, new, who, custodian)
        = Instruction("AuthorizeWithSeed", args, << m1, m2, m3, m4 >>)
  BY Optional3 DEF authorize_with_seed
<1> HIDE DEF m1, m2, m3, m4
<1>3. Merged({m1, m2, m3, m4}, S, W)
  BY <1>1 DEF Merged
<1> HIDE DEF S, W, args
<1>4. PICK L :
        /\ Alone(Instruction("AuthorizeWithSeed", args, << m1, m2, m3, m4 >>))
             = Answer("AuthorizeWithSeed", L, args, W)
        /\ collect_signers(L) = S
        /\ Len(L) = 4 /\ DOMAIN L = 1..4
        /\ Shown(L[1], m1.pubkey, S, W)
        /\ Shown(L[2], m2.pubkey, S, W)
        /\ Shown(L[3], m3.pubkey, S, W)
        /\ Shown(L[4], m4.pubkey, S, W)
  BY <1>3, Read4
<1>5. /\ Shown(L[1], stake, S, W)
      /\ Shown(L[2], base, S, W)
      /\ Shown(L[3], CLOCK_ID, S, W)
      /\ Shown(L[4], custodian, S, W)
  BY <1>1, <1>4
<1>6. Converge(L, 3, 1) = 4
  BY <1>5, AccountConstants, <1>4 DEF Converge, OldLayout, At, Shown, Sysvars
<1>7. /\ At(L, Converge(L, 3, 1)) = L[4]
      /\ At(L, Converge(L, 3, 1) + 1) = Absent
      /\ At(L, 2) = L[2]
  BY <1>4, <1>5, <1>6 DEF At, Shown, S
<1>8. SeedSigner(L[2], args.seed) = {derived} /\ NoKey \notin {derived}
  BY <1>5, MetaConstants DEF SeedSigner, Shown, S, args
<1>9. KeyOf(L[4]) \cup {derived} = {derived, custodian}
  BY <1>5, KeyGiven DEF Shown
<1>10. process_authorize_with_seed(L, args)
        = Authorization(stake, {derived, custodian}, new, who, custodian)
  <2>1. /\ ~(Len(L) < 2) /\ SignsIfGiven(L[4])
        /\ SeedSigner(L[2], args.seed) = {derived} /\ NoKey \notin {derived}
        /\ args.who = who /\ args.new = new
    BY <1>4, <1>5, <1>8 DEF SignsIfGiven, Shown, S, args
  <2>2. process_authorize_with_seed(L, args)
          = Authorization(L[1].pubkey, KeyOf(L[4]) \cup {derived}, args.new,
                          args.who, L[4].pubkey)
    BY Zenon, <2>1, <1>6, <1>7 DEF process_authorize_with_seed
  <2>3. L[1].pubkey = stake /\ L[4].pubkey = custodian
    BY <1>5, KeyGiven DEF Shown
  <2> QED
    BY Zenon, <2>1, <2>2, <2>3, <1>9
<1>11. Writes(Authorization(stake, {derived, custodian}, new, who, custodian))
        \subseteq W
  BY WritesOne DEF W, S
<1> QED
  BY Zenon, <1>2, <1>4, <1>10, <1>11 DEF Answer, process, S, args

\* authorize_checked_with_seed without a custodian: the new authority and the
\* derived key are the signers.
LEMMA AuthorizesCheckedSeedAlone ==
  ASSUME NEW stake \in Keys, NEW base \in Keys, NEW seed \in Seeds,
         NEW new \in Keys, NEW who, NEW derived,
         derived = CreateWithSeed[<< base, seed >>], derived \in Keys
  PROVE  Alone(authorize_checked_with_seed(stake, base, seed, new, who, NoKey))
           = Authorization(stake, {derived, new}, new, who, NoKey)
<1> DEFINE m1 == Writable(stake, FALSE)
           m2 == Readonly(base, TRUE)
           m3 == Readonly(CLOCK_ID, FALSE)
           m4 == Readonly(new, TRUE)
           S == {base, new}
           W == {stake}
           args == [who |-> who, seed |-> seed]
<1>1. /\ m1.pubkey = stake
      /\ \A k : ~SignsAs(m1, k) /\ (WritesAs(m1, k) <=> k = stake)
      /\ m2.pubkey = base
      /\ \A k : (SignsAs(m2, k) <=> k = base) /\ ~WritesAs(m2, k)
      /\ m3.pubkey = CLOCK_ID
      /\ \A k : ~SignsAs(m3, k) /\ ~WritesAs(m3, k)
      /\ m4.pubkey = new
      /\ \A k : (SignsAs(m4, k) <=> k = new) /\ ~WritesAs(m4, k)
  BY Flags
<1>2. authorize_checked_with_seed(stake, base, seed, new, who, NoKey)
        = Instruction("AuthorizeCheckedWithSeed", args, << m1, m2, m3, m4 >>)
  BY DEF authorize_checked_with_seed, WithOptional
<1> HIDE DEF m1, m2, m3, m4
<1>3. Merged({m1, m2, m3, m4}, S, W)
  BY <1>1 DEF Merged
<1> HIDE DEF S, W, args
<1>4. PICK L :
        /\ Alone(Instruction("AuthorizeCheckedWithSeed", args,
                             << m1, m2, m3, m4 >>))
             = Answer("AuthorizeCheckedWithSeed", L, args, W)
        /\ collect_signers(L) = S
        /\ Len(L) = 4 /\ DOMAIN L = 1..4
        /\ Shown(L[1], m1.pubkey, S, W)
        /\ Shown(L[2], m2.pubkey, S, W)
        /\ Shown(L[3], m3.pubkey, S, W)
        /\ Shown(L[4], m4.pubkey, S, W)
  BY <1>3, Read4
<1>5. /\ Shown(L[1], stake, S, W)
      /\ Shown(L[2], base, S, W)
      /\ Shown(L[3], CLOCK_ID, S, W)
      /\ Shown(L[4], new, S, W)
  BY <1>1, <1>4
<1>6. Converge(L, 3, 1) = 4
  BY <1>5, AccountConstants, <1>4 DEF Converge, OldLayout, At, Shown, Sysvars
<1>7. /\ At(L, Converge(L, 3, 1)) = L[4]
      /\ At(L, Converge(L, 3, 1) + 1) = Absent
      /\ At(L, 2) = L[2]
  BY <1>4, <1>5, <1>6 DEF At, Shown, S
<1>8. SeedSigner(L[2], args.seed) = {derived} /\ NoKey \notin {derived}
  BY <1>5, MetaConstants DEF SeedSigner, Shown, S, args
<1>9. KeyOf(L[4]) \cup KeyOf(Absent) \cup {derived} = {derived, new}
  BY <1>5, KeyGiven DEF Shown
<1>10. process_authorize_checked_with_seed(L, args)
        = Authorization(stake, {derived, new}, new, who, NoKey)
  <2>1. /\ ~(Len(L) < 2) /\ SignsIfGiven(Absent)
        /\ SeedSigner(L[2], args.seed) = {derived} /\ NoKey \notin {derived}
        /\ args.who = who /\ L[4].is_signer
    BY <1>4, <1>5, <1>8 DEF SignsIfGiven, Shown, S, args
  <2>2. process_authorize_checked_with_seed(L, args)
          = Authorization(L[1].pubkey,
                          KeyOf(L[4]) \cup KeyOf(Absent) \cup {derived},
                              L[4].pubkey, args.who, Absent.pubkey)
    BY Zenon, <2>1, <1>6, <1>7 DEF process_authorize_checked_with_seed
  <2>3. L[1].pubkey = stake /\ Absent.pubkey = NoKey /\ L[4].pubkey = new
    BY <1>5, KeyGiven DEF Shown
  <2> QED
    BY Zenon, <2>1, <2>2, <2>3, <1>9
<1>11. Writes(Authorization(stake, {derived, new}, new, who, NoKey))
        \subseteq W
  BY WritesOne DEF W, S
<1> QED
  BY Zenon, <1>2, <1>4, <1>10, <1>11 DEF Answer, process, S, args

\* authorize_checked_with_seed with a custodian.
LEMMA AuthorizesCheckedSeedWith ==
  ASSUME NEW stake \in Keys, NEW base \in Keys, NEW seed \in Seeds,
         NEW new \in Keys, NEW who, NEW custodian \in Keys, NEW derived,
         derived = CreateWithSeed[<< base, seed >>], derived \in Keys
  PROVE  Alone(authorize_checked_with_seed(stake, base, seed, new, who,
                                           custodian))
           = Authorization(stake, {derived, new, custodian}, new, who,
                           custodian)
<1> DEFINE m1 == Writable(stake, FALSE)
           m2 == Readonly(base, TRUE)
           m3 == Readonly(CLOCK_ID, FALSE)
           m4 == Readonly(new, TRUE)
           m5 == Readonly(custodian, TRUE)
           S == {base, new, custodian}
           W == {stake}
           args == [who |-> who, seed |-> seed]
<1>1. /\ m1.pubkey = stake
      /\ \A k : ~SignsAs(m1, k) /\ (WritesAs(m1, k) <=> k = stake)
      /\ m2.pubkey = base
      /\ \A k : (SignsAs(m2, k) <=> k = base) /\ ~WritesAs(m2, k)
      /\ m3.pubkey = CLOCK_ID
      /\ \A k : ~SignsAs(m3, k) /\ ~WritesAs(m3, k)
      /\ m4.pubkey = new
      /\ \A k : (SignsAs(m4, k) <=> k = new) /\ ~WritesAs(m4, k)
      /\ m5.pubkey = custodian
      /\ \A k : (SignsAs(m5, k) <=> k = custodian) /\ ~WritesAs(m5, k)
  BY Flags
<1>2. authorize_checked_with_seed(stake, base, seed, new, who, custodian)
        = Instruction("AuthorizeCheckedWithSeed", args,
                      << m1, m2, m3, m4, m5 >>)
  BY Optional4 DEF authorize_checked_with_seed
<1> HIDE DEF m1, m2, m3, m4, m5
<1>3. Merged({m1, m2, m3, m4, m5}, S, W)
  BY <1>1 DEF Merged
<1> HIDE DEF S, W, args
<1>4. PICK L :
        /\ Alone(Instruction("AuthorizeCheckedWithSeed", args,
                             << m1, m2, m3, m4, m5 >>))
             = Answer("AuthorizeCheckedWithSeed", L, args, W)
        /\ collect_signers(L) = S
        /\ Len(L) = 5 /\ DOMAIN L = 1..5
        /\ Shown(L[1], m1.pubkey, S, W)
        /\ Shown(L[2], m2.pubkey, S, W)
        /\ Shown(L[3], m3.pubkey, S, W)
        /\ Shown(L[4], m4.pubkey, S, W)
        /\ Shown(L[5], m5.pubkey, S, W)
  BY <1>3, Read5
<1>5. /\ Shown(L[1], stake, S, W)
      /\ Shown(L[2], base, S, W)
      /\ Shown(L[3], CLOCK_ID, S, W)
      /\ Shown(L[4], new, S, W)
      /\ Shown(L[5], custodian, S, W)
  BY <1>1, <1>4
<1>6. Converge(L, 3, 1) = 4
  BY <1>5, AccountConstants, <1>4 DEF Converge, OldLayout, At, Shown, Sysvars
<1>7. /\ At(L, Converge(L, 3, 1)) = L[4]
      /\ At(L, Converge(L, 3, 1) + 1) = L[5]
      /\ At(L, 2) = L[2]
  BY <1>4, <1>5, <1>6 DEF At, Shown, S
<1>8. SeedSigner(L[2], args.seed) = {derived} /\ NoKey \notin {derived}
  BY <1>5, MetaConstants DEF SeedSigner, Shown, S, args
<1>9. KeyOf(L[4]) \cup KeyOf(L[5]) \cup {derived} = {derived, new, custodian}
  BY <1>5, KeyGiven DEF Shown
<1>10. process_authorize_checked_with_seed(L, args)
        = Authorization(stake, {derived, new, custodian}, new, who, custodian)
  <2>1. /\ ~(Len(L) < 2) /\ SignsIfGiven(L[5])
        /\ SeedSigner(L[2], args.seed) = {derived} /\ NoKey \notin {derived}
        /\ args.who = who /\ L[4].is_signer
    BY <1>4, <1>5, <1>8 DEF SignsIfGiven, Shown, S, args
  <2>2. process_authorize_checked_with_seed(L, args)
          = Authorization(L[1].pubkey,
                          KeyOf(L[4]) \cup KeyOf(L[5]) \cup {derived},
                              L[4].pubkey, args.who, L[5].pubkey)
    BY Zenon, <2>1, <1>6, <1>7 DEF process_authorize_checked_with_seed
  <2>3. L[1].pubkey = stake /\ L[5].pubkey = custodian /\ L[4].pubkey = new
    BY <1>5, KeyGiven DEF Shown
  <2> QED
    BY Zenon, <2>1, <2>2, <2>3, <1>9
<1>11. Writes(Authorization(stake, {derived, new, custodian}, new, who,
                            custodian))
        \subseteq W
  BY WritesOne DEF W, S
<1> QED
  BY Zenon, <1>2, <1>4, <1>10, <1>11 DEF Answer, process, S, args

\* set_lockup_checked without a new custodian.
LEMMA SetsLockupCheckedAlone ==
  ASSUME NEW stake \in Keys, NEW authority \in Keys,
         NEW lockup \in LockupArgs, lockup.custodian = Unset
  PROVE  Alone(set_lockup_checked(stake, lockup, authority))
           = LockupChange(stake, {authority}, lockup)
<1> DEFINE m1 == Writable(stake, FALSE)
           m2 == Readonly(authority, TRUE)
           S == {authority}
           W == {stake}
           args == [unix_timestamp |-> lockup.unix_timestamp,
                    epoch |-> lockup.epoch]
<1>1. /\ m1.pubkey = stake
      /\ \A k : ~SignsAs(m1, k) /\ (WritesAs(m1, k) <=> k = stake)
      /\ m2.pubkey = authority
      /\ \A k : (SignsAs(m2, k) <=> k = authority) /\ ~WritesAs(m2, k)
  BY Flags
<1>2. set_lockup_checked(stake, lockup, authority)
        = Instruction("SetLockupChecked", args, << m1, m2 >>)
  BY DEF set_lockup_checked, WithOptional
<1> HIDE DEF m1, m2
<1>3. Merged({m1, m2}, S, W)
  BY <1>1 DEF Merged
<1> HIDE DEF S, W, args
<1>4. PICK L :
        /\ Alone(Instruction("SetLockupChecked", args, << m1, m2 >>))
             = Answer("SetLockupChecked", L, args, W)
        /\ collect_signers(L) = S
        /\ Len(L) = 2 /\ DOMAIN L = 1..2
        /\ Shown(L[1], m1.pubkey, S, W)
        /\ Shown(L[2], m2.pubkey, S, W)
  BY <1>3, Read2
<1>5. /\ Shown(L[1], stake, S, W)
      /\ Shown(L[2], authority, S, W)
  BY <1>1, <1>4
<1>6. process_set_lockup_checked(L, args)
        = LockupChange(stake, {authority}, lockup)
  BY <1>4, <1>5, AccountConstants, MetaConstants
     DEF S, W, args, Shown, Sysvars, At, Absent, process_set_lockup_checked,
         SignsIfGiven, LockupArgs
<1>7. Writes(LockupChange(stake, {authority}, lockup))
        \subseteq W
  BY WritesOne DEF W, S
<1> QED
  BY Zenon, <1>2, <1>4, <1>6, <1>7 DEF Answer, process, S, args

\* set_lockup_checked with a new custodian: an account that signs, which the
\* processor puts back into the lockup.
LEMMA SetsLockupCheckedWith ==
  ASSUME NEW stake \in Keys, NEW authority \in Keys,
         NEW lockup \in LockupArgs, lockup.custodian # Unset
  PROVE  Alone(set_lockup_checked(stake, lockup, authority))
           = LockupChange(stake, {authority, lockup.custodian}, lockup)
<1> DEFINE m1 == Writable(stake, FALSE)
           m2 == Readonly(authority, TRUE)
           m3 == Readonly(lockup.custodian, TRUE)
           S == {authority, lockup.custodian}
           W == {stake}
           args == [unix_timestamp |-> lockup.unix_timestamp,
                    epoch |-> lockup.epoch]
<1>1. /\ m1.pubkey = stake
      /\ \A k : ~SignsAs(m1, k) /\ (WritesAs(m1, k) <=> k = stake)
      /\ m2.pubkey = authority
      /\ \A k : (SignsAs(m2, k) <=> k = authority) /\ ~WritesAs(m2, k)
      /\ m3.pubkey = lockup.custodian
      /\ \A k : (SignsAs(m3, k) <=> k = lockup.custodian) /\ ~WritesAs(m3, k)
  BY Flags
<1>2. lockup.custodian \in Keys
  BY DEF LockupArgs
<1>3. set_lockup_checked(stake, lockup, authority)
        = Instruction("SetLockupChecked", args, << m1, m2, m3 >>)
  BY <1>2, Optional2 DEF set_lockup_checked
<1> HIDE DEF m1, m2, m3
<1>4. Merged({m1, m2, m3}, S, W)
  BY <1>1 DEF Merged
<1> HIDE DEF S, W, args
<1>5. PICK L :
        /\ Alone(Instruction("SetLockupChecked", args, << m1, m2, m3 >>))
             = Answer("SetLockupChecked", L, args, W)
        /\ collect_signers(L) = S
        /\ Len(L) = 3 /\ DOMAIN L = 1..3
        /\ Shown(L[1], m1.pubkey, S, W)
        /\ Shown(L[2], m2.pubkey, S, W)
        /\ Shown(L[3], m3.pubkey, S, W)
  BY <1>4, Read3
<1>6. /\ Shown(L[1], stake, S, W)
      /\ Shown(L[2], authority, S, W)
      /\ Shown(L[3], lockup.custodian, S, W)
  BY <1>2, <1>1, <1>5
<1>7. process_set_lockup_checked(L, args)
        = LockupChange(stake, {authority, lockup.custodian}, lockup)
  BY <1>2, <1>5, <1>6, AccountConstants, MetaConstants
     DEF S, W, args, Shown, Sysvars, At, Absent, process_set_lockup_checked,
         SignsIfGiven, LockupArgs
<1>8. Writes(LockupChange(stake, {authority, lockup.custodian}, lockup))
        \subseteq W
  BY WritesOne DEF W, S
<1> QED
  BY Zenon, <1>3, <1>5, <1>7, <1>8 DEF Answer, process, S, args

-----------------------------------------------------------------------------
(* The theorems: the builders and the processor agree on every account.    *)

\* What initialize and initialize_checked build, process_initialize and
\* process_initialize_checked read as the creation with the authorities and the
\* lockup that were named; the checked one has the default lockup.
THEOREM CreationAsMeant ==
  \A stake \in Keys, authorized \in [staker : Keys, withdrawer : Keys] :
     /\ \A lockup \in Lockup :
           Alone(initialize(stake, authorized, lockup))
             = Initialization(stake, authorized.staker, authorized.withdrawer,
                              lockup)
     /\ Alone(initialize_checked(stake, authorized))
          = Initialization(stake, authorized.staker, authorized.withdrawer,
                           DefaultLockup)
BY Initializes, InitializesChecked

\* What delegate_stake, deactivate_stake and deactivate_delinquent_stake build,
\* the processor reads as that, of these accounts, by the signature of exactly
\* the key that was named.
THEOREM DelegationAsMeant ==
  \A stake, other, authority \in Keys :
     /\ Alone(delegate_stake(stake, authority, other))
          = Delegation(stake, {authority}, other)
     /\ Alone(deactivate_stake(stake, authority))
          = Deactivation(stake, {authority})
     /\ Alone(deactivate_delinquent_stake(stake, other, authority))
          = ForcedDeactivation(stake, other, authority)
BY Delegates, Deactivates, DeactivatesDelinquent

\* What authorize and authorize_checked build, without a custodian or with one,
\* process_authorize and process_authorize_checked read as the change meant, by
\* the signatures of the authority, the custodian if one was named, and in the
\* checked one of the new authority; nobody else is taken for the custodian.
THEOREM AuthorityAsMeant ==
  \A stake, authority, new \in Keys, who \in StakeAuthorize :
     /\ Alone(authorize(stake, authority, new, who, NoKey))
          = Authorization(stake, {authority}, new, who, NoKey)
     /\ Alone(authorize_checked(stake, authority, new, who, NoKey))
          = Authorization(stake, {authority, new}, new, who, NoKey)
     /\ \A custodian \in Keys :
           /\ Alone(authorize(stake, authority, new, who, custodian))
                = Authorization(stake, {authority, custodian}, new, who,
                                custodian)
           /\ Alone(authorize_checked(stake, authority, new, who, custodian))
                = Authorization(stake, {authority, new, custodian}, new, who,
                                custodian)
<1> TAKE stake, authority, new \in Keys, who \in StakeAuthorize
<1>1. /\ Alone(authorize(stake, authority, new, who, NoKey))
           = Authorization(stake, {authority}, new, who, NoKey)
      /\ Alone(authorize_checked(stake, authority, new, who, NoKey))
           = Authorization(stake, {authority, new}, new, who, NoKey)
  BY AuthorizesAlone, AuthorizesCheckedAlone
<1>2. ASSUME NEW custodian \in Keys
      PROVE  /\ Alone(authorize(stake, authority, new, who, custodian))
                  = Authorization(stake, {authority, custodian}, new, who,
                                  custodian)
             /\ Alone(authorize_checked(stake, authority, new, who, custodian))
                  = Authorization(stake, {authority, new, custodian}, new, who,
                                  custodian)
  BY AuthorizesWith, AuthorizesCheckedWith
<1> QED
  BY <1>1, <1>2

\* The same for authorize_with_seed and authorize_checked_with_seed: it is the
\* key derived from the base and the seed that counts as a signer, and the base,
\* which signs the message, does not.
THEOREM SeedAsMeant ==
  \A stake, base, new \in Keys, seed \in Seeds, who \in StakeAuthorize,
     derived \in Keys :
     derived = CreateWithSeed[<< base, seed >>] =>
     /\ Alone(authorize_with_seed(stake, base, seed, new, who, NoKey))
          = Authorization(stake, {derived}, new, who, NoKey)
     /\ Alone(authorize_checked_with_seed(stake, base, seed, new, who, NoKey))
          = Authorization(stake, {derived, new}, new, who, NoKey)
     /\ \A custodian \in Keys :
           /\ Alone(authorize_with_seed(stake, base, seed, new, who, custodian))
                = Authorization(stake, {derived, custodian}, new, who,
                                custodian)
           /\ Alone(authorize_checked_with_seed(stake, base, seed, new, who,
                                                custodian))
                = Authorization(stake, {derived, new, custodian}, new, who,
                                custodian)
<1> TAKE stake, base, new \in Keys, seed \in Seeds, who \in StakeAuthorize,
         derived \in Keys
<1> HAVE derived = CreateWithSeed[<< base, seed >>]
<1>1. /\ Alone(authorize_with_seed(stake, base, seed, new, who, NoKey))
           = Authorization(stake, {derived}, new, who, NoKey)
      /\ Alone(authorize_checked_with_seed(stake, base, seed, new, who, NoKey))
           = Authorization(stake, {derived, new}, new, who, NoKey)
  BY AuthorizesSeedAlone, AuthorizesCheckedSeedAlone
<1>2. ASSUME NEW custodian \in Keys
      PROVE  /\ Alone(authorize_with_seed(stake, base, seed, new, who,
                                          custodian))
                  = Authorization(stake, {derived, custodian}, new, who,
                                  custodian)
             /\ Alone(authorize_checked_with_seed(stake, base, seed, new, who,
                                                  custodian))
                  = Authorization(stake, {derived, new, custodian}, new, who,
                                  custodian)
  BY AuthorizesSeedWith, AuthorizesCheckedSeedWith
<1> QED
  BY <1>1, <1>2

\* What set_lockup and set_lockup_checked build, the processor reads as the
\* change of the lockup that was meant.  In the checked one the new custodian is
\* an account that must sign, and process_set_lockup_checked puts it back.
THEOREM LockupAsMeant ==
  \A stake, authority \in Keys, change \in LockupArgs :
     /\ Alone(set_lockup(stake, change, authority))
          = LockupChange(stake, {authority}, change)
     /\ change.custodian = Unset =>
           Alone(set_lockup_checked(stake, change, authority))
             = LockupChange(stake, {authority}, change)
     /\ change.custodian # Unset =>
           Alone(set_lockup_checked(stake, change, authority))
             = LockupChange(stake, {authority, change.custodian}, change)
BY SetsLockup, SetsLockupCheckedAlone, SetsLockupCheckedWith

\* What the builders that move lamports or stake build, the processor reads as
\* the same movement, in the same direction and by the signature of the key that
\* was named, to which withdraw adds the custodian if there is one.
THEOREM LamportsAsMeant ==
  \A from, to, authority \in Keys, amount \in Nat :
     /\ Alone(_split(from, authority, amount, to))
          = Moving("Split", from, to, {authority}, amount)
     /\ Alone(merge(to, from, authority)[1]) = Merging(to, from, {authority})
     /\ Alone(move_stake(from, to, authority, amount))
          = Moving("MoveStake", from, to, {authority}, amount)
     /\ Alone(move_lamports(from, to, authority, amount))
          = Moving("MoveLamports", from, to, {authority}, amount)
     /\ Alone(withdraw(from, authority, to, amount, NoKey))
          = Withdrawal(from, to, {authority}, NoKey, amount)
     /\ \A custodian \in Keys :
           Alone(withdraw(from, authority, to, amount, custodian))
             = Withdrawal(from, to, {authority, custodian}, custodian, amount)
<1> TAKE from, to, authority \in Keys, amount \in Nat
<1>1. /\ Alone(_split(from, authority, amount, to))
           = Moving("Split", from, to, {authority}, amount)
      /\ Alone(merge(to, from, authority)[1]) = Merging(to, from, {authority})
  BY Splits, Merges
<1>2. /\ Alone(move_stake(from, to, authority, amount))
           = Moving("MoveStake", from, to, {authority}, amount)
      /\ Alone(move_lamports(from, to, authority, amount))
           = Moving("MoveLamports", from, to, {authority}, amount)
  BY MovesStake, MovesLamports
<1>3. /\ Alone(withdraw(from, authority, to, amount, NoKey))
           = Withdrawal(from, to, {authority}, NoKey, amount)
      /\ \A custodian \in Keys :
            Alone(withdraw(from, authority, to, amount, custodian))
              = Withdrawal(from, to, {authority, custodian}, custodian, amount)
  BY WithdrawsAlone, WithdrawsWith
<1> QED
  BY <1>1, <1>2, <1>3

=============================================================================
