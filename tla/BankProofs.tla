----------------------------- MODULE BankProofs -----------------------------
(***************************************************************************)
(* Proofs about the bank, for every width of the word, every set of actors,*)
(* effects and changes and every limit of the tables.                      *)
(*                                                                         *)
(* Of the account alone (CampaignAccount): the types, the exact total, the *)
(* agreement of the cap hook with the account, the order in which banked   *)
(* XP is released, and that no step but a loss takes usable XP away.       *)
(*                                                                         *)
(* Of the account under the native bridges (XpBridge): whatever nests,     *)
(* fails, is replaced or is loaded back, no XP of a known actor is lost or *)
(* created; nothing is written where the bank does not know how it stands; *)
(* and an open save freezes every account.                                 *)
(***************************************************************************)
EXTENDS CampaignAccount, XpBridge, FiniteSetTheorems, WellFoundedInduction,
        SequenceTheorems, TLAPS

(***************************************************************************)
(* The account alone.                                                      *)
(***************************************************************************)
\* The caps of every policy are balances, and a later phase has no lower cap
\* once the native cap has cut both.
LEMMA ChapterCapsType == \A i \in 1..22 : ChapterCaps[i] \in Nat
  BY DEF ChapterCaps

LEMMA ChapterCapsAscend ==
    \A i, j \in 1..22 : i <= j => ChapterCaps[i] <= ChapterCaps[j]
  BY DEF ChapterCaps

LEMMA OwnCapType ==
    ASSUME NEW policy \in Policies, NEW phase \in Phases(policy)
    PROVE  OwnCap(policy, phase) \in Nat
  BY ChapterCapsType, NativeAssumption DEF OwnCap, CampaignCaps, Phases

LEMMA OwnCapAscends ==
    ASSUME NEW policy \in Policies, NEW p \in Phases(policy),
           NEW q \in Phases(policy), p <= q, NEW native \in Word
    PROVE  Least(native, OwnCap(policy, p)) <= Least(native, OwnCap(policy, q))
  <1>1. CASE policy = "chapter_caps"
    BY <1>1, ChapterCapsType, ChapterCapsAscend
    DEF OwnCap, Phases, Least, Word
  <1>2. CASE policy # "chapter_caps"
    BY <1>2, NativeAssumption DEF OwnCap, CampaignCaps, Phases, Least, Word
  <1> QED BY <1>1, <1>2
-----------------------------------------------------------------------------
\* The overflow is only what the word has no room for.
Canonical == account.overflow > 0 => base = U32

\* While part of the old bank is held back, the ceiling is used up by the part
\* that is not.
Frozen ==
    ~imported /\ account.old.usable < account.old.total
        => Ceiling(account, NativeCap) <= account.old.usable

AccountInv == TypeOK /\ ExactTotal /\ Canonical /\ Frozen
-----------------------------------------------------------------------------
(* The fields of a valid account, and a record that is one.                 *)

LEMMA AccountFields ==
    ASSUME NEW s, Valid(s)
    PROVE  /\ s.policy \in Policies
           /\ s.phase \in Phases(s.policy)
           /\ s.phase \in 1..22
           /\ s.revision \in 0..MaxRevision
           /\ s.floor \in Word
           /\ s.overflow \in Exact
           /\ s.kind \in Kinds
           /\ s.old.total \in Exact /\ s.old.usable \in Exact
           /\ s.old.preUsable \in Exact /\ s.old.preBank \in Exact
           /\ s.old.usable <= s.old.total
           /\ s.kind # "dual" => s.old.total = 0 /\ s.old.usable = 0
  <1>1. s \in Accounts BY DEF Valid
  <1>2. s.old \in OldAccounts BY <1>1 DEF Accounts
  <1>3. s.kind # "dual" => s.old = NoOld BY DEF Valid
  <1>4. 0 <= 0 OBVIOUS
  <1>5. s.old.usable <= s.old.total
    BY <1>3, <1>4 DEF Valid, NoOld
  <1> QED BY <1>1, <1>2, <1>3, <1>5 DEF Accounts, OldAccounts, NoOld, Valid

LEMMA NoOldType == 0 \in Exact /\ NoOld \in OldAccounts
  BY NativeAssumption DEF NoOld, OldAccounts, Exact

\* A step that keeps the old class.
LEMMA SameOldValid ==
    ASSUME NEW s, Valid(s), NEW phase \in Phases(s.policy),
           NEW revision \in 0..MaxRevision, NEW floor \in Word,
           NEW overflow \in Exact
    PROVE  Valid([policy |-> s.policy, phase |-> phase, revision |-> revision,
                  floor |-> floor, overflow |-> overflow, kind |-> s.kind,
                  old |-> s.old])
  <1>1. phase \in 1..22 BY DEF Phases
  <1> QED BY <1>1 DEF Valid, Accounts

LEMMA CeilingType ==
    ASSUME NEW s, Valid(s), NEW native \in Word
    PROVE  /\ Ceiling(s, native) \in Nat
           /\ Ceiling(s, native) <= native
           /\ Ceiling(s, native) <= U32
  <1>1. OwnCap(s.policy, s.phase) \in Nat BY AccountFields, OwnCapType
  <1>2. s.floor \in Nat /\ native \in Nat /\ native <= U32
    BY AccountFields, NativeAssumption DEF Word
  <1> QED BY <1>1, <1>2, NativeAssumption DEF Ceiling, Least, Greatest

\* What Inspect reports, in terms of the total and the room under the ceiling.
LEMMA UsableBounds ==
    ASSUME NEW s, Valid(s), NEW b \in Word, NEW native \in Word
    PROVE  LET usable == ActiveUsable(s, b, native)
               room == Ceiling(s, native) - s.old.usable
           IN /\ usable \in Nat
              /\ usable <= ActiveTotal(s, b)
              /\ usable > 0 => usable <= room
              /\ room <= 0 => usable = 0
              /\ room >= 0 => usable = Least(ActiveTotal(s, b), room)
              /\ usable < ActiveTotal(s, b) => usable = Greatest(0, room)
  <1>1. Ceiling(s, native) \in Nat /\ Ceiling(s, native) <= U32 BY CeilingType
  <1>2. s.old.usable \in Nat /\ s.overflow \in Nat /\ b \in Nat /\ U32 \in Nat
    BY AccountFields, NativeAssumption DEF Exact, Word
  <1> QED BY <1>1, <1>2
      DEF ActiveUsable, ActiveTotal, Room, Least, Greatest
-----------------------------------------------------------------------------
LEMMA AccountInit == Init => AccountInv
  <1> SUFFICES ASSUME Init PROVE AccountInv OBVIOUS
  <1>1. PICK policy \in Policies, b \in Baselines, threshold \in Baselines,
             phase \in 1..22 :
          /\ phase \in Phases(policy)
          /\ base = b /\ earned = b /\ imported = FALSE
          /\ \/ \E kind \in {"single", "multi"} :
                  account = Adopt(policy, phase, b, kind)
             \/ /\ Storable(b, threshold)
                /\ account = AdoptExistingDual(policy, phase, b, threshold)
    BY DEF Init, Phases
  <1>2. b \in Word /\ threshold \in Word /\ phase \in 1..22
    BY CampaignAssumption DEF Phases
  <1>3. b \in Nat /\ threshold \in Nat /\ b \in Exact /\ threshold \in Exact
        /\ 0 \in Exact /\ 0 \in 0..MaxRevision
    BY <1>2, NativeAssumption DEF Word, Exact
  <1>6. base = b /\ earned = b /\ imported \in BOOLEAN BY <1>1
  <1>7. ASSUME Valid(account), account.overflow = 0,
               ~(account.old.usable < account.old.total)
        PROVE  AccountInv
    <2>1. TypeOK BY <1>2, <1>3, <1>6, <1>7 DEF TypeOK
    <2>2. ExactTotal BY <1>3, <1>6, <1>7 DEF ExactTotal, ActiveTotal
    <2>3. Canonical BY <1>7 DEF Canonical
    <2>4. Frozen BY <1>7 DEF Frozen
    <2> QED BY <2>1, <2>2, <2>3, <2>4 DEF AccountInv
  <1>4. CASE \E kind \in {"single", "multi"} :
               account = Adopt(policy, phase, b, kind)
    <2>1. PICK kind \in {"single", "multi"} :
            account = Adopt(policy, phase, b, kind) BY <1>4
    <2>2. account \in Accounts
      BY <2>1, <1>2, <1>3, NoOldType DEF Accounts, Adopt, Kinds
    <2>3. /\ account.overflow = 0 /\ account.old = NoOld /\ account.kind # "dual"
          /\ account.policy = policy /\ account.phase = phase
      BY <2>1 DEF Adopt
    <2>5. Valid(account) BY <1>1, <2>2, <2>3 DEF Valid
    <2>4. ~(account.old.usable < account.old.total) BY <2>3 DEF NoOld
    <2> QED BY <1>7, <2>3, <2>4, <2>5
  <1>5. CASE /\ Storable(b, threshold)
             /\ account = AdoptExistingDual(policy, phase, b, threshold)
    <2> DEFINE old == [total |-> threshold, usable |-> threshold,
                       preUsable |-> threshold, preBank |-> 0]
    <2>1. Least(U32, b + threshold) \in Word
      BY <1>2, NativeAssumption DEF Least, Word
    <2>2. old \in OldAccounts BY <1>3 DEF OldAccounts
    <2>3. account \in Accounts
      BY <1>5, <1>2, <1>3, <2>1, <2>2 DEF Accounts, AdoptExistingDual, Kinds
    <2>4. /\ account.overflow = 0 /\ account.old = old /\ account.kind = "dual"
          /\ account.policy = policy /\ account.phase = phase
      BY <1>5 DEF AdoptExistingDual
    <2>6. Valid(account) BY <1>1, <1>3, <2>3, <2>4 DEF Valid, Exact
    <2>5. ~(account.old.usable < account.old.total) BY <1>3, <2>4 DEF Exact
    <2> QED BY <1>7, <2>4, <2>5, <2>6
  <1> QED BY <1>1, <1>4, <1>5

\* The sorts every action starts from.
LEMMA AccountSorts ==
    ASSUME AccountInv
    PROVE  /\ Valid(account)
           /\ base \in Nat /\ base <= U32 /\ earned \in Nat
           /\ U32 \in Nat /\ ExactMax \in Nat /\ U32 <= ExactMax
           /\ MaxRevision \in Nat
           /\ account.overflow \in Nat /\ account.overflow <= ExactMax
           /\ account.revision \in Nat
           /\ account.old.usable \in Nat /\ account.old.total \in Nat
           /\ earned = base + account.overflow
           /\ NativeCap \in Word
  BY AccountFields, NativeAssumption, CampaignAssumption
  DEF AccountInv, TypeOK, ExactTotal, ActiveTotal, Word, Exact

\* A step that leaves phase, floor and old class alone keeps the ceiling.
LEMMA FrozenKept ==
    ASSUME Frozen, account'.policy = account.policy,
           account'.phase = account.phase, account'.floor = account.floor,
           account'.old = account.old, imported' = imported
    PROVE  Frozen'
  BY DEF Frozen, Ceiling

LEMMA AwardInv ==
    ASSUME AccountInv, NEW amount \in Amounts, Award(amount)
    PROVE  AccountInv'
  <1>1. amount \in Nat /\ amount > 0
    BY CampaignAssumption, NativeAssumption DEF S32
  <1> DEFINE applied == Applied(base, amount)
             rest == Remainder(base, amount)
  <1>2. /\ applied \in Nat /\ rest \in Nat /\ applied + rest = amount
        /\ base + applied <= U32 /\ (rest > 0 => base + applied = U32)
    <2>1. PICK b, room \in Nat : b = base /\ b + room = U32 /\ room = U32 - base
      BY AccountSorts
    <2>2. applied = IF amount <= room THEN amount ELSE room
      BY <2>1 DEF Applied, Least
    <2>3. rest = amount - applied
      BY DEF Remainder
    <2> HIDE DEF applied, rest
    <2>4. CASE amount <= room
      BY <1>1, <2>1, <2>2, <2>3, <2>4
    <2>5. CASE ~(amount <= room)
      BY <1>1, <2>1, <2>2, <2>3, <2>5
    <2> QED BY <2>4, <2>5
  <1>3. /\ account.overflow + rest \in Exact
        /\ account.revision + 1 \in 0..MaxRevision
    BY <1>2, AccountSorts DEF Award, AwardFits, Storable, Exact
  <1>4. account' = [policy |-> account.policy, phase |-> account.phase,
                    revision |-> account.revision + 1, floor |-> account.floor,
                    overflow |-> account.overflow + rest,
                    kind |-> account.kind, old |-> account.old]
    BY DEF Award, CompleteAward, Banked
  <1>5. Valid(account')
    BY <1>3, <1>4, AccountSorts, AccountFields, SameOldValid
  <1>6. account'.overflow = account.overflow + rest BY <1>4
  <1>7. base' = base + applied /\ earned' = earned + amount
        /\ imported' = imported
    BY DEF Award
  <1>8. TypeOK' /\ ExactTotal'
    BY <1>1, <1>2, <1>5, <1>6, <1>7, AccountSorts
    DEF AccountInv, TypeOK, ExactTotal, ActiveTotal, Word
  <1>9. Canonical'
    BY <1>2, <1>6, <1>7, AccountSorts DEF AccountInv, Canonical
  <1>10. Frozen' BY <1>4, <1>7, FrozenKept DEF AccountInv
  <1> QED BY <1>8, <1>9, <1>10 DEF AccountInv

\* The engine's wrapping percentage is a word whatever the product is.
LEMMA PercentType ==
    ASSUME NEW b \in Word, NEW raw \in Word
    PROVE  ((b * raw) % (U32 + 1)) \div 100 \in Nat
  <1>1. b \in Nat /\ raw \in Nat /\ U32 + 1 \in Nat \ {0}
    BY NativeAssumption DEF Word
  <1>2. b * raw \in Int BY <1>1
  <1>3. \A x \in Int, m \in Nat \ {0} : x % m \in Nat OBVIOUS
  <1>4. (b * raw) % (U32 + 1) \in Nat BY <1>1, <1>2, <1>3
  <1>5. \A x \in Nat : x \div 100 \in Nat OBVIOUS
  <1> QED BY <1>4, <1>5

LEMMA WriteInv ==
    ASSUME AccountInv, NEW mode \in Modes, NEW raw \in Word, Write(mode, raw)
    PROVE  AccountInv'
  <1> DEFINE total == WriteTotal(account, base, mode, raw)
             word == Target(account, base, mode, raw)
  <1>1. raw \in Nat /\ raw <= U32 BY NativeAssumption DEF Word
  <1>2. base \in Word BY DEF AccountInv, TypeOK
  <1>3. total \in Nat /\ total = Intended(mode, raw)
    <2>1. CASE mode = "add"
      <3>1. S32 \in Nat BY NativeAssumption DEF S32
      <3>2. raw > S32 => Loss(raw) <= ActiveTotal(account, base)
        BY <2>1 DEF Write, WriteFits
      <3>3. CASE raw <= S32
        BY <2>1, <3>3, <3>1, <1>1, AccountSorts
        DEF WriteTotal, Intended, ActiveTotal
      <3>4. CASE raw > S32
        BY <2>1, <3>4, <3>1, <3>2, <1>1, AccountSorts
        DEF WriteTotal, Intended, ActiveTotal, Loss
      <3> QED BY <3>1, <3>3, <3>4, <1>1
    <2>2. CASE mode = "percent"
      <3>1. earned = base BY <2>2, AccountSorts DEF Write, WriteFits
      <3> QED BY <2>2, <3>1, <1>2, PercentType DEF WriteTotal, Intended
    <2>3. CASE mode = "catchup"
      BY <2>3, <1>1, AccountSorts
      DEF WriteTotal, Intended, ActiveTotal, Greatest
    <2>4. CASE mode = "set"
      BY <2>4, <1>1 DEF WriteTotal, Intended
    <2> QED BY <2>1, <2>2, <2>3, <2>4 DEF Modes
  <1>4. /\ word \in Nat /\ word <= U32 /\ total - word \in Nat
        /\ (total - word > 0 => word = U32)
    BY <1>3, AccountSorts DEF Target, Least
  <1>5. /\ total - word \in Exact
        /\ account.revision + 1 \in 0..MaxRevision
    BY <1>3, <1>4, AccountSorts DEF Write, WriteFits, Storable, Exact
  <1>6. account' = [policy |-> account.policy, phase |-> account.phase,
                    revision |-> account.revision + 1, floor |-> account.floor,
                    overflow |-> total - word,
                    kind |-> account.kind, old |-> account.old]
    BY DEF Write, PrepareWrite
  <1>7. Valid(account')
    BY <1>5, <1>6, AccountSorts, AccountFields, SameOldValid
  <1>8. account'.overflow = total - word BY <1>6
  <1>9. base' = word /\ earned' = total /\ imported' = imported
    BY <1>3 DEF Write
  <1>10. TypeOK' /\ ExactTotal'
    BY <1>3, <1>4, <1>7, <1>8, <1>9, AccountSorts
    DEF AccountInv, TypeOK, ExactTotal, ActiveTotal, Word
  <1>11. Canonical' BY <1>4, <1>8, <1>9 DEF Canonical
  <1>12. Frozen' BY <1>6, <1>9, FrozenKept DEF AccountInv
  <1> QED BY <1>10, <1>11, <1>12 DEF AccountInv

LEMMA DualInv ==
    ASSUME AccountInv, NEW threshold \in Baselines, Dual(threshold)
    PROVE  AccountInv'
  <1> DEFINE usable == ActiveUsable(account, base, NativeCap)
             bank == ActiveBank(account, base, NativeCap)
             kept == OldUsable(account, base, NativeCap, threshold)
             old == [total |-> kept + bank, usable |-> kept,
                     preUsable |-> kept, preBank |-> bank]
  <1>1. threshold \in Nat /\ threshold <= usable
    BY CampaignAssumption, NativeAssumption DEF Word, Dual, DualFits
  <1>2. /\ usable \in Nat /\ usable <= base + account.overflow
        /\ (usable < base + account.overflow =>
                usable = Greatest(0, Ceiling(account, NativeCap) - account.old.usable))
    BY AccountSorts, UsableBounds DEF AccountInv, TypeOK, ActiveTotal
  <1>3. bank = base + account.overflow - usable /\ bank \in Nat
    BY <1>2, AccountSorts DEF ActiveBank, ActiveTotal
  <1>4. base + account.overflow <= ExactMax
    BY DEF Dual, DualFits, Storable
  <1>5. kept \in Nat /\ kept <= usable
    BY <1>1, <1>2 DEF OldUsable
  <1>6. kept + bank \in Exact /\ kept \in Exact /\ bank \in Exact /\ 0 \in Exact
    BY <1>2, <1>3, <1>4, <1>5, AccountSorts DEF Exact
  <1>7. old \in OldAccounts BY <1>6 DEF OldAccounts
  <1>8. account.revision + 1 \in 0..MaxRevision
    BY AccountSorts DEF Dual, DualFits
  <1>9. account' = [policy |-> account.policy, phase |-> account.phase,
                    revision |-> account.revision + 1, floor |-> account.floor,
                    overflow |-> 0, kind |-> "dual", old |-> old]
    BY DEF Dual, PrepareDual
  <1>10. Valid(account')
    <2>1. account' \in Accounts
      BY <1>6, <1>7, <1>8, <1>9, AccountSorts, AccountFields DEF Accounts, Kinds
    <2> QED BY <2>1, <1>5, <1>3, <1>9, AccountSorts, AccountFields DEF Valid
  <1>11. base' = 0 /\ earned' = 0 /\ imported' = imported
         /\ account'.overflow = 0
    BY <1>9 DEF Dual
  <1>12. TypeOK' /\ ExactTotal' /\ Canonical'
    BY <1>10, <1>11, AccountSorts
    DEF AccountInv, TypeOK, ExactTotal, Canonical, ActiveTotal, Word
  <1>13. Frozen'
    <2>1. Ceiling(account', NativeCap) = Ceiling(account, NativeCap)
      BY <1>9 DEF Ceiling
    <2>2. account'.old.total = kept + bank /\ account'.old.usable = kept
      BY <1>9
    <2>3. account.old.usable = 0
      BY AccountSorts, AccountFields DEF Dual, DualFits
    <2>4. Ceiling(account, NativeCap) \in Nat
      BY AccountSorts, CeilingType
    <2>5. bank > 0 => Ceiling(account, NativeCap) <= kept
      BY <1>2, <1>3, <2>3, <2>4, AccountSorts DEF OldUsable, Greatest
    <2> QED BY <1>3, <1>5, <2>1, <2>2, <2>5 DEF Frozen
  <1> QED BY <1>12, <1>13 DEF AccountInv

LEMMA EnterPhaseInv ==
    ASSUME AccountInv, NEW phase \in Phases(account.policy), EnterPhase(phase)
    PROVE  AccountInv'
  <1> DEFINE ceiling == Ceiling(Moved(account, phase), NativeCap)
             released == ReleasedOld(account, ceiling)
             old == [total |-> account.old.total, usable |-> released,
                     preUsable |-> account.old.preUsable,
                     preBank |-> account.old.preBank]
  <1>1. account.revision + 1 \in 0..MaxRevision
    BY AccountSorts DEF EnterPhase, AdvanceFits
  <1>2. Valid(Moved(account, phase))
    BY <1>1, AccountSorts, AccountFields, SameOldValid DEF Moved
  <1>3. ceiling \in Nat BY <1>2, AccountSorts, CeilingType
  <1>4. account' = [policy |-> account.policy, phase |-> phase,
                    revision |-> account.revision + 1, floor |-> account.floor,
                    overflow |-> account.overflow, kind |-> account.kind,
                    old |-> IF account.kind = "dual" THEN old ELSE account.old]
    BY DEF EnterPhase, Advance
  <1>5. base' = base /\ earned' = earned /\ imported' = FALSE
        /\ account'.overflow = account.overflow
    BY <1>4 DEF EnterPhase
  <1>6. Ceiling(account', NativeCap) = ceiling
    BY <1>4 DEF Ceiling, Moved
  <1>7. Valid(account') /\ Frozen'
    <2>1. CASE account.kind = "dual"
      <3>1. /\ released \in Nat /\ released <= account.old.total
            /\ released >= account.old.usable
            /\ (released < account.old.total => ceiling <= released)
        BY <1>3, AccountSorts, AccountFields DEF ReleasedOld, Least, Greatest
      <3>2. released \in Exact /\ account.old.total <= ExactMax
        BY <3>1, AccountSorts, AccountFields DEF Exact
      <3>3. old \in OldAccounts
        BY <3>2, AccountSorts, AccountFields DEF OldAccounts
      <3>4. account'.old = old /\ account'.kind = "dual"
            /\ account'.policy = account.policy /\ account'.phase = phase
        BY <1>4, <2>1
      <3>5. account' \in Accounts
        BY <1>1, <1>4, <2>1, <3>3, AccountSorts, AccountFields
        DEF Accounts, Phases, Kinds
      <3>6. /\ account.old.preUsable + account.old.preBank = account.old.total
            /\ account.old.preUsable \in Nat
            /\ account.old.usable >= account.old.preUsable
        BY <2>1, AccountSorts, AccountFields DEF Valid, Exact
      <3>7. Valid(account')
        BY <3>1, <3>4, <3>5, <3>6, AccountSorts DEF Valid
      <3> QED BY <1>6, <3>1, <3>4, <3>7 DEF Frozen
    <2>2. CASE account.kind # "dual"
      <3>1. account' = [policy |-> account.policy, phase |-> phase,
                        revision |-> account.revision + 1,
                        floor |-> account.floor, overflow |-> account.overflow,
                        kind |-> account.kind, old |-> account.old]
        BY <1>4, <2>2
      <3>2. Valid(account')
        BY <3>1, <1>1, AccountSorts, AccountFields, SameOldValid
      <3>3. account'.old.usable = 0 /\ account'.old.total = 0
        BY <2>2, <3>1, AccountSorts, AccountFields
      <3> QED BY <3>2, <3>3 DEF Frozen
    <2> QED BY <2>1, <2>2
  <1> QED BY <1>5, <1>7, AccountSorts
      DEF AccountInv, TypeOK, ExactTotal, Canonical, ActiveTotal

LEMMA NewRunInv ==
    ASSUME AccountInv, NEW phase \in Phases(account.policy), NewRun(phase)
    PROVE  AccountInv'
  <1> DEFINE floor == ImportFloor(account, base)
  <1>1. account.revision + 1 \in 0..MaxRevision BY AccountSorts DEF NewRun
  <1>2. ActiveUsable(account, base, NativeCap) \in Nat
    BY AccountSorts, UsableBounds DEF AccountInv, TypeOK
  <1>3. floor \in Word
    BY <1>2, AccountSorts DEF NewRun, ImportFloor, Usable, Word
  <1>4. account' = [policy |-> account.policy, phase |-> phase,
                    revision |-> account.revision + 1, floor |-> floor,
                    overflow |-> account.overflow, kind |-> account.kind,
                    old |-> account.old]
    BY DEF NewRun
  <1>5. Valid(account')
    BY <1>1, <1>3, <1>4, AccountSorts, AccountFields, SameOldValid
  <1>6. base' = base /\ earned' = earned /\ imported' = TRUE
        /\ account'.overflow = account.overflow
    BY <1>4 DEF NewRun
  <1> QED BY <1>5, <1>6
      DEF AccountInv, TypeOK, ExactTotal, Canonical, Frozen, ActiveTotal

LEMMA AccountStep == AccountInv /\ [Next]_vars => AccountInv'
  <1> SUFFICES ASSUME AccountInv, [Next]_vars PROVE AccountInv' OBVIOUS
  <1>1. ASSUME NEW amount \in Amounts, Award(amount) PROVE AccountInv'
    BY <1>1, AwardInv
  <1>2. ASSUME NEW write \in Writes, Write(write[1], write[2])
        PROVE  AccountInv'
    <2>1. write[1] \in Modes /\ write[2] \in Word BY CampaignAssumption
    <2> QED BY <1>2, <2>1, WriteInv
  <1>3. ASSUME NEW threshold \in Baselines, Dual(threshold) PROVE AccountInv'
    BY <1>3, DualInv
  <1>4. ASSUME NEW phase \in Phases(account.policy), EnterPhase(phase)
        PROVE  AccountInv'
    BY <1>4, EnterPhaseInv
  <1>5. ASSUME NEW phase \in Phases(account.policy), NewRun(phase)
        PROVE  AccountInv'
    BY <1>5, NewRunInv
  <1>6. CASE UNCHANGED vars
    BY <1>6 DEF vars, AccountInv, TypeOK, ExactTotal, Canonical, Frozen
  <1> QED BY <1>1, <1>2, <1>3, <1>4, <1>5, <1>6 DEF Next
-----------------------------------------------------------------------------
LEMMA AccountInvariant == Spec => []AccountInv
  <1> QED BY AccountInit, AccountStep, PTL DEF Spec

\* Every account the bank publishes is one that valid() accepts
\* (native_account.lua valid, called at the end of every operation).
THEOREM AccountTypeCorrect == Spec => []TypeOK
  <1>1. AccountInv => TypeOK BY DEF AccountInv
  <1> QED BY <1>1, AccountInvariant, PTL

\* Word and overflow always add up to the exact XP of the active class
\* (CompleteAward, PrepareWrite and PrepareDual split it, nothing else moves).
THEOREM TotalIsExact == Spec => []ExactTotal
  <1>1. AccountInv => ExactTotal BY DEF AccountInv
  <1> QED BY <1>1, AccountInvariant, PTL

\* cap_hook.lua's Select levels the actor with what Inspect reports: the
\* overflow it never reads is only there when the word is already full.
THEOREM HookMatchesAccount == Spec => []HookAgrees
  <1>1. ASSUME AccountInv PROVE HookAgrees
    <2>1. Ceiling(account, NativeCap) \in Nat /\ Ceiling(account, NativeCap) <= U32
      BY <1>1, AccountSorts, CeilingType
    <2> QED BY <1>1, <2>1, AccountSorts
        DEF HookAgrees, Select, ActiveUsable, ActiveTotal, Room, Least, Greatest,
            AccountInv, Canonical
  <1> QED BY <1>1, AccountInvariant, PTL

\* Advance and PrepareDual release the old class's bank before any XP of the
\* new class becomes usable.
THEOREM ReleasedInOrder == Spec => []OldReleasedFirst
  <1>1. ASSUME AccountInv PROVE OldReleasedFirst
    <2>1. Ceiling(account, NativeCap) \in Nat BY <1>1, AccountSorts, CeilingType
    <2>2. LET usable == ActiveUsable(account, base, NativeCap)
          IN Ceiling(account, NativeCap) - account.old.usable <= 0 => usable = 0
      BY <1>1, AccountSorts, UsableBounds DEF AccountInv, TypeOK
    <2> QED BY <1>1, <2>1, <2>2, AccountSorts
        DEF OldReleasedFirst, AccountInv, Frozen
  <1> QED BY <1>1, AccountInvariant, PTL

\* The ceiling can only rise when the account advances: with the policy's caps
\* ascending, when only the phase moves forward.
LEMMA CeilingAscends ==
    ASSUME NEW s, Valid(s), NEW phase \in Phases(s.policy), s.phase <= phase,
           Valid(Moved(s, phase)), NEW native \in Word
    PROVE  Ceiling(s, native) <= Ceiling(Moved(s, phase), native)
  <1>1. Least(native, OwnCap(s.policy, s.phase)) <= Least(native, OwnCap(s.policy, phase))
    BY AccountFields, OwnCapAscends
  <1>2. OwnCap(s.policy, s.phase) \in Nat /\ OwnCap(s.policy, phase) \in Nat
    BY AccountFields, OwnCapType
  <1>3. s.floor \in Nat /\ native \in Nat
    BY AccountFields, NativeAssumption DEF Word
  <1>4. /\ Moved(s, phase).policy = s.policy /\ Moved(s, phase).phase = phase
        /\ Moved(s, phase).floor = s.floor
    BY DEF Moved
  <1> QED BY <1>1, <1>2, <1>3, <1>4 DEF Ceiling, Least, Greatest

\* The part of UsableNeverTaken one step has to show.
UsableKept ==
    (earned' >= earned /\ account'.kind = account.kind /\ ~imported) =>
        /\ account'.old.usable >= account.old.usable
        /\ ActiveUsable(account', base', NativeCap)
            >= ActiveUsable(account, base, NativeCap)

\* A larger total under the same room is at least as usable.
LEMMA MoreTotalMoreUsable ==
    ASSUME NEW s, NEW t, Valid(s), Valid(t), NEW b \in Word, NEW c \in Word,
           NEW native \in Word, ActiveTotal(s, b) <= ActiveTotal(t, c),
           \/ Ceiling(s, native) - s.old.usable <= Ceiling(t, native) - t.old.usable
           \/ Ceiling(s, native) <= s.old.usable
    PROVE  ActiveUsable(s, b, native) <= ActiveUsable(t, c, native)
  <1>1. /\ Ceiling(s, native) \in Nat /\ Ceiling(t, native) \in Nat
        /\ Ceiling(t, native) <= U32
    BY CeilingType
  <1>2. /\ s.old.usable \in Nat /\ t.old.usable \in Nat /\ U32 \in Nat
        /\ ActiveTotal(s, b) \in Nat /\ ActiveTotal(t, c) \in Nat
    BY AccountFields, NativeAssumption DEF Word, Exact, ActiveTotal
  <1> QED BY <1>1, <1>2 DEF ActiveUsable, Room, Least, Greatest

\* A step that keeps phase, floor and old class and does not lower the total.
LEMMA SameRoomKeeps ==
    ASSUME AccountInv, AccountInv', account'.policy = account.policy,
           account'.phase = account.phase, account'.floor = account.floor,
           account'.old = account.old
    PROVE  UsableKept
  <1> SUFFICES ASSUME earned' >= earned PROVE
        /\ account'.old.usable >= account.old.usable
        /\ ActiveUsable(account, base, NativeCap)
            <= ActiveUsable(account', base', NativeCap)
    <2>1. ActiveUsable(account, base, NativeCap) \in Nat
          /\ ActiveUsable(account', base', NativeCap) \in Nat
      BY AccountSorts, UsableBounds DEF AccountInv, TypeOK
    <2> QED BY <2>1 DEF UsableKept
  <1>1. Ceiling(account', NativeCap) = Ceiling(account, NativeCap)
    BY DEF Ceiling
  <1>2. ActiveTotal(account, base) <= ActiveTotal(account', base')
    BY DEF AccountInv, ExactTotal
  <1>3. Ceiling(account, NativeCap) \in Nat /\ account.old.usable \in Nat
    BY AccountSorts, CeilingType
  <1>4. Ceiling(account, NativeCap) - account.old.usable
        <= Ceiling(account', NativeCap) - account'.old.usable
    BY <1>1, <1>3
  <1>5. Valid(account) /\ Valid(account') /\ base \in Word /\ base' \in Word
        /\ NativeCap \in Word
    BY AccountSorts DEF AccountInv, TypeOK
  <1> QED BY <1>2, <1>3, <1>4, <1>5, MoreTotalMoreUsable

LEMMA EnterPhaseKeeps ==
    ASSUME AccountInv, AccountInv', NEW phase \in Phases(account.policy),
           EnterPhase(phase)
    PROVE  UsableKept
  <1> SUFFICES ASSUME ~imported PROVE
        /\ account'.old.usable >= account.old.usable
        /\ ActiveUsable(account, base, NativeCap)
            <= ActiveUsable(account', base', NativeCap)
    <2>1. ActiveUsable(account, base, NativeCap) \in Nat
          /\ ActiveUsable(account', base', NativeCap) \in Nat
      BY AccountSorts, UsableBounds DEF AccountInv, TypeOK
    <2> QED BY <2>1 DEF UsableKept
  <1> DEFINE ceiling == Ceiling(Moved(account, phase), NativeCap)
  <1>1. Valid(account) /\ Valid(account') /\ base \in Word /\ base' = base
        /\ NativeCap \in Word /\ ActiveTotal(account', base') = earned
        /\ ActiveTotal(account, base) = earned /\ earned \in Nat
    BY AccountSorts DEF AccountInv, TypeOK, ExactTotal, EnterPhase
  <1>2. account.phase <= phase /\ phase # account.phase
    BY AccountFields, <1>1 DEF EnterPhase, AdvanceFits, Phases
  <1>3. Valid(Moved(account, phase))
    BY AccountSorts, AccountFields, SameOldValid
    DEF Moved, EnterPhase, AdvanceFits
  <1>4. Ceiling(account, NativeCap) <= ceiling
    BY <1>1, <1>2, <1>3, CeilingAscends
  <1>5. Ceiling(account', NativeCap) = ceiling
    BY DEF EnterPhase, Advance, Ceiling, Moved
  <1>6. account'.old.usable = IF account.kind = "dual"
                              THEN ReleasedOld(account, ceiling)
                              ELSE account.old.usable
    BY <1>2 DEF EnterPhase, Advance
  <1>7. /\ Ceiling(account, NativeCap) \in Nat /\ ceiling \in Nat
        /\ account.old.usable \in Nat /\ account.old.total \in Nat
        /\ account.old.usable <= account.old.total
    BY <1>1, <1>3, AccountSorts, AccountFields, CeilingType
  <1>8. account'.old.usable >= account.old.usable
    BY <1>6, <1>7 DEF ReleasedOld, Least, Greatest
  <1>9. CASE account.old.usable < account.old.total
    <2>1. Ceiling(account, NativeCap) <= account.old.usable
      BY <1>9 DEF AccountInv, Frozen
    <2> QED BY <1>1, <1>8, <2>1, MoreTotalMoreUsable
  <1>10. CASE account.old.usable = account.old.total
    <2>1. account'.old.usable = account.old.usable
      BY <1>6, <1>7, <1>10 DEF ReleasedOld, Least, Greatest
    <2>2. Ceiling(account, NativeCap) - account.old.usable
          <= Ceiling(account', NativeCap) - account'.old.usable
      BY <2>1, <1>4, <1>5, <1>7
    <2> QED BY <1>1, <1>8, <2>2, MoreTotalMoreUsable
  <1> QED BY <1>7, <1>9, <1>10

LEMMA NewRunKeeps ==
    ASSUME AccountInv, AccountInv', NEW phase \in Phases(account.policy),
           NewRun(phase)
    PROVE  UsableKept
  <1> DEFINE usable == ActiveUsable(account, base, NativeCap)
             room == Ceiling(account, NativeCap) - account.old.usable
             after == ActiveUsable(account', base', NativeCap)
  <1>1. Valid(account) /\ Valid(account') /\ base \in Word /\ base' \in Word
        /\ NativeCap \in Word /\ NativeCap \in Nat
        /\ ActiveTotal(account', base') = earned
        /\ ActiveTotal(account, base) = earned /\ earned \in Nat
    BY AccountSorts, NativeAssumption
    DEF AccountInv, TypeOK, ExactTotal, NewRun, ActiveTotal, Word
  <1>2. /\ usable \in Nat /\ usable <= earned
        /\ (usable > 0 => usable <= room)
    BY <1>1, UsableBounds
  <1>3. /\ after \in Nat
        /\ (Ceiling(account', NativeCap) - account'.old.usable >= 0 =>
               after = Least(earned, Ceiling(account', NativeCap) - account'.old.usable))
    BY <1>1, UsableBounds
  <1>4. account'.old.usable = account.old.usable
        /\ account'.floor = account.old.usable + usable
        /\ account'.policy = account.policy /\ account'.phase = phase
    BY DEF NewRun, ImportFloor, Usable
  <1>5. /\ Ceiling(account, NativeCap) \in Nat /\ account.old.usable \in Nat
        /\ Ceiling(account, NativeCap) <= NativeCap
        /\ Ceiling(account', NativeCap) \in Nat
    BY <1>1, AccountSorts, CeilingType
  <1>6. OwnCap(account.policy, phase) \in Nat
    BY <1>1, AccountFields, OwnCapType
  <1>7. CASE usable > 0
    <2>1. account'.floor <= NativeCap BY <1>2, <1>4, <1>5, <1>7, <1>1
    <2>2. account'.floor <= Ceiling(account', NativeCap)
      BY <2>1, <1>1, <1>2, <1>4, <1>5, <1>6 DEF Ceiling, Least, Greatest
    <2>3. usable <= Ceiling(account', NativeCap) - account'.old.usable
      BY <2>2, <1>2, <1>4, <1>5
    <2>4. after >= usable BY <2>3, <1>2, <1>3, <1>1, <1>5, <1>4 DEF Least
    <2> QED BY <2>4, <1>4, <1>5 DEF UsableKept
  <1>8. CASE ~(usable > 0)
    BY <1>8, <1>2, <1>3, <1>4, <1>5 DEF UsableKept
  <1> QED BY <1>7, <1>8

\* No award, campaign change or new run takes usable XP away from either class:
\* Advance raises old.usable only out of room the new class could not use.
THEOREM UsableIsNeverTaken == Spec => UsableNeverTaken
  <1>1. ASSUME AccountInv, AccountInv', Next PROVE UsableKept
    <2>1. ASSUME NEW amount \in Amounts, Award(amount) PROVE UsableKept
      BY <1>1, <2>1, SameRoomKeeps DEF Award, CompleteAward
    <2>2. ASSUME NEW write \in Writes, Write(write[1], write[2])
          PROVE  UsableKept
      BY <1>1, <2>2, SameRoomKeeps DEF Write, PrepareWrite
    <2>3. ASSUME NEW threshold \in Baselines, Dual(threshold) PROVE UsableKept
      BY <2>3 DEF UsableKept, Dual, DualFits, PrepareDual
    <2>4. ASSUME NEW phase \in Phases(account.policy), EnterPhase(phase)
          PROVE  UsableKept
      BY <1>1, <2>4, EnterPhaseKeeps
    <2>5. ASSUME NEW phase \in Phases(account.policy), NewRun(phase)
          PROVE  UsableKept
      BY <1>1, <2>5, NewRunKeeps
    <2> QED BY <1>1, <2>1, <2>2, <2>3, <2>4, <2>5 DEF Next
  <1>2. AccountInv /\ AccountInv' /\ [Next]_vars => [UsableKept]_vars
    BY <1>1
  <1> QED BY <1>2, AccountInvariant, PTL DEF Spec, UsableNeverTaken, UsableKept
-----------------------------------------------------------------------------
Entitled ==
    account.kind = "dual" =>
        /\ account'.old.total = account.old.total
        /\ account'.old.usable >= account.old.usable

\* The dual freezes what the old class owns: whatever the account goes through
\* afterwards, its total stays and what was released is never taken back.
THEOREM EntitlementIsKept == Spec => EntitlementKept
  <1>1. ASSUME AccountInv, Next PROVE Entitled
    <2>1. account.old.usable \in Int /\ account.old.total \in Int
      BY <1>1 DEF AccountInv, TypeOK, Valid, Accounts, OldAccounts, Exact
    <2>2. CASE account'.old = account.old
      BY <2>1, <2>2 DEF Entitled
    <2>3. ASSUME NEW threshold \in Baselines, Dual(threshold) PROVE Entitled
      BY <2>3 DEF Dual, DualFits, Entitled
    <2>4. ASSUME NEW phase \in Phases(account.policy), EnterPhase(phase) PROVE Entitled
      <3>1. account' = Advance(account, phase, NativeCap) /\ phase # account.phase
        BY <2>4 DEF EnterPhase
      <3>2. CASE account.kind = "dual"
        <4>1. /\ account'.old.total = account.old.total
              /\ account'.old.usable
                    = ReleasedOld(account, Ceiling(Moved(account, phase), NativeCap))
          BY <3>1, <3>2 DEF Advance
        <4> QED BY <2>1, <4>1 DEF ReleasedOld, Greatest, Entitled
      <3> QED BY <3>2 DEF Entitled
    <2> QED
      BY <1>1, <2>2, <2>3, <2>4 DEF Next, Award, CompleteAward, Write, PrepareWrite, NewRun
  <1>2. AccountInv /\ [Next]_vars => [Entitled]_vars
    BY <1>1
  <1> QED BY <1>2, AccountInvariant, PTL DEF Spec, EntitlementKept, Entitled
-----------------------------------------------------------------------------
(***************************************************************************)
(* The account under the bridges: what each variable ranges over.          *)
(***************************************************************************)
Change == [mode : Modes, raw : Word] \cup {NoChange}
ActorRecord ==
    [inc : Nat, eligible : BOOLEAN, replaced : BOOLEAN, word : Word, owed : Int]
JournalRecord ==
    [stage : {"none", "prepared", "uncertain"}, inc : Nat, target : Word,
     after : Accounts, later : BOOLEAN]
CarrierRecord ==
    [present : BOOLEAN, excluded : BOOLEAN, bound : Nat, account : Accounts,
     journal : JournalRecord]
SaveRecord == [word : Word, owed : Int, carrier : CarrierRecord]
EffectRecord ==
    [sprite : Sprites \cup {None}, shape : Change, done : BOOLEAN, ran : Nat]
CallRecord ==
    [bridge : {"award", "write", "save"}, sprite : Sprites, effect : Effects \cup {None},
     inc : Nat, change : Change, pre : Word,
     answer : {"running", "refused", "passed", "tracked", "stored"}]
Receipt == [inc : Nat, effect : Effects \cup {None}]
RetryEntry == [sprite : Sprites \cup {None}, inc : Nat]
WaitingWrite == [sprite : Sprites, inc : Nat, change : Change, kept : BOOLEAN]
Tally == [issued : Nat, sets : Nat, stored : Nat, ended : Nat, events : Nat]

Typed ==
    /\ actors \in [Sprites -> ActorRecord]
    /\ aux \in [Sprites -> CarrierRecord]
    /\ disk \in [Sprites -> SaveRecord]
    /\ effects \in [Effects -> EffectRecord]
    /\ calls \in Seq(CallRecord)
    /\ uncertain \in [Bridges -> [Sprites -> Receipt]]
    /\ retries \in [Effects -> RetryEntry]
    /\ deferred \in Seq(WaitingWrite)
    /\ foreign \subseteq Sprites
    /\ nextInc \in 0..MaxInc
    /\ tally \in Tally
-----------------------------------------------------------------------------
(* Induction, and sequences.                                                *)

LEMMA BelowIsWellFounded ==
    \E R : IsWellFoundedOn(R, Nat) /\ \A x, y \in Nat : x < y => <<x, y>> \in R
<1>1. \A x, y \in Nat : x < y => <<x, y>> \in OpToRel(<, Nat)
  BY DEF OpToRel
<1> QED
  BY <1>1, NatLessThanWellFounded

\* Induction, for a set of numbers.
LEMMA CountingUp ==
    ASSUME NEW T, 0 \in T, \A n \in Nat : n \in T => n + 1 \in T
    PROVE  \A n \in Nat : n \in T
<1> SUFFICES ASSUME Nat \ T # {} PROVE FALSE
  OBVIOUS
<1>1. PICK R : IsWellFoundedOn(R, Nat) /\ \A x, y \in Nat : x < y => <<x, y>> \in R
  BY BelowIsWellFounded
<1>2. Nat \ T \subseteq Nat
  OBVIOUS
<1>3. PICK x \in Nat \ T : \A y \in Nat \ T : ~(<<y, x>> \in R)
  BY <1>1, <1>2, WFMin
<1>4. x # 0 /\ x \in Nat
  BY <1>3
<1>5. x - 1 \in Nat /\ x - 1 < x
  BY <1>4
<1>6. x - 1 \notin T
  BY <1>3, <1>5
<1>7. <<x - 1, x>> \in R
  BY <1>1, <1>4, <1>5
<1> QED
  BY <1>3, <1>5, <1>6, <1>7

LEMMA SeqFact ==
    ASSUME NEW S, NEW q \in Seq(S)
    PROVE  Len(q) \in Nat /\ DOMAIN q = 1..Len(q) /\ \A i \in 1..Len(q) : q[i] \in S
BY LenProperties, ElementOfSeq

LEMMA AddFact ==
    ASSUME NEW S, NEW q \in Seq(S), NEW x \in S
    PROVE  /\ Append(q, x) \in Seq(S) /\ Len(Append(q, x)) = Len(q) + 1 /\ Len(q) \in Nat
           /\ \A i \in 1..Len(q) : Append(q, x)[i] = q[i]
           /\ Append(q, x)[Len(q) + 1] = x
BY AppendProperties, LenProperties

LEMMA FrontFact ==
    ASSUME NEW S, NEW q \in Seq(S), q # <<>>
    PROVE  /\ Front(q) \in Seq(S) /\ Len(Front(q)) = Len(q) - 1 /\ Len(q) \in Nat \ {0}
           /\ Last(q) = q[Len(q)] /\ Last(q) \in S
           /\ \A i \in 1..(Len(q) - 1) : Front(q)[i] = q[i]
<1>1. Len(q) \in Nat \ {0}
  BY LenProperties, EmptySeq
<1>2. 1 \in Int /\ Len(q) - 1 \in Int /\ \A i \in 1..(Len(q) - 1) : q[i] \in S
  BY <1>1, SeqFact
<1>3. PICK n \in Nat : n = Len(q) - 1
  BY <1>1
<1>4. /\ SubSeq(q, 1, n) \in Seq(S) /\ Len(SubSeq(q, 1, n)) = n
      /\ \A i \in 1..n : SubSeq(q, 1, n)[i] = q[i]
  <2>1. \A i \in 1..n : q[i] \in S
    BY <1>2, <1>3
  <2>2. 1 \in Int /\ n \in Int
    BY <1>3
  <2> QED
    BY <2>1, <2>2, SubSeqProperties
<1>5. q[Len(q)] \in S
  BY <1>1, SeqFact
<1> QED
  BY <1>1, <1>3, <1>4, <1>5 DEF Front, Last
-----------------------------------------------------------------------------
(* The engine's own stores.                                                 *)

LEMMA NumberFacts ==
    /\ U32 \in Nat /\ U32 > 0 /\ S32 \in Nat /\ S32 <= U32 /\ 2 * S32 <= U32
    /\ ExactMax \in Nat /\ U32 <= ExactMax /\ MaxRevision \in Nat
    /\ Word = 0..U32 /\ Exact = 0..ExactMax /\ MaxInc \in Nat
    /\ 0 \in Word /\ NoChange \in Change
BY NativeAssumption, BridgeAssumption DEF S32, Word, Exact, Change

LEMMA ChangeFact ==
    ASSUME NEW c \in Change
    PROVE  /\ c.raw \in Word /\ c.raw \in Nat /\ c.raw <= U32
           /\ c.mode \in Modes \/ c = NoChange
           /\ Signed(c.raw) \in Int
<1>1. CASE c \in [mode : Modes, raw : Word]
  <2>1. c.raw \in Word /\ c.mode \in Modes
    BY <1>1
  <2>2. c.raw \in Nat /\ c.raw <= U32
    BY <2>1, NumberFacts
  <2>3. Signed(c.raw) \in Int
    BY <2>2, NumberFacts DEF Signed, Loss
  <2> QED
    BY <2>1, <2>2, <2>3
<1>2. CASE c = NoChange
  BY <1>2, NumberFacts DEF NoChange, Signed
<1> QED
  BY <1>1, <1>2 DEF Change

LEMMA ModFact ==
    ASSUME NEW x \in Nat, NEW m \in Nat \ {0}
    PROVE  /\ x % m \in 0..(m - 1)
           /\ x < m => x % m = x
           /\ m <= x /\ x < 2 * m => x % m = x - m
<1>1. x % m \in 0..(m - 1)
  OBVIOUS
<1>2. x = m * (x \div m) + (x % m) /\ x \div m \in Nat
  OBVIOUS
<1> DEFINE q == x \div m
<1>3. ASSUME x < m PROVE x % m = x
  <2>1. q = 0
    <3> SUFFICES ASSUME q >= 1 PROVE FALSE
      BY <1>2
    <3>1. m * q >= m
      BY <1>2
    <3> QED
      BY <1>1, <1>2, <1>3, <3>1
  <2> QED
    BY <1>2, <2>1
<1>4. ASSUME m <= x, x < 2 * m PROVE x % m = x - m
  <2>1. q # 0
    BY <1>1, <1>2, <1>4
  <2>2. q < 2
    <3> SUFFICES ASSUME q >= 2 PROVE FALSE
      BY <1>2
    <3>1. m * q >= m * 2
      BY <1>2
    <3> QED
      BY <1>1, <1>2, <1>4, <3>1
  <2>3. q = 1
    BY <1>2, <2>1, <2>2
  <2> QED
    BY <1>2, <2>3
<1> QED
  BY <1>1, <1>3, <1>4

LEMMA WrapFact ==
    ASSUME NEW x \in Nat
    PROVE  /\ x % (U32 + 1) \in Word
           /\ x <= U32 => x % (U32 + 1) = x
           /\ U32 + 1 <= x /\ x < 2 * (U32 + 1) => x % (U32 + 1) = x - (U32 + 1)
<1>1. PICK m \in Nat \ {0} : m = U32 + 1
  BY NumberFacts
<1>2. x % m \in 0..(m - 1) /\ (x < m => x % m = x) /\ (m <= x /\ x < 2 * m => x % m = x - m)
  BY ModFact
<1>3. PICK r \in Nat : r = x % m /\ r = x % (U32 + 1) /\ r <= U32
  BY <1>1, <1>2, NumberFacts
<1>4. (x <= U32 => r = x) /\ (U32 + 1 <= x /\ x < 2 * (U32 + 1) => r = x - (U32 + 1))
  BY <1>1, <1>2, <1>3, NumberFacts
<1> QED
  BY <1>3, <1>4, NumberFacts

LEMMA NativeFact ==
    ASSUME NEW w \in Word, NEW c \in Change
    PROVE  /\ Native(w, c) \in Word
           /\ ~Replaces(w, c) => Native(w, c) = w + Signed(c.raw)
<1>1. w \in Nat /\ w <= U32 /\ U32 \in Nat
  BY NumberFacts
<1>2. CASE c.mode = "add"
  <2>1. PICK x \in Nat : x = w + c.raw
    BY <1>1, ChangeFact
  <2>2. Native(w, c) = x % (U32 + 1)
    BY <1>2, <2>1 DEF Native
  <2>3. Native(w, c) \in Word
    BY <2>2, WrapFact
  <2>4. ASSUME ~Replaces(w, c) PROVE Native(w, c) = w + Signed(c.raw)
    <3>1. w + Signed(c.raw) \in Word
      BY <1>2, <2>4 DEF Replaces
    <3>2. CASE c.raw <= S32
      <4>1. Signed(c.raw) = c.raw /\ x <= U32
        BY <2>1, <3>1, <3>2, NumberFacts DEF Signed
      <4> QED
        BY <2>1, <2>2, <4>1, WrapFact
    <3>3. CASE c.raw > S32
      <4>1. Signed(c.raw) = c.raw - (U32 + 1)
        BY <3>3, NumberFacts, ChangeFact DEF Signed, Loss
      <4>2. U32 + 1 <= x /\ x < 2 * (U32 + 1)
        BY <1>1, <2>1, <3>1, <4>1, NumberFacts, ChangeFact
      <4>3. x % (U32 + 1) = x - (U32 + 1)
        BY <4>2, WrapFact
      <4> QED
        BY <1>1, <2>1, <2>2, <4>1, <4>3, ChangeFact
    <3> QED
      BY <3>2, <3>3, NumberFacts, ChangeFact
  <2> QED
    BY <2>3, <2>4
<1>3. CASE c.mode = "percent"
  <2>1. PICK x \in Nat : x = w * c.raw
    BY <1>1, ChangeFact
  <2>2. PICK y \in Nat : y = x % (U32 + 1) /\ y <= U32
    BY WrapFact, NumberFacts
  <2>3. y \div 100 \in Nat /\ y \div 100 <= y
    OBVIOUS
  <2>4. Native(w, c) = y \div 100
    BY <1>3, <2>1, <2>2 DEF Native
  <2> QED
    BY <1>1, <1>3, <2>2, <2>3, <2>4, NumberFacts DEF Replaces
<1>4. CASE c.mode = "none"
  <2>1. c.raw = 0
    BY <1>4, ChangeFact DEF Modes, NoChange
  <2> QED
    BY <1>1, <1>4, <2>1, NumberFacts DEF Native, Signed
<1>5. CASE c.mode \notin {"add", "percent", "none"}
  BY <1>5, ChangeFact DEF Native, Replaces
<1> QED
  BY <1>2, <1>3, <1>4, <1>5

\* What the game's stores may do to an actor: the same incarnation, and either
\* the word and what is owed move alike, or the word is all that is owed.
Follows(a, b) ==
    /\ b.inc = a.inc /\ b.eligible = a.eligible
    /\ a.owed = a.word => b.owed = b.word
    /\ b.replaced /\ ~a.replaced => b.owed = b.word
    /\ ~b.replaced /\ a.inc # 0 => ~a.replaced /\ b.owed - b.word = a.owed - a.word

LEMMA ActorFact ==
    ASSUME NEW a \in ActorRecord
    PROVE  /\ a.inc \in Nat /\ a.eligible \in BOOLEAN /\ a.replaced \in BOOLEAN
           /\ a.word \in Word /\ a.word \in Nat /\ a.word <= U32 /\ a.owed \in Int
BY NumberFacts DEF ActorRecord

LEMMA FollowsSelf == ASSUME NEW a \in ActorRecord PROVE Follows(a, a)
BY DEF Follows

LEMMA FollowsOn ==
    ASSUME NEW a \in ActorRecord, NEW b \in ActorRecord, NEW c \in ActorRecord,
           Follows(a, b), Follows(b, c)
    PROVE  Follows(a, c)
<1>1. c.inc = a.inc /\ c.eligible = a.eligible /\ (a.owed = a.word => c.owed = c.word)
  BY DEF Follows
<1>2. c.replaced /\ ~a.replaced => c.owed = c.word
  BY ActorFact DEF Follows
<1>3. ~c.replaced /\ a.inc # 0 => ~a.replaced /\ c.owed - c.word = a.owed - a.word
  BY ActorFact DEF Follows
<1> QED
  BY <1>1, <1>2, <1>3 DEF Follows

LEMMA OwnStoreFact ==
    ASSUME NEW a \in ActorRecord, NEW c \in Change
    PROVE  OwnStore(a, c) \in ActorRecord /\ Follows(a, OwnStore(a, c))
<1> DEFINE w == Native(a.word, c)  b == OwnStore(a, c)
<1>1. /\ w \in Word /\ w \in Nat /\ Signed(c.raw) \in Int
      /\ a.word \in Nat /\ a.owed \in Int /\ a.word \in Word
      /\ ~Replaces(a.word, c) => w = a.word + Signed(c.raw)
  <2>1. a.word \in Nat /\ a.owed \in Int /\ a.word \in Word
    BY ActorFact
  <2>2. w \in Word /\ (~Replaces(a.word, c) => w = a.word + Signed(c.raw))
    BY <2>1, NativeFact
  <2>3. w \in Nat
    BY <2>2, NumberFacts
  <2> QED
    BY <2>1, <2>2, <2>3, ChangeFact
<1>2. OwedByWord(a, c, w) \in Int
  BY <1>1 DEF OwedByWord
<1>3. /\ b \in ActorRecord
      /\ b.inc = a.inc /\ b.eligible = a.eligible /\ b.word = w /\ b.owed = OwedByWord(a, c, w)
      /\ b.replaced = (a.replaced \/ (a.inc # 0 /\ Replaces(a.word, c)))
  <2>1. (a.replaced \/ (a.inc # 0 /\ Replaces(a.word, c))) \in BOOLEAN
    BY ActorFact DEF Replaces
  <2> HIDE DEF w
  <2> QED
    BY <1>1, <1>2, <2>1 DEF OwnStore, ActorRecord, w
<1>4. a.owed = a.word => b.owed = b.word
  BY <1>1, <1>3 DEF OwedByWord
<1>5. b.replaced /\ ~a.replaced => b.owed = b.word
  <2> SUFFICES ASSUME Replaces(a.word, c) PROVE OwedByWord(a, c, w) = w
    BY <1>3
  <2>1. CASE c.mode \notin {"add", "none"}
    BY <2>1 DEF OwedByWord
  <2>2. CASE c.mode = "add" /\ a.word + Signed(c.raw) \notin Word
    <3>1. w - a.word # Signed(c.raw)
      BY <1>1, <2>2
    <3> QED
      BY <3>1 DEF OwedByWord
  <2> QED
    BY <2>1, <2>2 DEF Replaces
<1>6. ~b.replaced /\ a.inc # 0 => ~a.replaced /\ b.owed - b.word = a.owed - a.word
  <2> SUFFICES ASSUME ~a.replaced, ~Replaces(a.word, c)
               PROVE  OwedByWord(a, c, w) - w = a.owed - a.word
    BY <1>3, ActorFact
  <2>1. c.mode \in {"add", "none"} /\ w - a.word = Signed(c.raw)
    BY <1>1 DEF Replaces
  <2> QED
    BY <1>1, <2>1 DEF OwedByWord
<1> QED
  BY <1>3, <1>4, <1>5, <1>6 DEF Follows
-----------------------------------------------------------------------------
(* The writes that waited.                                                  *)

\* What settling leaves after some of the writes.
SettleState == [actor : ActorRecord, waiting : Seq(WaitingWrite), tally : Tally]

\* Each of n writes was stored, has ended, or waits.
Booked(x, t, n) ==
    /\ x.tally.issued = t.issued /\ x.tally.sets = t.sets /\ x.tally.events = t.events
    /\ x.tally.stored + x.tally.ended + Len(x.waiting) = t.stored + t.ended + n

LEMMA BookedAs ==
    ASSUME NEW x, NEW y, NEW t, NEW n \in Nat, Booked(x, t, n),
           t.stored \in Nat, t.ended \in Nat,
           y.tally.issued = x.tally.issued, y.tally.sets = x.tally.sets, y.tally.events = x.tally.events,
           x.tally.stored \in Nat, x.tally.ended \in Nat, Len(x.waiting) \in Nat,
           NEW k \in Nat, NEW l \in Nat, NEW m \in Nat, k + l + m = 1,
           y.tally.stored = x.tally.stored + k, y.tally.ended = x.tally.ended + l,
           Len(y.waiting) = Len(x.waiting) + m
    PROVE  Booked(y, t, n + 1)
<1>1. PICK p, q, w, g, h \in Nat : /\ p = x.tally.stored /\ q = x.tally.ended /\ w = Len(x.waiting)
                                  /\ g = t.stored /\ h = t.ended
  OBVIOUS
<1>2. p + q + w = g + h + n
  BY <1>1 DEF Booked
<1>3. y.tally.stored = p + k /\ y.tally.ended = q + l /\ Len(y.waiting) = w + m
  BY <1>1
<1>4. (p + k) + (q + l) + (w + m) = g + h + (n + 1)
  BY <1>2
<1>5. y.tally.stored + y.tally.ended + Len(y.waiting) = t.stored + t.ended + (n + 1)
  BY <1>1, <1>3, <1>4
<1> QED
  BY <1>5 DEF Booked

\* What the first n of the writes leave.
SettledSoFar(s, a, writes, t, x, n) ==
    /\ x \in SettleState
    /\ Follows(a, x.actor)
    /\ s \in foreign => x.actor = a
    /\ Booked(x, t, n)
    /\ \A j \in 1..Len(x.waiting) :
          \/ x.waiting[j].kept
          \/ x.waiting[j].sprite # s /\ \E k \in 1..Len(writes) : x.waiting[j] = writes[k]

LEMMA TallyFields ==
    ASSUME NEW t \in Tally
    PROVE  t.issued \in Nat /\ t.sets \in Nat /\ t.stored \in Nat /\ t.ended \in Nat /\ t.events \in Nat
BY DEF Tally

LEMMA TallyFact ==
    ASSUME NEW t \in Tally
    PROVE  /\ t.issued \in Nat /\ t.sets \in Nat /\ t.stored \in Nat /\ t.ended \in Nat /\ t.events \in Nat
           /\ [t EXCEPT !.stored = @ + 1] \in Tally
           /\ [t EXCEPT !.stored = @ + 1].stored = t.stored + 1
           /\ [t EXCEPT !.stored = @ + 1].ended = t.ended
           /\ [t EXCEPT !.stored = @ + 1].issued = t.issued
           /\ [t EXCEPT !.stored = @ + 1].sets = t.sets
           /\ [t EXCEPT !.stored = @ + 1].events = t.events
           /\ [t EXCEPT !.ended = @ + 1] \in Tally
           /\ [t EXCEPT !.ended = @ + 1].stored = t.stored
           /\ [t EXCEPT !.ended = @ + 1].ended = t.ended + 1
           /\ [t EXCEPT !.ended = @ + 1].issued = t.issued
           /\ [t EXCEPT !.ended = @ + 1].sets = t.sets
           /\ [t EXCEPT !.ended = @ + 1].events = t.events
BY DEF Tally

LEMMA TallySteps ==
    ASSUME NEW t \in Tally
    PROVE  /\ [t EXCEPT !.issued = @ + 1] \in Tally
           /\ [t EXCEPT !.issued = @ + 1, !.sets = @ + 1] \in Tally
           /\ [t EXCEPT !.issued = @ + 1, !.sets = @ + 1, !.stored = @ + 1] \in Tally
           /\ [t EXCEPT !.events = @ + 1] \in Tally
<1>1. PICK i, s, d, e \in Nat : i = t.issued + 1 /\ s = t.sets + 1 /\ d = t.stored + 1 /\ e = t.events + 1
  <2>1. t.issued + 1 \in Nat /\ t.sets + 1 \in Nat
    BY TallyFields
  <2>2. t.stored + 1 \in Nat /\ t.events + 1 \in Nat
    BY TallyFields
  <2> QED
    BY <2>1, <2>2
<1>2. [t EXCEPT !.issued = i] \in Tally /\ [t EXCEPT !.events = e] \in Tally
  BY DEF Tally
<1>3. [[t EXCEPT !.issued = i] EXCEPT !.sets = s] \in Tally
  BY <1>2 DEF Tally
<1>4. [[[t EXCEPT !.issued = i] EXCEPT !.sets = s] EXCEPT !.stored = d] \in Tally
  BY <1>3 DEF Tally
<1> QED
  BY <1>1, <1>2, <1>3, <1>4

LEMMA StateFact ==
    ASSUME NEW x \in SettleState
    PROVE  x.actor \in ActorRecord /\ x.waiting \in Seq(WaitingWrite) /\ x.tally \in Tally
BY DEF SettleState

LEMMA LandedFact ==
    ASSUME NEW s \in Sprites, NEW a \in ActorRecord, NEW writes \in Seq(WaitingWrite), NEW t \in Tally,
           NEW x, NEW n \in Nat, NEW y, NEW d \in WaitingWrite, \E k \in 1..Len(writes) : d = writes[k],
           y = Landed(s, x, d), SettledSoFar(s, a, writes, t, x, n)
    PROVE  SettledSoFar(s, a, writes, t, y, n + 1)
<1>1. d.change \in Change /\ d.kept \in BOOLEAN /\ d.sprite \in Sprites
  BY DEF WaitingWrite
<1>2. /\ x \in SettleState /\ x.actor \in ActorRecord /\ x.waiting \in Seq(WaitingWrite) /\ x.tally \in Tally
      /\ Len(x.waiting) \in Nat /\ t.stored \in Nat /\ t.ended \in Nat
      /\ x.tally.stored \in Nat /\ x.tally.ended \in Nat /\ Booked(x, t, n)
  <2>1. x \in SettleState /\ Booked(x, t, n)
    BY DEF SettledSoFar
  <2>2. x.actor \in ActorRecord /\ x.waiting \in Seq(WaitingWrite) /\ x.tally \in Tally
    BY <2>1, StateFact
  <2> QED
    BY <2>1, <2>2, TallyFact, SeqFact
<1>3. CASE d.kept \/ d.sprite # s
  <2>1. y = [x EXCEPT !.waiting = Append(x.waiting, d)]
    BY <1>3 DEF Landed
  <2>2. /\ Append(x.waiting, d) \in Seq(WaitingWrite) /\ Len(Append(x.waiting, d)) = Len(x.waiting) + 1
        /\ \A i \in 1..Len(x.waiting) : Append(x.waiting, d)[i] = x.waiting[i]
        /\ Append(x.waiting, d)[Len(x.waiting) + 1] = d
    BY <1>1, <1>2, AddFact
  <2>3. y \in SettleState /\ y.actor = x.actor /\ y.tally = x.tally /\ y.waiting = Append(x.waiting, d)
    BY <1>2, <2>1, <2>2 DEF SettleState
  <2>4. \A j \in 1..Len(y.waiting) :
          \/ y.waiting[j].kept
          \/ y.waiting[j].sprite # s /\ \E k \in 1..Len(writes) : y.waiting[j] = writes[k]
    <3> SUFFICES ASSUME NEW j \in 1..Len(y.waiting)
                 PROVE  \/ y.waiting[j].kept
                        \/ y.waiting[j].sprite # s /\ \E k \in 1..Len(writes) : y.waiting[j] = writes[k]
      OBVIOUS
    <3>1. CASE j \in 1..Len(x.waiting)
      BY <2>2, <2>3, <3>1 DEF SettledSoFar
    <3>2. CASE j = Len(x.waiting) + 1
      BY <1>3, <2>2, <2>3, <3>2
    <3> QED
      BY <1>2, <2>2, <2>3, <3>1, <3>2
  <2>5. Booked(y, t, n + 1)
    <3>1. /\ y.tally.stored = x.tally.stored + 0 /\ y.tally.ended = x.tally.ended + 0
          /\ Len(y.waiting) = Len(x.waiting) + 1
          /\ y.tally.issued = x.tally.issued /\ y.tally.sets = x.tally.sets /\ y.tally.events = x.tally.events
      BY <1>2, <2>2, <2>3
    <3>2. 0 \in Nat /\ 0 \in Nat /\ 1 \in Nat /\ 0 + 0 + 1 = 1
      OBVIOUS
    <3> QED
      BY <1>2, <3>1, <3>2, BookedAs
  <2> QED
    BY <1>2, <2>3, <2>4, <2>5 DEF SettledSoFar
<1>4. CASE ~(d.kept \/ d.sprite # s) /\ Lifetime(s, d.inc) = 0
  <2> DEFINE k == [d EXCEPT !.kept = TRUE]
  <2>1. y = [x EXCEPT !.waiting = Append(x.waiting, k)]
    BY <1>4 DEF Landed
  <2>2. k \in WaitingWrite /\ k.kept
    BY <1>1 DEF WaitingWrite
  <2>3. /\ Append(x.waiting, k) \in Seq(WaitingWrite) /\ Len(Append(x.waiting, k)) = Len(x.waiting) + 1
        /\ \A i \in 1..Len(x.waiting) : Append(x.waiting, k)[i] = x.waiting[i]
        /\ Append(x.waiting, k)[Len(x.waiting) + 1] = k
    BY <1>2, <2>2, AddFact
  <2>4. y \in SettleState /\ y.actor = x.actor /\ y.tally = x.tally /\ y.waiting = Append(x.waiting, k)
    BY <1>2, <2>1, <2>3 DEF SettleState
  <2>5. \A j \in 1..Len(y.waiting) :
          \/ y.waiting[j].kept
          \/ y.waiting[j].sprite # s /\ \E i \in 1..Len(writes) : y.waiting[j] = writes[i]
    <3> SUFFICES ASSUME NEW j \in 1..Len(y.waiting)
                 PROVE  \/ y.waiting[j].kept
                        \/ y.waiting[j].sprite # s /\ \E i \in 1..Len(writes) : y.waiting[j] = writes[i]
      OBVIOUS
    <3>1. CASE j \in 1..Len(x.waiting)
      BY <2>3, <2>4, <3>1 DEF SettledSoFar
    <3>2. CASE j = Len(x.waiting) + 1
      BY <2>2, <2>3, <2>4, <3>2
    <3> QED
      BY <1>2, <2>3, <2>4, <3>1, <3>2
  <2>6. Booked(y, t, n + 1)
    <3>1. /\ y.tally.stored = x.tally.stored + 0 /\ y.tally.ended = x.tally.ended + 0
          /\ Len(y.waiting) = Len(x.waiting) + 1
          /\ y.tally.issued = x.tally.issued /\ y.tally.sets = x.tally.sets /\ y.tally.events = x.tally.events
      BY <1>2, <2>3, <2>4
    <3>2. 0 \in Nat /\ 0 \in Nat /\ 1 \in Nat /\ 0 + 0 + 1 = 1
      OBVIOUS
    <3> QED
      BY <1>2, <3>1, <3>2, BookedAs
  <2> QED
    BY <2>4, <2>5, <2>6 DEF SettledSoFar
<1>5. CASE ~(d.kept \/ d.sprite # s) /\ Lifetime(s, d.inc) < 0 /\ Lifetime(s, d.inc) # 0
  <2> DEFINE u == [x.tally EXCEPT !.ended = @ + 1]
  <2>1. y = [x EXCEPT !.tally = u]
    BY <1>2, <1>5 DEF Landed, SettleState
  <2>2. u \in Tally /\ u.stored = x.tally.stored /\ u.ended = x.tally.ended + 1
        /\ u.issued = x.tally.issued /\ u.sets = x.tally.sets /\ u.events = x.tally.events
    BY <1>2, TallyFact
  <2>3. y \in SettleState /\ y.actor = x.actor /\ y.tally = u /\ y.waiting = x.waiting
    <3> HIDE DEF u
    <3> QED BY <1>2, <2>1, <2>2 DEF SettleState
  <2>4. Booked(y, t, n + 1)
    <3>1. /\ y.tally.stored = x.tally.stored + 0 /\ y.tally.ended = x.tally.ended + 1
          /\ Len(y.waiting) = Len(x.waiting) + 0
          /\ y.tally.issued = x.tally.issued /\ y.tally.sets = x.tally.sets /\ y.tally.events = x.tally.events
      BY <1>2, <2>2, <2>3
    <3>2. 0 \in Nat /\ 1 \in Nat /\ 0 \in Nat /\ 0 + 1 + 0 = 1
      OBVIOUS
    <3> QED
      BY <1>2, <3>1, <3>2, BookedAs
  <2> QED
    BY <1>2, <2>2, <2>3, <2>4 DEF SettledSoFar
<1>6. CASE ~(d.kept \/ d.sprite # s) /\ ~(Lifetime(s, d.inc) = 0) /\ ~(Lifetime(s, d.inc) < 0)
  <2> DEFINE u == [x.tally EXCEPT !.stored = @ + 1]  b == OwnStore(x.actor, d.change)
  <2>1. y = [x EXCEPT !.actor = b, !.tally = u]
    BY <1>2, <1>6 DEF Landed, SettleState
  <2>2. u \in Tally /\ u.stored = x.tally.stored + 1 /\ u.ended = x.tally.ended
        /\ u.issued = x.tally.issued /\ u.sets = x.tally.sets /\ u.events = x.tally.events
    BY <1>2, TallyFact
  <2>3. b \in ActorRecord /\ Follows(x.actor, b)
    BY <1>1, <1>2, OwnStoreFact
  <2>4. y \in SettleState /\ y.actor = b /\ y.tally = u /\ y.waiting = x.waiting
    <3> HIDE DEF u, b
    <3> QED BY <1>2, <2>1, <2>2, <2>3 DEF SettleState
  <2>5. Follows(a, y.actor)
    BY <1>2, <2>3, <2>4, FollowsOn DEF SettledSoFar
  <2>6. s \notin foreign
    BY <1>6 DEF Lifetime, ForeignAt
  <2>7. Booked(y, t, n + 1)
    <3>1. /\ y.tally.stored = x.tally.stored + 1 /\ y.tally.ended = x.tally.ended + 0
          /\ Len(y.waiting) = Len(x.waiting) + 0
          /\ y.tally.issued = x.tally.issued /\ y.tally.sets = x.tally.sets /\ y.tally.events = x.tally.events
      BY <1>2, <2>2, <2>4
    <3>2. 1 \in Nat /\ 0 \in Nat /\ 0 \in Nat /\ 1 + 0 + 0 = 1
      OBVIOUS
    <3> QED
      BY <1>2, <3>1, <3>2, BookedAs
  <2> QED
    BY <2>2, <2>4, <2>5, <2>6, <2>7 DEF SettledSoFar
<1> QED
  BY <1>3, <1>4, <1>5, <1>6

\* The recursion is well defined, by induction on the number of writes.
LEMMA SettlingDefined ==
    ASSUME NEW s, NEW a, NEW writes \in Seq(WaitingWrite), NEW t
    PROVE  Settling(s, a, writes, t) =
              [i \in 0..Len(writes) |->
                  IF i = 0 THEN [actor |-> a, waiting |-> <<>>, tally |-> t]
                  ELSE Landed(s, Settling(s, a, writes, t)[i - 1], writes[i])]
<1> DEFINE G(st, i) == IF i = 0 THEN [actor |-> a, waiting |-> <<>>, tally |-> t]
                       ELSE Landed(s, st[i - 1], writes[i])
           T == {n \in Nat : \E st : st = [i \in 0..n |-> G(st, i)]}
<1>1. 0 \in T
  <2> DEFINE st == [i \in 0..0 |-> [actor |-> a, waiting |-> <<>>, tally |-> t]]
  <2>1. st = [i \in 0..0 |-> G(st, i)]
    OBVIOUS
  <2> QED
    BY <2>1
<1>2. ASSUME NEW n \in Nat, n \in T PROVE n + 1 \in T
  <2>1. PICK st : st = [i \in 0..n |-> G(st, i)]
    BY <1>2
  <2> DEFINE new == [i \in 0..(n + 1) |-> G(st, i)]
  <2>2. \A i \in 0..n : new[i] = st[i]
    <3> HIDE DEF G
    <3> QED BY <2>1
  <2>3. ASSUME NEW i \in 0..(n + 1) PROVE G(new, i) = G(st, i)
    <3>1. CASE i = 0
      BY <3>1
    <3>2. CASE i # 0
      <4>1. i - 1 \in 0..n
        BY <3>2
      <4>2. new[i - 1] = st[i - 1]
        <5> HIDE DEF new
        <5> QED BY <2>2, <4>1
      <4> HIDE DEF new
      <4> QED BY <3>2, <4>2
    <3> QED
      BY <3>1, <3>2
  <2>4. new = [i \in 0..(n + 1) |-> G(new, i)]
    <3> HIDE DEF G
    <3> QED BY <2>3
  <2>5. \E f : f = [i \in 0..(n + 1) |-> G(f, i)]
    <3> HIDE DEF G, new
    <3> QED BY <2>4
  <2> HIDE DEF G
  <2> QED
    BY <2>5
<1>3. \A n \in Nat : n \in T
  <2> HIDE DEF T
  <2> QED BY <1>1, <1>2, CountingUp
<1>4. Len(writes) \in Nat
  BY SeqFact
<1>5. \E st : st = [i \in 0..Len(writes) |-> G(st, i)]
  <2> HIDE DEF G
  <2> QED BY <1>3, <1>4
<1>6. Settling(s, a, writes, t) = CHOOSE st : st = [i \in 0..Len(writes) |-> G(st, i)]
  BY DEF Settling
<1>7. Settling(s, a, writes, t) = [i \in 0..Len(writes) |-> G(Settling(s, a, writes, t), i)]
  <2> HIDE DEF G
  <2> QED BY <1>5, <1>6
<1> QED
  BY <1>7

LEMMA SettlingFact ==
    ASSUME NEW s \in Sprites, NEW a \in ActorRecord, NEW writes \in Seq(WaitingWrite), NEW t \in Tally
    PROVE  SettledSoFar(s, a, writes, t, Settling(s, a, writes, t)[Len(writes)], Len(writes))
<1> DEFINE st == Settling(s, a, writes, t)
           T == {n \in Nat : n <= Len(writes) => SettledSoFar(s, a, writes, t, st[n], n)}
<1>1. Len(writes) \in Nat
  BY SeqFact
<1>2. 0 \in T
  <2>1. st[0] = [actor |-> a, waiting |-> <<>>, tally |-> t]
    BY <1>1, SettlingDefined
  <2>2. <<>> \in Seq(WaitingWrite) /\ Len(<<>>) = 0
    OBVIOUS
  <2>3. st[0] \in SettleState /\ st[0].actor = a /\ st[0].waiting = <<>> /\ st[0].tally = t
    <3> HIDE DEF st
    <3> QED BY <2>1, <2>2 DEF SettleState
  <2>4. Follows(a, a) /\ t.stored + t.ended \in Nat
    <3>1. t.stored \in Nat /\ t.ended \in Nat
      BY TallyFact
    <3> QED BY <3>1, FollowsSelf
  <2>5. SettledSoFar(s, a, writes, t, st[0], 0)
    <3> HIDE DEF st
    <3> QED BY <2>2, <2>3, <2>4 DEF SettledSoFar, Booked
  <2> QED
    BY <2>5
<1>3. ASSUME NEW n \in Nat, n \in T PROVE n + 1 \in T
  <2> SUFFICES ASSUME n + 1 <= Len(writes) PROVE SettledSoFar(s, a, writes, t, st[n + 1], n + 1)
    OBVIOUS
  <2>1. st[n + 1] = Landed(s, st[n], writes[n + 1])
    <3>1. n + 1 \in 0..Len(writes) /\ n + 1 # 0 /\ (n + 1) - 1 = n
      BY <1>1
    <3>2. st[n + 1] = Landed(s, st[(n + 1) - 1], writes[n + 1])
      BY <3>1, SettlingDefined
    <3> QED
      BY <3>1, <3>2
  <2>2. SettledSoFar(s, a, writes, t, st[n], n)
    BY <1>1, <1>3
  <2> QED
    <3>1. writes[n + 1] \in WaitingWrite /\ \E k \in 1..Len(writes) : writes[n + 1] = writes[k]
      <4>1. n + 1 \in 1..Len(writes)
        BY <1>1
      <4> QED BY <4>1, SeqFact
    <3> QED BY <2>1, <2>2, <3>1, LandedFact
<1>4. \A n \in Nat : n \in T
  <2> HIDE DEF T
  <2> QED BY <1>2, <1>3, CountingUp
<1> QED
  BY <1>1, <1>4
-----------------------------------------------------------------------------
(* Accounts, journals and carriers.                                         *)

LEMMA AccountFact ==
    ASSUME NEW x \in Accounts
    PROVE  /\ x.overflow \in Nat /\ x.overflow <= ExactMax
           /\ x.revision \in Nat /\ x.revision <= MaxRevision
BY NumberFacts DEF Accounts

LEMMA RevisedFact ==
    ASSUME NEW x \in Accounts, NEW n, n \in 0..MaxRevision, NEW m, m \in Exact
    PROVE  [policy |-> x.policy, phase |-> x.phase, revision |-> n, floor |-> x.floor,
            overflow |-> m, kind |-> x.kind, old |-> x.old] \in Accounts
BY DEF Accounts

LEMMA AdoptFact ==
    ASSUME NEW w \in Word
    PROVE  /\ Adopt("bg1_sod", 1, w, "single") \in Accounts
           /\ Adopt("bg1_sod", 1, w, "single").overflow = 0
<1>1. 1 \in 1..22 /\ 0 \in 0..MaxRevision /\ 0 \in Exact
  BY NumberFacts
<1>2. NoOld \in OldAccounts
  BY <1>1 DEF NoOld, OldAccounts
<1> QED
  BY <1>1, <1>2 DEF Adopt, Accounts, Policies, Kinds

LEMMA NoCarrierFact ==
    /\ NoJournal \in JournalRecord /\ NoCarrier \in CarrierRecord
    /\ ~NoCarrier.present /\ ~NoCarrier.excluded /\ NoCarrier.bound = 0
    /\ NoCarrier.account.overflow = 0 /\ NoCarrier.journal = NoJournal
    /\ NoJournal.stage = "none" /\ ~NoJournal.later /\ ~Pending(NoCarrier)
<1>1. Blank \in Accounts /\ Blank.overflow = 0
  BY AdoptFact, NumberFacts DEF Blank
<1>2. NoJournal \in JournalRecord
  BY <1>1, NumberFacts DEF NoJournal, JournalRecord
<1>3. NoCarrier \in CarrierRecord
  BY <1>1, <1>2 DEF NoCarrier, CarrierRecord
<1> QED
  BY <1>1, <1>2, <1>3 DEF NoCarrier, NoJournal, Pending

LEMMA CarrierFact ==
    ASSUME NEW cr \in CarrierRecord
    PROVE  /\ cr.present \in BOOLEAN /\ cr.excluded \in BOOLEAN /\ cr.bound \in Nat
           /\ cr.account \in Accounts /\ cr.account.overflow \in Nat /\ cr.account.revision \in Nat
           /\ cr.journal \in JournalRecord /\ cr.journal.later \in BOOLEAN
           /\ cr.journal.after \in Accounts /\ cr.journal.after.overflow \in Nat
           /\ cr.journal.target \in Word
<1>1. cr.account \in Accounts /\ cr.journal \in JournalRecord
  BY DEF CarrierRecord
<1>2. cr.journal.after \in Accounts
  BY <1>1 DEF JournalRecord
<1> QED
  BY <1>1, <1>2, AccountFact DEF CarrierRecord, JournalRecord

LEMMA LeastFact ==
    ASSUME NEW a \in Nat, NEW b \in Nat
    PROVE  Least(a, b) \in Nat /\ Least(a, b) <= a /\ Least(a, b) <= b
BY DEF Least

LEMMA AwardPlan ==
    ASSUME NEW acc \in Accounts, NEW w \in Word, NEW amount \in Nat, AwardFits(acc, w, amount)
    PROVE  /\ w + Applied(w, amount) \in Word
           /\ CompleteAward(acc, w, amount) \in Accounts
           /\ w + Applied(w, amount) + CompleteAward(acc, w, amount).overflow = w + acc.overflow + amount
<1>1. w \in Nat /\ w <= U32 /\ acc.overflow \in Nat /\ acc.revision \in Nat /\ U32 \in Nat
  BY NumberFacts, AccountFact
<1>2. U32 - w \in Nat
  BY <1>1
<1>3. PICK x \in Nat : x = Applied(w, amount) /\ x <= amount /\ x <= U32 - w
  BY <1>2, LeastFact DEF Applied
<1>4. PICK y \in Nat : y = Remainder(w, amount) /\ x + y = amount
  BY <1>3 DEF Remainder
<1>5. acc.overflow + y \in Exact
  <2>1. acc.overflow + y <= ExactMax
    BY <1>4 DEF AwardFits, Storable
  <2> QED
    BY <1>1, <2>1, NumberFacts
<1>6. acc.revision + 1 \in 0..MaxRevision
  <2>1. acc.revision < MaxRevision
    BY DEF AwardFits
  <2> QED
    BY <1>1, <2>1, NumberFacts
<1>7. CompleteAward(acc, w, amount).overflow = acc.overflow + y
  BY <1>4 DEF CompleteAward, Banked
<1>8. CompleteAward(acc, w, amount) \in Accounts
  BY <1>4, <1>5, <1>6, RevisedFact DEF CompleteAward, Banked
<1>9. w + x \in Word
  BY <1>1, <1>3, NumberFacts
<1>10. w + x + (acc.overflow + y) = w + acc.overflow + amount
  BY <1>1, <1>4
<1> QED
  BY <1>3, <1>7, <1>8, <1>9, <1>10

LEMMA TotalFact ==
    ASSUME NEW acc \in Accounts, NEW w \in Word, NEW c \in Change, c.mode \in Modes,
           WriteFits(acc, w, c.mode, c.raw)
    PROVE  /\ WriteTotal(acc, w, c.mode, c.raw) \in Nat
           /\ WriteTotal(acc, w, c.mode, c.raw) = Owed(w + acc.overflow, w, c)
<1> DEFINE total == WriteTotal(acc, w, c.mode, c.raw)  owed == w + acc.overflow
<1>1. /\ w \in Nat /\ w <= U32 /\ acc.overflow \in Nat /\ owed \in Nat
      /\ c.raw \in Nat /\ c.raw <= U32 /\ S32 \in Nat /\ ActiveTotal(acc, w) = owed
  BY NumberFacts, AccountFact, ChangeFact DEF ActiveTotal
<1>2. CASE c.mode = "add"
  <2>1. Owed(owed, w, c) = owed + Signed(c.raw)
    BY <1>2 DEF Owed
  <2>2. CASE c.raw <= S32
    <3>1. total = owed + c.raw
      BY <1>1, <1>2, <2>2 DEF WriteTotal
    <3>2. Signed(c.raw) = c.raw
      BY <2>2 DEF Signed
    <3> QED
      BY <1>1, <2>1, <3>1, <3>2
  <2>3. CASE c.raw > S32
    <3>0. ~(c.raw <= S32)
      BY <1>1, <2>3
    <3>1. total = owed - Loss(c.raw)
      BY <1>1, <1>2, <2>3, <3>0 DEF WriteTotal
    <3>2. PICK l \in Nat : l = Loss(c.raw)
      BY <1>1, NumberFacts DEF Loss
    <3>3. l <= owed
      BY <1>1, <1>2, <2>3, <3>2 DEF WriteFits
    <3>4. Signed(c.raw) = 0 - l
      BY <3>0, <3>2 DEF Signed
    <3>5. total = owed - l /\ Owed(owed, w, c) = owed + (0 - l)
      BY <2>1, <3>1, <3>2, <3>4
    <3> HIDE DEF total, owed
    <3> QED
      BY <1>1, <3>2, <3>3, <3>5 DEF total, owed
  <2> QED
    BY <1>1, <2>2, <2>3
<1>3. CASE c.mode = "percent"
  <2>1. total = Native(w, c) /\ Owed(owed, w, c) = Native(w, c)
    BY <1>3 DEF WriteTotal, Native, Owed
  <2> QED
    BY <2>1, NativeFact, NumberFacts
<1>4. CASE c.mode = "catchup"
  <2>1. total = Greatest(owed, c.raw) /\ Owed(owed, w, c) = Greatest(owed, c.raw)
    BY <1>1, <1>4 DEF WriteTotal, Owed
  <2>2. Greatest(owed, c.raw) \in Nat
    BY <1>1 DEF Greatest
  <2> QED
    BY <2>1, <2>2
<1>5. CASE c.mode = "set"
  BY <1>1, <1>5 DEF WriteTotal, Owed, Native
<1> QED
  BY <1>2, <1>3, <1>4, <1>5 DEF Modes

LEMMA WritePlan ==
    ASSUME NEW acc \in Accounts, NEW w \in Word, NEW c \in Change, c.mode \in Modes,
           WriteFits(acc, w, c.mode, c.raw)
    PROVE  /\ Target(acc, w, c.mode, c.raw) \in Word
           /\ PrepareWrite(acc, w, c.mode, c.raw) \in Accounts
           /\ Target(acc, w, c.mode, c.raw) + PrepareWrite(acc, w, c.mode, c.raw).overflow
                 = Owed(w + acc.overflow, w, c)
<1>1. PICK z \in Nat : z = WriteTotal(acc, w, c.mode, c.raw) /\ z = Owed(w + acc.overflow, w, c)
  BY TotalFact
<1>2. z <= ExactMax
  <2>1. 0 + z <= ExactMax
    BY <1>1 DEF WriteFits, Storable
  <2> QED
    BY <1>1, <2>1
<1>3. PICK x \in Nat : x = Target(acc, w, c.mode, c.raw) /\ x <= U32 /\ x <= z
  BY <1>1, LeastFact, NumberFacts DEF Target
<1>4. z - x \in Exact
  BY <1>2, <1>3, NumberFacts
<1>5. acc.revision + 1 \in 0..MaxRevision
  <2>1. acc.revision < MaxRevision
    BY DEF WriteFits
  <2> QED
    BY <2>1, NumberFacts, AccountFact
<1>6. PrepareWrite(acc, w, c.mode, c.raw).overflow = z - x
  BY <1>1, <1>3 DEF PrepareWrite
<1>7. PrepareWrite(acc, w, c.mode, c.raw) \in Accounts
  BY <1>1, <1>3, <1>4, <1>5, RevisedFact DEF PrepareWrite
<1>8. x \in Word /\ x + (z - x) = z
  BY <1>3, NumberFacts
<1> QED
  BY <1>1, <1>3, <1>6, <1>7, <1>8

\* What a call asks of the bank.
Asks(f) ==
    /\ f.bridge \in {"award", "write"} /\ f.pre \in Word
    /\ f.change \in Change /\ f.change.mode # "none" /\ f.inc \in Nat
    /\ f.bridge = "award" => IsAward(f.change)

LEMMA PlanFact ==
    ASSUME NEW f, Asks(f), NEW acc \in Accounts, Fits(f.bridge, acc, f.pre, f.change)
    PROVE  /\ Planned(f.bridge, acc, f.pre, f.change) \in Word
           /\ After(f.bridge, acc, f.pre, f.change) \in Accounts
           /\ Planned(f.bridge, acc, f.pre, f.change) + After(f.bridge, acc, f.pre, f.change).overflow
                 = Owed(f.pre + acc.overflow, f.pre, f.change)
<1>1. f.pre \in Word /\ f.change \in Change /\ f.change.mode \in Modes
  BY ChangeFact DEF Asks, NoChange
<1>2. CASE f.bridge = "award"
  <2>1. f.change.mode = "add" /\ f.change.raw \in Nat /\ f.change.raw <= S32
    BY <1>2, NumberFacts DEF Asks, IsAward
  <2>2. AwardFits(acc, f.pre, f.change.raw)
    BY <1>2 DEF Fits
  <2>3. Owed(f.pre + acc.overflow, f.pre, f.change) = f.pre + acc.overflow + f.change.raw
    BY <2>1 DEF Owed, Signed
  <2> QED
    BY <1>1, <1>2, <2>1, <2>2, <2>3, AwardPlan DEF Planned, After
<1>3. CASE f.bridge # "award"
  BY <1>1, <1>3, WritePlan DEF Fits, Planned, After
<1> QED
  BY <1>2, <1>3

LEMMA JournalFact ==
    ASSUME NEW f, Asks(f), NEW acc \in Accounts, Fits(f.bridge, acc, f.pre, f.change)
    PROVE  /\ Journal(f, acc) \in JournalRecord
           /\ Journal(f, acc).stage = "prepared" /\ Journal(f, acc).inc = f.inc /\ ~Journal(f, acc).later
           /\ Journal(f, acc).target = Planned(f.bridge, acc, f.pre, f.change)
           /\ Journal(f, acc).after = After(f.bridge, acc, f.pre, f.change)
           /\ Journal(f, acc).target + Journal(f, acc).after.overflow
                 = Owed(f.pre + acc.overflow, f.pre, f.change)
<1>1. /\ Planned(f.bridge, acc, f.pre, f.change) \in Word
      /\ After(f.bridge, acc, f.pre, f.change) \in Accounts
      /\ Planned(f.bridge, acc, f.pre, f.change) + After(f.bridge, acc, f.pre, f.change).overflow
            = Owed(f.pre + acc.overflow, f.pre, f.change)
  BY PlanFact
<1>2. f.inc \in Nat
  BY DEF Asks
<1> QED
  BY <1>1, <1>2 DEF Journal, JournalRecord
-----------------------------------------------------------------------------
(* The invariant.                                                           *)

\* ForeignAt, of a given set of addresses.
Unsure(F, s) == s \in F \/ Cardinality(F) > ForeignSlots

\* An absent account is empty, and only a journal is matched later.
Sane(cr) ==
    /\ ~cr.present => cr = NoCarrier
    /\ ~Pending(cr) => ~cr.journal.later

\* An actor and the account kept at its address.  The account may be that of
\* an earlier actor there: then this one is owed just its word.
Even(a, cr, unsure, calm) ==
    /\ Sane(cr)
    /\ cr.present /\ ~cr.excluded => cr.bound # 0
    /\ ~cr.present => a.owed = a.word
    /\ calm /\ cr.bound # a.inc => a.owed = a.word
    /\ cr.bound = a.inc /\ ~cr.excluded /\ ~unsure => Balanced(a.word, a.owed, a.replaced, cr)

\* What a save wrote belongs together.
SavedEven(d) ==
    /\ Sane(d.carrier)
    /\ ~d.carrier.present => d.owed = d.word
    /\ d.carrier.present /\ ~d.carrier.excluded => Balanced(d.word, d.owed, FALSE, d.carrier)

\* What a call with a published journal may rely on until it closes.
Due(f, a, cr) ==
    /\ cr.present /\ ~cr.excluded /\ cr.bound = f.inc
    /\ a.eligible /\ ~a.replaced
    /\ Fits(f.bridge, cr.account, f.pre, f.change)
    /\ cr.journal = Journal(f, cr.account)
    /\ a.owed - a.word = IF f.answer = "stored" THEN cr.journal.after.overflow
                         ELSE cr.account.overflow

DueIfLive(f, a, cr) ==
    f.bridge # "save" /\ f.inc = a.inc /\ f.answer \in {"tracked", "stored"} => Due(f, a, cr)

\* A call stands for a change the bank was asked for.
Asking(f) ==
    /\ f.inc # 0 /\ f.change.mode # "none"
    /\ f.bridge = "award" => IsAward(f.change)
    /\ f.effect = None => f.bridge = "write"

\* Saves and calls are never open together, and an actor has one call.
Stack(C) ==
    /\ \A i, j \in 1..Len(C) : C[i].bridge # "save" => C[j].bridge # "save"
    /\ \A i, j \in 1..Len(C) : C[i].bridge # "save" /\ C[i].sprite = C[j].sprite => i = j
    /\ \A i \in 1..Len(C) : C[i].bridge # "save" => Asking(C[i])

\* Every actor and account is even.
Books(A, X, F) == \A s \in Sprites : Even(A[s], X[s], Unsure(F, s), F = {})
\* Each open call that published a journal is owed what it prepared.
Dues(C, A, X, F) ==
    F = {} => \A i \in 1..Len(C) : DueIfLive(C[i], A[C[i].sprite], X[C[i].sprite])
\* No number is used that was not given.
NotAhead(A, X, C, N) ==
    /\ \A s \in Sprites : A[s].inc <= N /\ X[s].bound <= N
    /\ \A i \in 1..Len(C) : C[i].inc <= N

\* What a step on one actor must keep.
Core ==
    /\ actors \in [Sprites -> ActorRecord] /\ aux \in [Sprites -> CarrierRecord]
    /\ calls \in Seq(CallRecord)
    /\ Stack(calls) /\ NotAhead(actors, aux, calls, nextInc)
    /\ Books(actors, aux, foreign) /\ Dues(calls, actors, aux, foreign)

\* The inductive invariant.  NoXpLost alone is not kept by a step: what a store
\* and its completion do to an actor is only right because the journal, the
\* account and the word still fit the call that published them (Dues), because
\* an actor has one open call (Stack), because an account left at an address by
\* an earlier actor cannot take the number of a later one (NotAhead), and
\* because an actor without a known account is owed just its word (Even).
BridgeInv ==
    /\ Typed
    /\ Stack(calls)
    /\ NotAhead(actors, aux, calls, nextInc)
    /\ Books(actors, aux, foreign)
    /\ Dues(calls, actors, aux, foreign)
    /\ \A s \in Sprites : SavedEven(disk[s])
-----------------------------------------------------------------------------
(* What keeps an actor and its account even.                                *)

LEMMA BalancedFact ==
    ASSUME NEW w \in Nat, NEW o \in Int, NEW cr \in CarrierRecord, ~cr.journal.later,
           o - w = cr.account.overflow
    PROVE  Balanced(w, o, FALSE, cr)
<1>1. PICK n \in Nat : n = cr.account.overflow
  BY CarrierFact
<1>2. o - (w + n) = 0
  BY <1>1
<1> QED
  BY <1>1, <1>2 DEF Balanced, ActiveTotal

LEMMA UnbalancedFact ==
    ASSUME NEW w \in Nat, NEW o \in Int, NEW cr \in CarrierRecord,
           Balanced(w, o, FALSE, cr), ~Pending(cr), Sane(cr)
    PROVE  o - w = cr.account.overflow
<1>1. PICK n \in Nat : n = cr.account.overflow
  BY CarrierFact
<1>2. o - (w + n) = 0
  BY <1>1 DEF Balanced, ActiveTotal, Sane
<1> QED
  BY <1>1, <1>2

LEMMA NoCarrierEven ==
    ASSUME NEW a \in ActorRecord, a.owed = a.word, NEW u, NEW calm
    PROVE  Even(a, NoCarrier, u, calm)
<1>1. a.word \in Nat /\ a.owed \in Int /\ a.owed - a.word = 0 /\ a.replaced \in BOOLEAN
  BY ActorFact
<1>2. Balanced(a.word, a.owed, FALSE, NoCarrier)
  BY <1>1, BalancedFact, NoCarrierFact
<1>3. Balanced(a.word, a.owed, TRUE, NoCarrier)
  BY DEF Balanced
<1> QED
  BY <1>1, <1>2, <1>3, NoCarrierFact DEF Even, Sane

LEMMA FollowsEven ==
    ASSUME NEW a \in ActorRecord, NEW b \in ActorRecord, NEW cr \in CarrierRecord,
           Follows(a, b), NEW u, NEW calm, Even(a, cr, u, calm)
    PROVE  Even(b, cr, u, calm)
<1>1. /\ b.inc = a.inc /\ (a.owed = a.word => b.owed = b.word)
      /\ b.word \in Nat /\ a.word \in Nat /\ a.owed \in Int /\ b.owed \in Int
  BY ActorFact DEF Follows
<1>2. Sane(cr) /\ (cr.present /\ ~cr.excluded => cr.bound # 0)
  BY DEF Even
<1>3. (~cr.present => b.owed = b.word) /\ (calm /\ cr.bound # b.inc => b.owed = b.word)
  BY <1>1 DEF Even
<1>4. ASSUME cr.bound = b.inc, ~cr.excluded, ~u PROVE Balanced(b.word, b.owed, b.replaced, cr)
  <2>1. Balanced(a.word, a.owed, a.replaced, cr)
    BY <1>1, <1>4 DEF Even
  <2>2. CASE b.replaced
    <3>1. CASE a.replaced
      BY <1>1, <2>1, <2>2, <3>1 DEF Balanced
    <3>2. CASE ~a.replaced
      BY <2>2, <3>2 DEF Balanced, Follows
    <3> QED
      BY <3>1, <3>2
  <2>3. CASE ~b.replaced /\ a.inc # 0
    <3>1. ~a.replaced /\ b.owed - b.word = a.owed - a.word
      BY <2>3 DEF Follows
    <3>2. CASE cr.journal.later
      BY <1>1, <2>1, <3>2 DEF Balanced
    <3>3. CASE ~cr.journal.later
      <4>1. PICK n \in Nat : n = cr.account.overflow
        BY CarrierFact
      <4>2. b.owed - (b.word + n) = a.owed - (a.word + n)
        BY <1>1, <3>1
      <4>3. b.owed - ActiveTotal(cr.account, b.word) = a.owed - ActiveTotal(cr.account, a.word)
        BY <4>1, <4>2 DEF ActiveTotal
      <4> QED
        BY <2>1, <2>3, <3>1, <3>3, <4>3 DEF Balanced
    <3> QED
      BY <3>2, <3>3
  <2>4. CASE ~b.replaced /\ a.inc = 0
    <3>1. cr = NoCarrier
      BY <1>1, <1>2, <1>4, <2>4 DEF Sane
    <3>2. b.owed - b.word = 0
      BY <1>1, <1>3, <3>1, NoCarrierFact
    <3>3. Balanced(b.word, b.owed, FALSE, NoCarrier)
      BY <1>1, <3>2, BalancedFact, NoCarrierFact
    <3>4. b.replaced = FALSE
      BY <2>4, ActorFact
    <3> QED
      BY <3>1, <3>3, <3>4
  <2> QED
    BY <2>2, <2>3, <2>4
<1> QED
  BY <1>2, <1>3, <1>4 DEF Even

\* The account says exactly what the word misses.
LEMMA EvenExact ==
    ASSUME NEW a \in ActorRecord, NEW cr \in CarrierRecord, NEW u, NEW calm,
           ~a.replaced, cr.present, ~cr.journal.later, cr.bound = a.inc, a.inc # 0,
           a.owed - a.word = cr.account.overflow
    PROVE  Even(a, cr, u, calm)
<1>1. Balanced(a.word, a.owed, FALSE, cr)
  BY ActorFact, BalancedFact
<1>2. a.replaced = FALSE
  BY ActorFact
<1> QED
  BY <1>1, <1>2 DEF Even, Sane

\* The store is made and the account is still to follow.
LEMMA EvenDue ==
    ASSUME NEW a \in ActorRecord, NEW cr \in CarrierRecord, NEW u, NEW calm,
           ~a.replaced, cr.present, ~cr.journal.later, cr.bound = a.inc, a.inc # 0, Pending(cr),
           a.owed - a.word = cr.journal.after.overflow
    PROVE  Even(a, cr, u, calm)
<1>1. PICK n, m \in Nat : n = cr.account.overflow /\ m = cr.journal.after.overflow
  BY CarrierFact
<1>2. a.word \in Nat /\ a.owed \in Int /\ a.owed - (a.word + n) = m - n
  BY <1>1, ActorFact
<1>3. Balanced(a.word, a.owed, a.replaced, cr)
  BY <1>1, <1>2 DEF Balanced, ActiveTotal
<1> QED
  BY <1>3 DEF Even, Sane

LEMMA EvenUncertain ==
    ASSUME NEW a \in ActorRecord, NEW cr \in CarrierRecord, NEW u, NEW calm,
           Even(a, cr, u, calm), Pending(cr)
    PROVE  /\ [cr EXCEPT !.journal.stage = "uncertain"] \in CarrierRecord
           /\ [cr EXCEPT !.journal.stage = "uncertain"].bound = cr.bound
           /\ Even(a, [cr EXCEPT !.journal.stage = "uncertain"], u, calm)
<1> DEFINE new == [cr EXCEPT !.journal.stage = "uncertain"]
<1>1. /\ new \in CarrierRecord /\ new.bound = cr.bound /\ new.present = cr.present
      /\ new.excluded = cr.excluded /\ new.account = cr.account
      /\ new.journal.stage = "uncertain" /\ new.journal.later = cr.journal.later
      /\ new.journal.after = cr.journal.after
  BY CarrierFact DEF CarrierRecord, JournalRecord
<1>2. Pending(new)
  BY <1>1 DEF Pending
<1>3. cr.present
  BY NoCarrierFact DEF Even, Sane
<1>4. Balanced(a.word, a.owed, a.replaced, cr) => Balanced(a.word, a.owed, a.replaced, new)
  <2> HIDE DEF new
  <2> QED BY <1>1, <1>2 DEF Balanced
<1>5. Sane(new)
  <2> HIDE DEF new
  <2> QED BY <1>1, <1>2, <1>3 DEF Sane
<1> HIDE DEF new
<1>6. Even(a, new, u, calm)
  BY <1>1, <1>3, <1>4, <1>5 DEF Even
<1> QED
  BY <1>1, <1>6 DEF new
-----------------------------------------------------------------------------
(* What the runtime makes of an account.                                    *)

LEMMA TypedAt ==
    ASSUME Typed, NEW s \in Sprites
    PROVE  actors[s] \in ActorRecord /\ aux[s] \in CarrierRecord /\ disk[s] \in SaveRecord
BY DEF Typed

LEMMA CalmFact ==
    ASSUME NEW s \in Sprites
    PROVE  /\ Known(s) => foreign = {} /\ actors[s].inc # 0
           /\ \A inc : CanMutate(s, inc) =>
                 /\ foreign = {} /\ actors[s].inc # 0 /\ actors[s].inc = inc
                 /\ actors[s].eligible /\ ~Saving(s)
           /\ foreign = {} => ~Unsure(foreign, s)
           /\ ForeignAt(s) = Unsure(foreign, s)
<1>1. foreign = {} => ~(Cardinality(foreign) > ForeignSlots)
  <2>1. Cardinality({}) = 0 /\ ForeignSlots \in Nat
    BY FS_EmptySet, BridgeAssumption
  <2> QED
    BY <2>1
<1> QED
  BY <1>1 DEF Known, CanMutate, Unsure, ForeignAt

LEMMA NotedFact ==
    ASSUME Typed, NEW s \in Sprites
    PROVE  /\ [actors[s] EXCEPT !.replaced = FALSE] \in ActorRecord
           /\ [actors[s] EXCEPT !.replaced = FALSE].inc = actors[s].inc
           /\ [actors[s] EXCEPT !.replaced = FALSE].eligible = actors[s].eligible
           /\ [actors[s] EXCEPT !.replaced = FALSE].word = actors[s].word
           /\ [actors[s] EXCEPT !.replaced = FALSE].owed = actors[s].owed
           /\ ~[actors[s] EXCEPT !.replaced = FALSE].replaced
           /\ Noted(s) = [actors EXCEPT ![s] = [actors[s] EXCEPT !.replaced = FALSE]]
BY TypedAt DEF ActorRecord, Noted, Typed

LEMMA AdoptedFact ==
    ASSUME Typed, NEW s \in Sprites
    PROVE  /\ Adopted(s) \in CarrierRecord /\ Adopted(s).present /\ ~Adopted(s).excluded
           /\ Adopted(s).bound = actors[s].inc /\ Adopted(s).journal = NoJournal
           /\ Adopted(s).account.overflow = 0
<1>1. actors[s].word \in Word /\ actors[s].inc \in Nat
  BY TypedAt, ActorFact
<1> QED
  BY <1>1, AdoptFact, NoCarrierFact DEF Adopted, CarrierRecord

LEMMA SettledFact ==
    ASSUME NEW a \in ActorRecord, NEW cr \in CarrierRecord, SettledFits(cr, a)
    PROVE  /\ Settled(cr, a) \in CarrierRecord
           /\ Settled(cr, a).present = cr.present /\ Settled(cr, a).excluded = cr.excluded
           /\ Settled(cr, a).bound = cr.bound /\ Settled(cr, a).journal = cr.journal
           /\ Outdated(cr, a) => Settled(cr, a).account.overflow = 0
           /\ ~Outdated(cr, a) => Settled(cr, a) = cr
<1>1. CASE Outdated(cr, a)
  <2>1. cr.account.revision + 1 \in 0..MaxRevision /\ 0 \in Exact
    <3>1. cr.account.revision < MaxRevision
      BY <1>1 DEF SettledFits
    <3> QED BY <3>1, CarrierFact, NumberFacts
  <2> DEFINE acc == [cr.account EXCEPT !.overflow = 0, !.revision = @ + 1]
  <2>2. acc \in Accounts /\ acc.overflow = 0
    BY <2>1, CarrierFact DEF Accounts
  <2>3. Settled(cr, a) = [cr EXCEPT !.account = acc]
    BY <1>1, CarrierFact DEF Settled, CarrierRecord, Accounts
  <2> HIDE DEF acc
  <2> QED
    BY <1>1, <2>2, <2>3 DEF CarrierRecord
<1>2. CASE ~Outdated(cr, a)
  BY <1>2 DEF Settled
<1> QED
  BY <1>1, <1>2

LEMMA RefreshedFact ==
    ASSUME Typed, NEW s \in Sprites, NEW cr \in CarrierRecord,
           Even(actors[s], cr, FALSE, TRUE), Refreshable(s, cr)
    PROVE  /\ Refreshed(s, cr) \in CarrierRecord
           /\ Refreshed(s, cr).present /\ ~Refreshed(s, cr).excluded
           /\ Refreshed(s, cr).bound = actors[s].inc
           /\ ~Pending(Refreshed(s, cr)) /\ ~Refreshed(s, cr).journal.later
           /\ actors[s].owed - actors[s].word = Refreshed(s, cr).account.overflow
<1> DEFINE a == actors[s]  old == IF cr.present THEN cr ELSE Adopted(s)  new == Settled(old, a)
<1>1. a \in ActorRecord /\ a.word \in Nat /\ a.owed \in Int /\ a.replaced \in BOOLEAN
  BY TypedAt, ActorFact
<1>2. /\ old \in CarrierRecord /\ old.present /\ ~old.excluded /\ old.bound = a.inc
      /\ ~Pending(old) /\ ~old.journal.later /\ Balanced(a.word, a.owed, a.replaced, old)
      /\ SettledFits(old, a) /\ (Pending(old) \/ Sane(old))
  <2>1. CASE cr.present
    <3>1. cr.bound = a.inc /\ ~cr.excluded /\ ~Pending(cr) /\ SettledFits(cr, a)
      BY <2>1 DEF Refreshable
    <3> QED
      BY <2>1, <3>1 DEF Even, Sane
  <2>2. CASE ~cr.present
    <3>1. a.owed - a.word = 0 /\ a.owed = a.word
      BY <1>1, <2>2 DEF Even
    <3>2. ~Pending(Adopted(s)) /\ ~Adopted(s).journal.later
      BY AdoptedFact, NoCarrierFact DEF Pending
    <3>3. Balanced(a.word, a.owed, FALSE, Adopted(s))
      BY <1>1, <3>1, <3>2, AdoptedFact, BalancedFact
    <3>4. Balanced(a.word, a.owed, TRUE, Adopted(s))
      BY <3>1 DEF Balanced
    <3>5. SettledFits(Adopted(s), a)
      BY AdoptedFact DEF SettledFits, Outdated
    <3>6. Sane(Adopted(s))
      BY <3>2, AdoptedFact DEF Sane
    <3> QED
      BY <1>1, <2>2, <3>2, <3>3, <3>4, <3>5, <3>6, AdoptedFact
  <2> QED
    BY <2>1, <2>2
<1>3. new = Refreshed(s, cr)
  BY DEF Refreshed
<1> HIDE DEF old
<1>4. /\ new \in CarrierRecord /\ new.present /\ ~new.excluded /\ new.bound = a.inc
      /\ new.journal = old.journal
      /\ (Outdated(old, a) => new.account.overflow = 0) /\ (~Outdated(old, a) => new = old)
  BY <1>1, <1>2, SettledFact
<1>5. ~Pending(new) /\ ~new.journal.later
  BY <1>2, <1>4 DEF Pending
<1>6. a.owed - a.word = new.account.overflow
  <2>1. CASE a.replaced
    <3>1. a.owed - a.word = 0
      BY <1>1, <1>2, <2>1 DEF Balanced
    <3>2. new.account.overflow = 0
      <4>1. CASE Outdated(old, a)
        BY <1>4, <4>1
      <4>2. CASE ~Outdated(old, a)
        <5>1. ~(old.account.overflow > 0)
          BY <1>2, <2>1, <4>2 DEF Outdated
        <5> QED
          BY <1>2, <1>4, <4>2, <5>1, CarrierFact
      <4> QED
        BY <4>1, <4>2
    <3> QED
      BY <3>1, <3>2
  <2>2. CASE ~a.replaced
    <3>1. new = old
      BY <1>4, <2>2 DEF Outdated
    <3>2. a.replaced = FALSE
      BY <1>1, <2>2
    <3> QED
      BY <1>1, <1>2, <3>1, <3>2, UnbalancedFact
  <2> QED
    BY <2>1, <2>2
<1> QED
  BY <1>3, <1>4, <1>5, <1>6

LEMMA InheritedFact ==
    ASSUME Typed, NEW s \in Sprites, Even(actors[s], aux[s], Unsure(foreign, s), foreign = {}), foreign = {}
    PROVE  /\ Inherited(s) \in CarrierRecord
           /\ Inherited(s).bound \in {aux[s].bound, 0}
           /\ \A u, calm : Even(actors[s], Inherited(s), u, calm)
<1>1. actors[s] \in ActorRecord /\ aux[s] \in CarrierRecord /\ ~Unsure(foreign, s)
  BY TypedAt, CalmFact
<1>2. CASE aux[s].bound = actors[s].inc
  BY <1>1, <1>2 DEF Inherited, Even
<1>3. CASE aux[s].bound # actors[s].inc
  <2>1. actors[s].owed = actors[s].word
    BY <1>3 DEF Even
  <2> QED
    BY <1>1, <1>3, <2>1, NoCarrierEven, NoCarrierFact DEF Inherited
<1> QED
  BY <1>2, <1>3

LEMMA ExportFact ==
    ASSUME Typed, NEW s \in Sprites, Even(actors[s], aux[s], Unsure(foreign, s), foreign = {})
    PROVE  /\ Export(s) \in CarrierRecord
           /\ SavedEven([word |-> actors[s].word, owed |-> actors[s].owed, carrier |-> Export(s)])
<1> DEFINE a == actors[s]  cr == aux[s]  new == Export(s)
<1>1. /\ a \in ActorRecord /\ cr \in CarrierRecord /\ a.word \in Nat /\ a.owed \in Int
      /\ a.replaced \in BOOLEAN
  BY TypedAt, ActorFact
<1>2. CASE new = NoCarrier /\ a.owed = a.word
  <2>1. a.owed - a.word = 0
    BY <1>1, <1>2
  <2> QED
    BY <1>2, NoCarrierFact DEF SavedEven, Sane
<1>3. CASE ~cr.present \/ (Known(s) /\ cr.bound # a.inc)
  <2>1. new = NoCarrier
    BY <1>3 DEF Export
  <2>2. a.owed = a.word
    BY <1>3, CalmFact DEF Even
  <2> QED
    BY <1>2, <2>1, <2>2
<1>4. CASE cr.present /\ ~(Known(s) /\ cr.bound # a.inc) /\ (~Known(s) \/ ~a.eligible)
  <2>1. new = [cr EXCEPT !.excluded = TRUE]
    BY <1>4 DEF Export
  <2>2. new \in CarrierRecord /\ new.present /\ new.excluded /\ new.journal = cr.journal
    BY <1>1, <1>4, <2>1 DEF CarrierRecord
  <2> HIDE DEF new
  <2>3. Sane(new)
    BY <2>2 DEF Sane, Even, Pending
  <2> QED
    BY <2>2, <2>3 DEF SavedEven, new
<1>5. CASE cr.present /\ Known(s) /\ cr.bound = a.inc /\ a.eligible
  <2>1. ~Unsure(foreign, s) /\ Sane(cr) /\ (~cr.excluded => Balanced(a.word, a.owed, a.replaced, cr))
    BY <1>5, CalmFact DEF Even
  <2>2. CASE ~a.replaced \/ cr.excluded
    <3>1. new = cr
      BY <1>5, <2>2 DEF Export
    <3>2. ~cr.excluded => Balanced(a.word, a.owed, FALSE, cr)
      BY <1>1, <2>1, <2>2
    <3> QED
      BY <1>1, <1>5, <2>1, <3>1, <3>2 DEF SavedEven
  <2>3. CASE a.replaced /\ ~cr.excluded /\ Pending(cr)
    <3>1. new = [cr EXCEPT !.journal.later = TRUE]
      BY <1>5, <2>3 DEF Export
    <3>2. /\ new \in CarrierRecord /\ new.present /\ new.journal.later
          /\ new.journal.stage = cr.journal.stage
      BY <1>1, <1>5, <3>1 DEF CarrierRecord, JournalRecord
    <3>3. a.owed = a.word
      BY <2>1, <2>3 DEF Balanced
    <3> HIDE DEF new
    <3>4. Sane(new) /\ Balanced(a.word, a.owed, FALSE, new)
      BY <2>3, <3>2, <3>3 DEF Sane, Balanced, Pending
    <3> QED
      BY <3>2, <3>4 DEF SavedEven, new
  <2>4. CASE a.replaced /\ ~cr.excluded /\ ~Pending(cr) /\ SettledFits(cr, a)
    <3>1. new = Settled(cr, a)
      BY <1>5, <2>4 DEF Export
    <3>2. a.owed - a.word = 0
      BY <1>1, <2>1, <2>4 DEF Balanced
    <3>3. new \in CarrierRecord /\ new.present /\ ~new.excluded /\ new.journal = cr.journal
      BY <1>1, <1>5, <2>4, <3>1, SettledFact
    <3>4. new.account.overflow = 0
      <4>1. CASE Outdated(cr, a)
        BY <1>1, <2>4, <3>1, <4>1, SettledFact
      <4>2. CASE ~Outdated(cr, a)
        <5>1. ~(cr.account.overflow > 0)
          BY <2>4, <4>2 DEF Outdated
        <5> QED
          BY <1>1, <2>4, <3>1, <4>2, <5>1, CarrierFact, SettledFact
      <4> QED
        BY <4>1, <4>2
    <3> HIDE DEF new
    <3>5. ~new.journal.later /\ ~Pending(new)
      BY <2>1, <2>4, <3>3 DEF Sane, Pending
    <3>6. Balanced(a.word, a.owed, FALSE, new)
      BY <1>1, <3>2, <3>3, <3>4, <3>5, BalancedFact
    <3> QED
      BY <3>3, <3>5, <3>6 DEF SavedEven, Sane, new
  <2>5. CASE a.replaced /\ ~cr.excluded /\ ~Pending(cr) /\ ~SettledFits(cr, a)
    <3>1. new = NoCarrier
      BY <1>5, <2>5 DEF Export
    <3>2. a.owed = a.word
      BY <2>1, <2>5 DEF Balanced
    <3> QED
      BY <1>2, <3>1, <3>2
  <2> QED
    BY <2>2, <2>3, <2>4, <2>5
<1> QED
  BY <1>3, <1>4, <1>5
-----------------------------------------------------------------------------
(* Steps that change one actor, its account and the innermost call.         *)

LEMMA BridgeParts ==
    ASSUME BridgeInv
    PROVE  /\ Typed /\ Stack(calls) /\ NotAhead(actors, aux, calls, nextInc)
           /\ Books(actors, aux, foreign) /\ Dues(calls, actors, aux, foreign)
           /\ \A s \in Sprites : SavedEven(disk[s])
           /\ calls \in Seq(CallRecord) /\ DOMAIN calls = 1..Len(calls) /\ Len(calls) \in Nat
           /\ nextInc \in Nat /\ nextInc <= MaxInc
           /\ tally \in Tally /\ deferred \in Seq(WaitingWrite)
<1>1. /\ calls \in Seq(CallRecord) /\ nextInc \in 0..MaxInc
      /\ tally \in Tally /\ deferred \in Seq(WaitingWrite)
  BY DEF BridgeInv, Typed
<1> QED
  BY <1>1, SeqFact, NumberFacts DEF BridgeInv

LEMMA At ==
    ASSUME BridgeInv, NEW s \in Sprites
    PROVE  /\ actors[s] \in ActorRecord /\ aux[s] \in CarrierRecord /\ disk[s] \in SaveRecord
           /\ Even(actors[s], aux[s], Unsure(foreign, s), foreign = {})
           /\ actors[s].inc <= nextInc /\ aux[s].bound <= nextInc
           /\ SavedEven(disk[s])
BY BridgeParts, TypedAt DEF Books, NotAhead

LEMMA CallFact ==
    ASSUME NEW f \in CallRecord
    PROVE  /\ f.sprite \in Sprites /\ f.effect \in Effects \cup {None} /\ f.inc \in Nat
           /\ f.change \in Change /\ f.pre \in Word
           /\ f.bridge \in {"award", "write", "save"}
           /\ f.bridge # "save" /\ Asking(f) => Asks(f)
BY DEF CallRecord, Asks, Asking

LEMMA TopFact ==
    ASSUME BridgeInv, CallOpen
    PROVE  /\ Top \in CallRecord /\ Top.sprite \in Sprites /\ Top.effect \in Effects \cup {None}
           /\ Len(calls) \in Nat \ {0} /\ Top = calls[Len(calls)]
           /\ Top.bridge # "save" /\ Top.bridge \in Bridges /\ Asks(Top) /\ Asking(Top)
           /\ Top.inc <= nextInc /\ Top.inc # 0
           /\ \A i \in 1..(Len(calls) - 1) : calls[i].sprite # Top.sprite
           /\ \A i \in 1..Len(calls) : calls[i].bridge # "save"
           /\ foreign = {} => DueIfLive(Top, actors[Top.sprite], aux[Top.sprite])
<1>1. calls \in Seq(CallRecord) /\ calls # <<>> /\ Top.bridge # "save"
  BY BridgeParts DEF CallOpen
<1>2. Top = Last(calls) /\ Last(calls) = calls[Len(calls)] /\ Top \in CallRecord /\ Len(calls) \in Nat \ {0}
  BY <1>1, FrontFact DEF Top
<1>3. PICK n \in Nat : n = Len(calls) /\ n \in 1..n
  BY <1>2
<1>4. Asking(Top) /\ Top.inc <= nextInc /\ (foreign = {} => DueIfLive(Top, actors[Top.sprite], aux[Top.sprite]))
  BY <1>1, <1>2, <1>3, BridgeParts DEF Stack, NotAhead, Dues
<1>5. \A i \in 1..(n - 1) : calls[i].sprite # Top.sprite
  <2> SUFFICES ASSUME NEW i \in 1..(n - 1), calls[i].sprite = Top.sprite PROVE FALSE
    OBVIOUS
  <2>1. i \in 1..n /\ n \in 1..n /\ i # n
    BY <1>3
  <2> QED
    BY <1>1, <1>2, <1>3, <2>1, BridgeParts DEF Stack
<1>6. \A i \in 1..n : calls[i].bridge # "save"
  BY <1>1, <1>2, <1>3, BridgeParts DEF Stack
<1>7. Asks(Top) /\ Top.sprite \in Sprites /\ Top.effect \in Effects \cup {None} /\ Top.bridge \in Bridges
  BY <1>1, <1>2, <1>4, CallFact DEF Bridges
<1>8. Top.inc # 0
  BY <1>4 DEF Asking
<1> QED
  BY <1>1, <1>2, <1>3, <1>4, <1>5, <1>6, <1>7, <1>8

\* One actor and its account are replaced by even ones.
LEMMA OneActor ==
    ASSUME BridgeInv, NEW s \in Sprites, NEW a \in ActorRecord, NEW cr \in CarrierRecord,
           Even(a, cr, Unsure(foreign, s), foreign = {}),
           a.inc = actors[s].inc, cr.bound <= nextInc
    PROVE  /\ [actors EXCEPT ![s] = a] \in [Sprites -> ActorRecord]
           /\ [aux EXCEPT ![s] = cr] \in [Sprites -> CarrierRecord]
           /\ Books([actors EXCEPT ![s] = a], [aux EXCEPT ![s] = cr], foreign)
           /\ \A x \in Sprites : /\ [actors EXCEPT ![s] = a][x].inc = actors[x].inc
                                 /\ [actors EXCEPT ![s] = a][x].inc <= nextInc
                                 /\ [aux EXCEPT ![s] = cr][x].bound <= nextInc
<1>1. actors \in [Sprites -> ActorRecord] /\ aux \in [Sprites -> CarrierRecord]
  BY BridgeParts DEF Typed
<1>2. [actors EXCEPT ![s] = a] \in [Sprites -> ActorRecord] /\ [aux EXCEPT ![s] = cr] \in [Sprites -> CarrierRecord]
  BY <1>1
<1>3. \A x \in Sprites : /\ [actors EXCEPT ![s] = a][x] = IF x = s THEN a ELSE actors[x]
                         /\ [aux EXCEPT ![s] = cr][x] = IF x = s THEN cr ELSE aux[x]
  BY <1>1
<1>4. actors[s].inc <= nextInc
  BY At
<1> QED
  BY <1>2, <1>3, <1>4, At DEF Books

\* The other calls do not see it.
LEMMA OtherDues ==
    ASSUME BridgeInv, NEW s \in Sprites, NEW a, NEW cr, NEW C \in Seq(CallRecord), foreign = {},
           \A i \in 1..Len(C) :
              \/ C[i].sprite = s /\ DueIfLive(C[i], a, cr)
              \/ C[i].sprite # s /\ i \in 1..Len(calls) /\ C[i] = calls[i]
    PROVE  \A i \in 1..Len(C) : DueIfLive(C[i], [actors EXCEPT ![s] = a][C[i].sprite],
                                                [aux EXCEPT ![s] = cr][C[i].sprite])
<1> SUFFICES ASSUME NEW i \in 1..Len(C)
             PROVE  DueIfLive(C[i], [actors EXCEPT ![s] = a][C[i].sprite],
                                    [aux EXCEPT ![s] = cr][C[i].sprite])
  OBVIOUS
<1>1. actors \in [Sprites -> ActorRecord] /\ aux \in [Sprites -> CarrierRecord]
  BY BridgeParts DEF Typed
<1>2. C[i].sprite \in Sprites
  BY SeqFact, CallFact
<1>3. CASE C[i].sprite = s
  <2>1. DueIfLive(C[i], a, cr)
    BY <1>3
  <2>2. [actors EXCEPT ![s] = a][s] = a /\ [aux EXCEPT ![s] = cr][s] = cr
    BY <1>1
  <2> QED
    BY <1>3, <2>1, <2>2
<1>4. CASE C[i].sprite # s
  <2>1. C[i] = calls[i] /\ i \in 1..Len(calls)
    BY <1>4
  <2>2. DueIfLive(calls[i], actors[calls[i].sprite], aux[calls[i].sprite])
    BY <2>1, BridgeParts DEF Dues
  <2>3. [actors EXCEPT ![s] = a][C[i].sprite] = actors[C[i].sprite] /\ [aux EXCEPT ![s] = cr][C[i].sprite] = aux[C[i].sprite]
    BY <1>1, <1>2, <1>4
  <2> QED
    BY <2>1, <2>2, <2>3
<1> QED
  BY <1>3, <1>4

LEMMA FrontStack ==
    ASSUME NEW C \in Seq(CallRecord), C # <<>>, Stack(C)
    PROVE  Stack(Front(C)) /\ Front(C) \in Seq(CallRecord)
<1>1. PICK D : D = Front(C)
  OBVIOUS
<1>2. PICK n \in Nat : n = Len(C) /\ Len(D) = n - 1 /\ \A i \in 1..(n - 1) : D[i] = C[i]
  BY <1>1, FrontFact
<1>3. \A i \in 1..Len(D) : i \in 1..Len(C) /\ D[i] = C[i]
  BY <1>2
<1>4. Stack(D)
  BY <1>3 DEF Stack
<1> QED
  BY <1>1, <1>4, FrontFact

\* The innermost call, of actor s, is answered.
Answered(x) == [calls EXCEPT ![Len(calls)].answer = x]

LEMMA AnsweredFact ==
    ASSUME BridgeInv, CallOpen, NEW x \in {"running", "refused", "passed", "tracked", "stored"}
    PROVE  /\ Answered(x) \in Seq(CallRecord) /\ Len(Answered(x)) = Len(calls)
           /\ Answered(x)[Len(calls)] = [Top EXCEPT !.answer = x]
           /\ [Top EXCEPT !.answer = x] \in CallRecord
           /\ \A i \in 1..(Len(calls) - 1) : Answered(x)[i] = calls[i]
           /\ Stack(Answered(x))
           /\ \A i \in 1..Len(Answered(x)) : Answered(x)[i].inc <= nextInc
<1> DEFINE C == Answered(x)  top == [Top EXCEPT !.answer = x]
<1>1. PICK n \in Nat \ {0} : n = Len(calls) /\ n \in 1..n /\ \A i \in 1..n : i = n \/ i \in 1..(n - 1)
  BY TopFact
<1>2. calls \in Seq(CallRecord) /\ Top \in CallRecord /\ Top = calls[n] /\ DOMAIN calls = 1..n
  BY <1>1, TopFact, BridgeParts
<1>3. /\ top \in CallRecord /\ top.bridge = Top.bridge /\ top.sprite = Top.sprite /\ top.effect = Top.effect
      /\ top.inc = Top.inc /\ top.change = Top.change
  BY <1>2 DEF CallRecord
<1>4. C = [calls EXCEPT ![n] = top]
  BY <1>1, <1>2 DEF Answered
<1> HIDE DEF top
<1>5. C \in Seq(CallRecord) /\ Len(C) = n /\ \A i \in 1..n : C[i] = IF i = n THEN top ELSE calls[i]
  BY <1>1, <1>2, <1>3, <1>4, ExceptSeq
<1>6. \A i \in 1..n : /\ C[i].bridge = calls[i].bridge /\ C[i].sprite = calls[i].sprite /\ C[i].effect = calls[i].effect
                      /\ C[i].inc = calls[i].inc /\ C[i].change = calls[i].change
  BY <1>2, <1>3, <1>5
<1>7. \A i \in 1..n : Asking(calls[i]) => Asking(C[i])
  BY <1>6 DEF Asking
<1>8. Stack(C)
  BY <1>1, <1>5, <1>6, <1>7, BridgeParts DEF Stack
<1>9. \A i \in 1..n : C[i].inc <= nextInc
  BY <1>1, <1>6, BridgeParts DEF NotAhead
<1>10. \A i \in 1..(n - 1) : C[i] = calls[i]
  BY <1>1, <1>5
<1>11. C[n] = top
  BY <1>1, <1>5
<1> HIDE DEF C
<1> QED
  BY <1>1, <1>3, <1>5, <1>8, <1>9, <1>10, <1>11 DEF C, top

\* The innermost call is answered, with this actor and this account.
LEMMA AnswerKeeps ==
    ASSUME BridgeInv, CallOpen, NEW x \in {"running", "refused", "passed", "tracked", "stored"},
           NEW a \in ActorRecord, NEW cr \in CarrierRecord,
           Even(a, cr, Unsure(foreign, Top.sprite), foreign = {}),
           a.inc = actors[Top.sprite].inc, cr.bound <= nextInc,
           foreign = {} => DueIfLive([Top EXCEPT !.answer = x], a, cr),
           actors' = [actors EXCEPT ![Top.sprite] = a], aux' = [aux EXCEPT ![Top.sprite] = cr],
           calls' = Answered(x), foreign' = foreign, nextInc' = nextInc
    PROVE  Core'
<1>1. PICK s \in Sprites : s = Top.sprite
  BY TopFact
<1>2. PICK n \in Nat \ {0} : n = Len(calls) /\ \A i \in 1..n : i = n \/ i \in 1..(n - 1)
  BY TopFact
<1>3. PICK C \in Seq(CallRecord) :
        /\ C = Answered(x) /\ Len(C) = n /\ C[n] = [Top EXCEPT !.answer = x] /\ Stack(C)
        /\ \A i \in 1..(n - 1) : C[i] = calls[i]
        /\ \A i \in 1..n : C[i].inc <= nextInc
  BY <1>2, AnsweredFact
<1>4. C[n].sprite = s
  BY <1>1, <1>3, TopFact DEF CallRecord
<1>5. ASSUME foreign = {}, NEW i \in 1..Len(C)
      PROVE  \/ C[i].sprite = s /\ DueIfLive(C[i], a, cr)
             \/ C[i].sprite # s /\ i \in 1..Len(calls) /\ C[i] = calls[i]
  <2>1. CASE i = n
    BY <1>3, <1>4, <1>5, <2>1
  <2>2. CASE i \in 1..(n - 1)
    <3>1. C[i] = calls[i] /\ calls[i].sprite # s /\ i \in 1..Len(calls)
      BY <1>1, <1>2, <1>3, <2>2, TopFact
    <3> QED
      BY <3>1
  <2> QED
    BY <1>2, <1>3, <2>1, <2>2
<1>6. Even(a, cr, Unsure(foreign, s), foreign = {}) /\ a.inc = actors[s].inc
  BY <1>1
<1>7. /\ [actors EXCEPT ![s] = a] \in [Sprites -> ActorRecord]
      /\ [aux EXCEPT ![s] = cr] \in [Sprites -> CarrierRecord]
      /\ Books([actors EXCEPT ![s] = a], [aux EXCEPT ![s] = cr], foreign)
      /\ \A y \in Sprites : /\ [actors EXCEPT ![s] = a][y].inc <= nextInc
                            /\ [aux EXCEPT ![s] = cr][y].bound <= nextInc
  BY <1>6, OneActor
<1>8. Dues(C, [actors EXCEPT ![s] = a], [aux EXCEPT ![s] = cr], foreign)
  <2> SUFFICES ASSUME foreign = {}
               PROVE  \A i \in 1..Len(C) : DueIfLive(C[i], [actors EXCEPT ![s] = a][C[i].sprite],
                                                           [aux EXCEPT ![s] = cr][C[i].sprite])
    BY DEF Dues
  <2> QED
    BY <1>5, OtherDues
<1>9. NotAhead([actors EXCEPT ![s] = a], [aux EXCEPT ![s] = cr], C, nextInc)
  BY <1>3, <1>7 DEF NotAhead
<1> QED
  BY <1>1, <1>3, <1>7, <1>8, <1>9 DEF Core

\* The innermost call closes: what waited for its actor lands on it.
LEMMA CloseKeeps ==
    ASSUME BridgeInv, CallOpen, NEW a \in ActorRecord, NEW cr \in CarrierRecord,
           NEW writes \in Seq(WaitingWrite), NEW t \in Tally, Close(a, writes, t),
           Even(a, cr, Unsure(foreign, Top.sprite), foreign = {}),
           a.inc = actors[Top.sprite].inc, cr.bound <= nextInc,
           aux' = [aux EXCEPT ![Top.sprite] = cr], foreign' = foreign, nextInc' = nextInc
    PROVE  /\ Core' /\ deferred' \in Seq(WaitingWrite) /\ tally' \in Tally
           /\ Top.sprite \in foreign => actors'[Top.sprite] = a
           /\ \A x \in Sprites : actors'[x].inc = actors[x].inc
           /\ \A x \in Sprites \ {Top.sprite} : actors'[x] = actors[x] /\ aux'[x] = aux[x]
           /\ calls' = Front(calls)
<1>1. PICK s \in Sprites : s = Top.sprite
  BY TopFact
<1>2. PICK b : /\ b \in ActorRecord /\ actors' = [actors EXCEPT ![s] = b] /\ Follows(a, b)
               /\ deferred' \in Seq(WaitingWrite) /\ tally' \in Tally
               /\ (s \in foreign => b = a)
  <2>1. CASE Open(Front(calls), s)
    <3>1. actors' = [actors EXCEPT ![s] = a] /\ deferred' = writes /\ tally' = t
      BY <1>1, <2>1 DEF Close
    <3> QED
      BY <3>1, FollowsSelf
  <2>2. CASE ~Open(Front(calls), s)
    <3>1. PICK x : x = Settling(s, a, writes, t)[Len(writes)]
      OBVIOUS
    <3>2. actors' = [actors EXCEPT ![s] = x.actor] /\ deferred' = x.waiting /\ tally' = x.tally
      BY <1>1, <2>2, <3>1 DEF Close
    <3>3. x \in SettleState /\ Follows(a, x.actor) /\ (s \in foreign => x.actor = a)
      BY <3>1, SettlingFact DEF SettledSoFar
    <3> QED
      BY <3>2, <3>3, StateFact
  <2> QED
    BY <2>1, <2>2
<1>3. calls' = Front(calls)
  BY DEF Close
<1>4. PICK n \in Nat \ {0} : n = Len(calls) /\ calls # <<>>
  BY TopFact DEF CallOpen
<1>5. PICK C \in Seq(CallRecord) : C = Front(calls) /\ Len(C) = n - 1 /\ Stack(C) /\ \A i \in 1..(n - 1) : C[i] = calls[i]
  BY <1>4, FrontFact, FrontStack, BridgeParts
<1>6. \A i \in 1..Len(C) : i \in 1..Len(calls) /\ C[i] = calls[i] /\ C[i].sprite # s
  BY <1>1, <1>4, <1>5, TopFact
<1>7. Even(b, cr, Unsure(foreign, s), foreign = {}) /\ b.inc = actors[s].inc
  <2>1. Even(a, cr, Unsure(foreign, s), foreign = {})
    BY <1>1
  <2>2. b.inc = a.inc
    BY <1>2 DEF Follows
  <2> QED
    BY <1>1, <1>2, <2>1, <2>2, FollowsEven
<1>8. /\ [actors EXCEPT ![s] = b] \in [Sprites -> ActorRecord]
      /\ [aux EXCEPT ![s] = cr] \in [Sprites -> CarrierRecord]
      /\ Books([actors EXCEPT ![s] = b], [aux EXCEPT ![s] = cr], foreign)
      /\ \A y \in Sprites : /\ [actors EXCEPT ![s] = b][y].inc = actors[y].inc
                            /\ [actors EXCEPT ![s] = b][y].inc <= nextInc
                            /\ [aux EXCEPT ![s] = cr][y].bound <= nextInc
  BY <1>2, <1>7, OneActor
<1>9. Dues(C, [actors EXCEPT ![s] = b], [aux EXCEPT ![s] = cr], foreign)
  <2> SUFFICES ASSUME foreign = {}
               PROVE  \A i \in 1..Len(C) : DueIfLive(C[i], [actors EXCEPT ![s] = b][C[i].sprite],
                                                           [aux EXCEPT ![s] = cr][C[i].sprite])
    BY DEF Dues
  <2> QED
    BY <1>6, OtherDues
<1>10. NotAhead([actors EXCEPT ![s] = b], [aux EXCEPT ![s] = cr], C, nextInc)
  BY <1>6, <1>8, BridgeParts DEF NotAhead
<1>11. aux' = [aux EXCEPT ![s] = cr] /\ actors' = [actors EXCEPT ![s] = b] /\ calls' = C
  BY <1>1, <1>2, <1>3, <1>5
<1>12. /\ actors'[s] = b
       /\ \A x \in Sprites \ {s} : actors'[x] = actors[x] /\ aux'[x] = aux[x]
  BY <1>11, BridgeParts DEF Typed
<1> QED
  BY <1>1, <1>2, <1>3, <1>5, <1>8, <1>9, <1>10, <1>11, <1>12 DEF Core

\* One actor and its account change, and no call notices.
LEMMA QuietKeeps ==
    ASSUME BridgeInv, NEW s \in Sprites, NEW a \in ActorRecord, NEW cr \in CarrierRecord,
           Even(a, cr, Unsure(foreign, s), foreign = {}),
           a.inc = actors[s].inc, cr.bound <= nextInc,
           foreign = {} => \A i \in 1..Len(calls) : calls[i].sprite = s => DueIfLive(calls[i], a, cr),
           actors' = [actors EXCEPT ![s] = a], aux' = [aux EXCEPT ![s] = cr],
           calls' = calls, foreign' = foreign, nextInc' = nextInc
    PROVE  Core'
<1>1. /\ [actors EXCEPT ![s] = a] \in [Sprites -> ActorRecord]
      /\ [aux EXCEPT ![s] = cr] \in [Sprites -> CarrierRecord]
      /\ Books([actors EXCEPT ![s] = a], [aux EXCEPT ![s] = cr], foreign)
      /\ \A y \in Sprites : /\ [actors EXCEPT ![s] = a][y].inc <= nextInc
                            /\ [aux EXCEPT ![s] = cr][y].bound <= nextInc
  BY OneActor
<1>2. calls \in Seq(CallRecord)
  BY BridgeParts
<1>3. Dues(calls, [actors EXCEPT ![s] = a], [aux EXCEPT ![s] = cr], foreign)
  <2> SUFFICES ASSUME foreign = {}
               PROVE  \A i \in 1..Len(calls) : DueIfLive(calls[i], [actors EXCEPT ![s] = a][calls[i].sprite],
                                                           [aux EXCEPT ![s] = cr][calls[i].sprite])
    BY DEF Dues
  <2>1. \A i \in 1..Len(calls) :
          \/ calls[i].sprite = s /\ DueIfLive(calls[i], a, cr)
          \/ calls[i].sprite # s /\ i \in 1..Len(calls) /\ calls[i] = calls[i]
    OBVIOUS
  <2> QED
    BY <1>2, <2>1, OtherDues
<1>4. NotAhead([actors EXCEPT ![s] = a], [aux EXCEPT ![s] = cr], calls, nextInc)
  BY <1>1, BridgeParts DEF NotAhead
<1> QED
  BY <1>1, <1>2, <1>3, <1>4, BridgeParts DEF Core

\* No call has published a journal of an actor whose change is not held back.
LEMMA RoutedAlone ==
    ASSUME BridgeInv, NEW s \in Sprites, NEW b, NEW e, Route(s, b, e) # "open", foreign = {},
           NEW i \in 1..Len(calls), calls[i].sprite = s, NEW a, a.inc = actors[s].inc, NEW cr
    PROVE  DueIfLive(calls[i], a, cr)
<1> SUFFICES ASSUME calls[i].bridge # "save", calls[i].inc = actors[s].inc,
                    calls[i].answer \in {"tracked", "stored"}
             PROVE  FALSE
  BY DEF DueIfLive
<1>1. Due(calls[i], actors[s], aux[s]) /\ Asking(calls[i])
  BY BridgeParts DEF Dues, DueIfLive, Stack
<1>2. actors[s].eligible /\ Known(s)
  BY <1>1 DEF Due, Asking, Known
<1>3. ~Saving(s)
  BY BridgeParts DEF Saving, Stack
<1>4. Open(calls, s)
  BY BridgeParts DEF Open
<1> QED
  BY <1>2, <1>3, <1>4 DEF Route, CanMutate

LEMMA ListedFact ==
    ASSUME BridgeInv, NEW e \in Effects
    PROVE  /\ effects[e] \in EffectRecord /\ effects[e].shape \in Change
           /\ effects[e].sprite # None => effects[e].sprite \in Sprites
           /\ e # None
           /\ Ran(e) \in [Effects -> EffectRecord] /\ Completed(e) \in [Effects -> EffectRecord]
           /\ effects \in [Effects -> EffectRecord]
<1>1. effects \in [Effects -> EffectRecord]
  BY BridgeParts DEF Typed
<1>2. effects[e] \in EffectRecord
  BY <1>1
<1>3. effects[e].ran + 1 \in Nat
  BY <1>2 DEF EffectRecord
<1>4. Ran(e) \in [Effects -> EffectRecord]
  <2>1. [effects[e] EXCEPT !.done = TRUE, !.ran = effects[e].ran + 1] \in EffectRecord
    BY <1>2, <1>3 DEF EffectRecord
  <2>2. Ran(e) = [effects EXCEPT ![e] = [effects[e] EXCEPT !.done = TRUE, !.ran = effects[e].ran + 1]]
    BY <1>1 DEF Ran
  <2> QED
    BY <1>1, <2>1, <2>2
<1>5. Completed(e) \in [Effects -> EffectRecord]
  BY <1>1, <1>2 DEF Completed, EffectRecord
<1> QED
  BY <1>1, <1>2, <1>4, <1>5, BridgeAssumption DEF EffectRecord

LEMMA RetryFact ==
    ASSUME BridgeInv
    PROVE  /\ retries \in [Effects -> RetryEntry] /\ NoRetry \in RetryEntry
           /\ \A e \in Effects \cup {None} : Forgotten(e) \in [Effects -> RetryEntry]
           /\ \A e : Purged(e) \in [Effects -> RetryEntry]
<1>1. retries \in [Effects -> RetryEntry] /\ NoRetry \in RetryEntry
  BY BridgeParts DEF Typed, NoRetry, RetryEntry
<1> QED
  BY <1>1 DEF Forgotten, Purged

LEMMA RecordFact ==
    ASSUME BridgeInv
    PROVE  /\ uncertain \in [Bridges -> [Sprites -> Receipt]] /\ NoRecord \in Receipt
           /\ CallOpen => Record(Top) \in [Bridges -> [Sprites -> Receipt]]
           /\ \A s, b, e : b \in Bridges => Swept(s, b, e) \in [Bridges -> [Sprites -> Receipt]]
<1>1. uncertain \in [Bridges -> [Sprites -> Receipt]] /\ NoRecord \in Receipt
  BY BridgeParts DEF Typed, NoRecord, Receipt
<1>2. ASSUME CallOpen PROVE Record(Top) \in [Bridges -> [Sprites -> Receipt]]
  <2>1. PICK b \in Bridges, s \in Sprites, r \in Receipt :
            b = Top.bridge /\ s = Top.sprite /\ r = [inc |-> Top.inc, effect |-> Top.effect]
    BY <1>2, TopFact, CallFact DEF Receipt
  <2>2. Record(Top) = [uncertain EXCEPT ![b][s] = r]
    BY <2>1 DEF Record
  <2>3. [uncertain EXCEPT ![b] = [uncertain[b] EXCEPT ![s] = r]] \in [Bridges -> [Sprites -> Receipt]]
    BY <1>1
  <2> QED
    BY <1>1, <2>2, <2>3
<1>3. ASSUME NEW s, NEW b, NEW e, b \in Bridges PROVE Swept(s, b, e) \in [Bridges -> [Sprites -> Receipt]]
  <2> DEFINE row == [x \in Sprites |-> IF Ended(x, b) /\ (x = s \/ e # None) THEN NoRecord ELSE uncertain[b][x]]
  <2>1. row \in [Sprites -> Receipt]
    BY <1>1, <1>3
  <2>2. Swept(s, b, e) = [uncertain EXCEPT ![b] = row]
    BY <1>1, <1>3 DEF Swept
  <2> HIDE DEF row
  <2> QED
    BY <1>1, <2>1, <2>2
<1> QED
  BY <1>1, <1>2, <1>3
-----------------------------------------------------------------------------
(* Each step keeps the invariant.                                           *)

LEMMA AddEffectKeeps ==
    ASSUME BridgeInv, NEW s \in Sprites, NEW e \in Effects, NEW shape \in Shapes, AddEffect(s, e, shape)
    PROVE  BridgeInv'
<1>1. shape \in Change
  BY BridgeAssumption DEF Change, Modes
<1>2. effects' \in [Effects -> EffectRecord]
  <2>1. [sprite |-> s, shape |-> shape, done |-> FALSE, ran |-> 0] \in EffectRecord
    BY <1>1 DEF EffectRecord
  <2> QED
    BY <2>1, ListedFact DEF AddEffect
<1>3. tally' \in Tally
  BY BridgeParts, TallySteps DEF AddEffect
<1> QED
  BY <1>2, <1>3 DEF AddEffect, BridgeInv, Typed

LEMMA ResolveOriginalKeeps ==
    ASSUME BridgeInv, NEW e \in Effects, ResolveOriginal(e)
    PROVE  BridgeInv'
<1>1. PICK s \in Sprites, c \in Change : s = effects[e].sprite /\ c = effects[e].shape
  BY ListedFact DEF ResolveOriginal, Listed
<1> DEFINE a == OwnStore(actors[s], c)
<1>2. a \in ActorRecord /\ Follows(actors[s], a) /\ a.inc = actors[s].inc
  BY At, OwnStoreFact DEF Follows
<1>3. Even(a, aux[s], Unsure(foreign, s), foreign = {})
  BY <1>2, At, FollowsEven
<1>4. ASSUME foreign = {}, NEW i \in 1..Len(calls), calls[i].sprite = s
      PROVE  DueIfLive(calls[i], a, aux[s])
  <2>1. CASE c.mode = "none"
    <3>1. c.raw = 0 /\ c.mode \notin {"add", "set", "percent", "catchup"}
      BY <2>1, ChangeFact DEF Modes, NoChange
    <3>2. Native(actors[s].word, c) = actors[s].word /\ Signed(c.raw) = 0 /\ ~Replaces(actors[s].word, c)
      BY <2>1, <3>1, NumberFacts DEF Native, Signed, Replaces
    <3>3. a.owed = actors[s].owed /\ a.word = actors[s].word
      <4>1. actors[s] \in ActorRecord /\ actors[s].word \in Nat /\ actors[s].owed \in Int
        BY At, ActorFact
      <4>2. OwedByWord(actors[s], c, actors[s].word) = actors[s].owed
        BY <2>1, <3>2, <4>1 DEF OwedByWord
      <4> QED
        BY <3>2, <4>1, <4>2 DEF OwnStore, ActorRecord
    <3>4. a.replaced = actors[s].replaced /\ a.eligible = actors[s].eligible /\ a.inc = actors[s].inc
      BY <3>2, At DEF OwnStore, ActorRecord
    <3>5. DueIfLive(calls[i], actors[s], aux[s])
      BY <1>4, BridgeParts DEF Dues
    <3> HIDE DEF a
    <3> QED
      BY <3>3, <3>4, <3>5 DEF DueIfLive, Due
  <2>2. CASE c.mode # "none"
    <3>1. Route(s, BridgeOf(c), e) # "open"
      BY <1>1, <2>2 DEF ResolveOriginal
    <3> HIDE DEF a
    <3> QED
      BY <1>2, <1>4, <3>1, RoutedAlone
  <2> QED
    BY <2>1, <2>2
<1>5. /\ actors' = [actors EXCEPT ![s] = a] /\ aux' = [aux EXCEPT ![s] = aux[s]]
      /\ calls' = calls /\ foreign' = foreign /\ nextInc' = nextInc
  BY <1>1, BridgeParts DEF ResolveOriginal, Leaf, Typed
<1> HIDE DEF a
<1>6. Core'
  BY <1>2, <1>3, <1>4, <1>5, At, QuietKeeps
<1>7. effects' \in [Effects -> EffectRecord] /\ retries' \in [Effects -> RetryEntry]
  BY ListedFact, RetryFact DEF ResolveOriginal
<1> QED
  BY <1>6, <1>7 DEF ResolveOriginal, BridgeInv, Core, Typed

LEMMA SetOriginalKeeps ==
    ASSUME BridgeInv, NEW s \in Sprites, NEW c \in Setters, SetOriginal(s, c)
    PROVE  BridgeInv'
<1>1. c \in Change
  BY BridgeAssumption DEF Change, Modes
<1> DEFINE a == OwnStore(actors[s], c)
<1>2. a \in ActorRecord /\ Follows(actors[s], a) /\ a.inc = actors[s].inc
  BY <1>1, At, OwnStoreFact DEF Follows
<1>3. Even(a, aux[s], Unsure(foreign, s), foreign = {})
  BY <1>2, At, FollowsEven
<1>4. Route(s, "write", None) # "open"
  BY DEF SetOriginal
<1>5. /\ actors' = [actors EXCEPT ![s] = a] /\ aux' = [aux EXCEPT ![s] = aux[s]]
      /\ calls' = calls /\ foreign' = foreign /\ nextInc' = nextInc
  BY BridgeParts DEF SetOriginal, Typed
<1> HIDE DEF a
<1>6. ASSUME foreign = {}, NEW i \in 1..Len(calls), calls[i].sprite = s
      PROVE  DueIfLive(calls[i], a, aux[s])
  BY <1>2, <1>4, <1>6, RoutedAlone
<1>7. Core'
  BY <1>2, <1>3, <1>5, <1>6, At, QuietKeeps
<1>8. tally' \in Tally
  BY BridgeParts, TallySteps DEF SetOriginal
<1> QED
  BY <1>7, <1>8 DEF SetOriginal, BridgeInv, Core, Typed

LEMMA SetDeferredKeeps ==
    ASSUME BridgeInv, NEW s \in Sprites, NEW c \in Setters, SetDeferred(s, c)
    PROVE  BridgeInv'
<1>1. c \in Change
  BY BridgeAssumption DEF Change, Modes
<1>2. actors[s].inc \in Nat
  BY At, ActorFact
<1>3. [sprite |-> s, inc |-> actors[s].inc, change |-> c, kept |-> FALSE] \in WaitingWrite
  BY <1>1, <1>2 DEF WaitingWrite
<1>4. deferred' \in Seq(WaitingWrite)
  BY <1>3, BridgeParts, AddFact DEF SetDeferred, Typed
<1>5. tally' \in Tally
  BY BridgeParts, TallySteps DEF SetDeferred
<1> QED
  BY <1>4, <1>5 DEF SetDeferred, BridgeInv, Typed

LEMMA EnterKeeps ==
    ASSUME BridgeInv, NEW s \in Sprites, NEW b \in Bridges, NEW e \in Effects \cup {None}, NEW c \in Change,
           c.mode # "none", b = "award" => IsAward(c), e = None => b = "write",
           Route(s, b, e) = "enter", Enter(s, b, e, c),
           UNCHANGED <<actors, aux, foreign, nextInc>>
    PROVE  Core' /\ uncertain' \in [Bridges -> [Sprites -> Receipt]]
<1> DEFINE f == [bridge |-> b, sprite |-> s, effect |-> e, inc |-> actors[s].inc, change |-> c,
                 pre |-> actors[s].word, answer |-> "running"]
<1>1. CanMutate(s, actors[s].inc) /\ ~Open(calls, s)
  BY DEF Route
<1>2. foreign = {} /\ actors[s].inc # 0 /\ ~Saving(s)
  BY <1>1, CalmFact
<1>3. f \in CallRecord /\ Asking(f) /\ f.inc <= nextInc
  BY <1>2, At, ActorFact DEF CallRecord, Asking, Bridges
<1>4. f.bridge # "save" /\ f.sprite = s /\ f.answer = "running"
  BY DEF Bridges
<1>5. calls' = Append(calls, f) /\ uncertain' = Swept(s, b, e)
  BY DEF Enter
<1> HIDE DEF f
<1>6. calls \in Seq(CallRecord) /\ Len(calls) \in Nat
  BY BridgeParts
<1> DEFINE n == Len(calls)  C == Append(calls, f)
<1>7. /\ C \in Seq(CallRecord) /\ Len(C) = n + 1 /\ C[n + 1] = f /\ n \in Nat
      /\ (\A i \in 1..n : C[i] = calls[i]) /\ DOMAIN calls = 1..n
  BY <1>3, <1>6, AddFact, BridgeParts
<1> HIDE DEF n, C
<1>8. \A i \in 1..(n + 1) : i = n + 1 \/ i \in 1..n
  BY <1>7
<1>9. \A i \in 1..n : calls[i].bridge # "save" /\ calls[i].sprite # s /\ Asking(calls[i]) /\ calls[i].inc <= nextInc
  <2>1. \A i \in 1..n : calls[i].bridge # "save"
    BY <1>2, <1>7 DEF Saving
  <2>2. \A i \in 1..n : calls[i].sprite # s
    BY <1>1, <1>7, <2>1 DEF Open
  <2> QED
    BY <2>1, <2>2, BridgeParts DEF Stack, NotAhead, n
<1>10. Stack(C)
  <2>1. \A i \in 1..(n + 1) : C[i].bridge # "save" /\ Asking(C[i])
    BY <1>3, <1>4, <1>7, <1>8, <1>9
  <2>2. ASSUME NEW i \in 1..(n + 1), NEW j \in 1..(n + 1), C[i].sprite = C[j].sprite PROVE i = j
    <3>1. CASE i \in 1..n /\ j \in 1..n
      BY <1>7, <1>9, <2>2, <3>1, BridgeParts DEF Stack, n
    <3>2. CASE i = n + 1
      BY <1>4, <1>7, <1>8, <1>9, <2>2, <3>2
    <3>3. CASE j = n + 1
      BY <1>4, <1>7, <1>8, <1>9, <2>2, <3>3
    <3> QED
      BY <1>8, <3>1, <3>2, <3>3
  <2> QED
    BY <1>7, <2>1, <2>2 DEF Stack
<1>11. NotAhead(actors, aux, C, nextInc)
  BY <1>3, <1>7, <1>8, <1>9, BridgeParts DEF NotAhead
<1>12. Dues(C, actors, aux, foreign)
  <2>1. \A i \in 1..n : DueIfLive(C[i], actors[C[i].sprite], aux[C[i].sprite])
    BY <1>2, <1>7, BridgeParts DEF Dues, n
  <2>2. DueIfLive(C[n + 1], actors[C[n + 1].sprite], aux[C[n + 1].sprite])
    BY <1>4, <1>7 DEF DueIfLive
  <2> QED
    BY <1>7, <1>8, <2>1, <2>2 DEF Dues
<1> QED
  BY <1>5, <1>7, <1>10, <1>11, <1>12, BridgeParts, RecordFact DEF C, Core, BridgeInv, Typed

LEMMA EnterEffectKeeps ==
    ASSUME BridgeInv, NEW e \in Effects, EnterEffect(e)
    PROVE  BridgeInv'
<1>1. PICK s \in Sprites, c \in Change : s = effects[e].sprite /\ c = effects[e].shape
  BY ListedFact DEF EnterEffect, Listed
<1>2. PICK b \in Bridges : b = BridgeOf(c)
  BY DEF BridgeOf, Bridges
<1>3. c.mode # "none" /\ (b = "award" => IsAward(c)) /\ e # None /\ Route(s, b, e) = "enter" /\ Enter(s, b, e, c)
  BY <1>1, <1>2, ListedFact DEF EnterEffect, BridgeOf
<1>4. UNCHANGED <<actors, aux, foreign, nextInc>>
  BY DEF EnterEffect
<1>5. Core' /\ uncertain' \in [Bridges -> [Sprites -> Receipt]]
  BY <1>3, <1>4, EnterKeeps
<1> QED
  BY <1>5 DEF EnterEffect, BridgeInv, Core, Typed

LEMMA EnterSetKeeps ==
    ASSUME BridgeInv, NEW s \in Sprites, NEW c \in Setters, EnterSet(s, c)
    PROVE  BridgeInv'
<1>1. c \in Change /\ c.mode # "none"
  BY BridgeAssumption DEF Change, Modes
<1>2. Route(s, "write", None) = "enter" /\ Enter(s, "write", None, c)
  BY DEF EnterSet
<1>3. UNCHANGED <<actors, aux, foreign, nextInc>> /\ None \in Effects \cup {None} /\ "write" \in Bridges
  BY DEF EnterSet, Bridges
<1>4. "write" # "award"
  OBVIOUS
<1>5. Core' /\ uncertain' \in [Bridges -> [Sprites -> Receipt]]
  BY <1>1, <1>2, <1>3, <1>4, EnterKeeps
<1>6. tally' \in Tally
  BY BridgeParts, TallySteps DEF EnterSet
<1> QED
  BY <1>5, <1>6 DEF EnterSet, BridgeInv, Core, Typed

\* The account brought up to date with the word.
LEMMA RefreshKeeps ==
    ASSUME BridgeInv, NEW s \in Sprites, NEW cr \in CarrierRecord, Even(actors[s], cr, FALSE, TRUE), Refreshable(s, cr)
    PROVE  \E a \in ActorRecord, new \in CarrierRecord :
              /\ a = [actors[s] EXCEPT !.replaced = FALSE] /\ new = Refreshed(s, cr)
              /\ Noted(s) = [actors EXCEPT ![s] = a]
              /\ a.inc = actors[s].inc /\ a.inc # 0 /\ a.eligible /\ ~a.replaced /\ a.word = actors[s].word
              /\ new.present /\ ~new.excluded /\ new.bound = a.inc /\ new.bound <= nextInc
              /\ ~Pending(new) /\ ~new.journal.later
              /\ a.owed - a.word = new.account.overflow
              /\ \A u, calm : Even(a, new, u, calm)
              /\ foreign = {}
<1>0. Typed
  BY BridgeParts
<1>1. foreign = {} /\ actors[s].inc # 0 /\ actors[s].eligible /\ actors[s].inc <= nextInc
  BY CalmFact, At DEF Refreshable
<1>2. PICK a \in ActorRecord :
        /\ a = [actors[s] EXCEPT !.replaced = FALSE] /\ Noted(s) = [actors EXCEPT ![s] = a]
        /\ a.inc = actors[s].inc /\ a.eligible = actors[s].eligible /\ ~a.replaced
        /\ a.word = actors[s].word /\ a.owed = actors[s].owed
  BY <1>0, NotedFact
<1>3. PICK new \in CarrierRecord :
        /\ new = Refreshed(s, cr) /\ new.present /\ ~new.excluded /\ new.bound = actors[s].inc
        /\ ~Pending(new) /\ ~new.journal.later
        /\ actors[s].owed - actors[s].word = new.account.overflow
  BY <1>0, RefreshedFact
<1>4. ASSUME NEW u, NEW calm PROVE Even(a, new, u, calm)
  BY <1>1, <1>2, <1>3, EvenExact
<1> QED
  BY <1>1, <1>2, <1>3, <1>4

LEMMA RefuseKeeps ==
    ASSUME BridgeInv, Refuse
    PROVE  BridgeInv'
<1>1. CallOpen /\ calls' = Answered("refused")
  BY DEF Refuse, Answer, Answered
<1>2. PICK s \in Sprites : s = Top.sprite
  BY <1>1, TopFact
<1>3. PICK f : f = [Top EXCEPT !.answer = "refused"]
  OBVIOUS
<1>4. \A a, cr : DueIfLive(f, a, cr)
  BY <1>1, <1>3, TopFact DEF DueIfLive, CallRecord
<1>5. foreign' = foreign /\ nextInc' = nextInc
  BY DEF Refuse
<1>6. \E a \in ActorRecord, cr \in CarrierRecord :
        /\ actors' = [actors EXCEPT ![s] = a] /\ aux' = [aux EXCEPT ![s] = cr]
        /\ Even(a, cr, Unsure(foreign, s), foreign = {}) /\ a.inc = actors[s].inc /\ cr.bound <= nextInc
  <2>1. CASE UNCHANGED <<aux, actors>>
    <3>1. actors' = [actors EXCEPT ![s] = actors[s]] /\ aux' = [aux EXCEPT ![s] = aux[s]]
      BY <2>1, BridgeParts DEF Typed
    <3> QED
      BY <3>1, At
  <2>2. CASE CanMutate(s, actors[s].inc) /\ aux' = [aux EXCEPT ![s] = Inherited(s)] /\ UNCHANGED actors
    <3>1. foreign = {}
      BY <2>2, CalmFact
    <3>2. Inherited(s) \in CarrierRecord /\ Inherited(s).bound <= nextInc /\ Even(actors[s], Inherited(s), Unsure(foreign, s), foreign = {})
      BY <3>1, At, BridgeParts, InheritedFact
    <3>3. actors' = [actors EXCEPT ![s] = actors[s]]
      BY <2>2, BridgeParts DEF Typed
    <3> QED
      BY <2>2, <3>2, <3>3, At
  <2>3. CASE Refreshable(s, Inherited(s)) /\ aux' = [aux EXCEPT ![s] = Refreshed(s, Inherited(s))] /\ actors' = Noted(s)
    <3>1. foreign = {}
      BY <2>3, CalmFact DEF Refreshable
    <3>2. Inherited(s) \in CarrierRecord /\ Even(actors[s], Inherited(s), FALSE, TRUE)
      BY <3>1, At, BridgeParts, InheritedFact
    <3>3. PICK a \in ActorRecord, new \in CarrierRecord :
              /\ new = Refreshed(s, Inherited(s)) /\ Noted(s) = [actors EXCEPT ![s] = a]
              /\ a.inc = actors[s].inc /\ new.bound <= nextInc
              /\ \A u, calm : Even(a, new, u, calm)
      BY <2>3, <3>2, RefreshKeeps
    <3>4. actors' = [actors EXCEPT ![s] = a] /\ aux' = [aux EXCEPT ![s] = new]
      BY <2>3, <3>3
    <3> QED
      BY <3>3, <3>4
  <2> QED
    BY <1>2, <2>1, <2>2, <2>3 DEF Refuse
<1>7. PICK a \in ActorRecord, cr \in CarrierRecord :
        /\ actors' = [actors EXCEPT ![s] = a] /\ aux' = [aux EXCEPT ![s] = cr]
        /\ Even(a, cr, Unsure(foreign, s), foreign = {}) /\ a.inc = actors[s].inc /\ cr.bound <= nextInc
  BY <1>6
<1>8. Core'
  BY <1>1, <1>2, <1>3, <1>4, <1>5, <1>7, AnswerKeeps
<1> QED
  BY <1>8 DEF Refuse, BridgeInv, Core, Typed

LEMMA PassOnKeeps ==
    ASSUME BridgeInv, PassOn
    PROVE  BridgeInv'
<1>1. CallOpen /\ calls' = Answered("passed")
  BY DEF PassOn, Answer, Answered
<1>2. PICK s \in Sprites : s = Top.sprite
  BY <1>1, TopFact
<1>3. PICK f : f = [Top EXCEPT !.answer = "passed"]
  OBVIOUS
<1>4. \A a, cr : DueIfLive(f, a, cr)
  BY <1>1, <1>3, TopFact DEF DueIfLive, CallRecord
<1>5. foreign' = foreign /\ nextInc' = nextInc /\ actors' = [actors EXCEPT ![s] = actors[s]]
  BY BridgeParts DEF PassOn, Typed
<1>6. PICK cr \in CarrierRecord :
        /\ aux' = [aux EXCEPT ![s] = cr]
        /\ Even(actors[s], cr, Unsure(foreign, s), foreign = {}) /\ cr.bound <= nextInc
  <2>1. CASE UNCHANGED aux
    <3>1. aux' = [aux EXCEPT ![s] = aux[s]]
      BY <2>1, BridgeParts DEF Typed
    <3> QED
      BY <3>1, At
  <2>2. CASE aux' = [aux EXCEPT ![s] = Inherited(s)]
    <3>1. foreign = {}
      BY <1>2, CalmFact DEF PassOn
    <3>2. Inherited(s) \in CarrierRecord /\ Inherited(s).bound <= nextInc /\ Even(actors[s], Inherited(s), Unsure(foreign, s), foreign = {})
      BY <3>1, At, BridgeParts, InheritedFact
    <3> QED
      BY <2>2, <3>2
  <2> QED
    BY <1>2, <2>1, <2>2 DEF PassOn
<1>7. actors[s] \in ActorRecord
  BY At
<1>8. Core'
  BY <1>1, <1>2, <1>3, <1>4, <1>5, <1>6, <1>7, AnswerKeeps
<1> QED
  BY <1>8 DEF PassOn, BridgeInv, Core, Typed

LEMMA WithAnswer ==
    ASSUME NEW f \in CallRecord, NEW x \in {"running", "refused", "passed", "tracked", "stored"}
    PROVE  LET g == [f EXCEPT !.answer = x] IN
           /\ g.answer = x /\ g.inc = f.inc /\ g.bridge = f.bridge /\ g.pre = f.pre
           /\ g.change = f.change /\ g.effect = f.effect /\ g.sprite = f.sprite
BY DEF CallRecord

LEMMA WithJournal ==
    ASSUME NEW cr \in CarrierRecord, NEW j \in JournalRecord
    PROVE  LET new == [cr EXCEPT !.journal = j] IN
           /\ new \in CarrierRecord /\ new.present = cr.present /\ new.excluded = cr.excluded
           /\ new.bound = cr.bound /\ new.account = cr.account /\ new.journal = j
BY DEF CarrierRecord

LEMMA TrackKeeps ==
    ASSUME BridgeInv, Track
    PROVE  BridgeInv'
<1>1. CallOpen /\ calls' = Answered("tracked")
  BY DEF Track, Answer, Answered
<1>2. PICK s \in Sprites : s = Top.sprite
  BY <1>1, TopFact
<1>3. /\ Refreshable(s, Inherited(s)) /\ actors[s].inc = Top.inc /\ actors[s].word = Top.pre
      /\ Fits(Top.bridge, Refreshed(s, Inherited(s)).account, Top.pre, Top.change)
      /\ actors' = Noted(s)
      /\ aux' = [aux EXCEPT ![s] = [Refreshed(s, Inherited(s)) EXCEPT
                                      !.journal = Journal(Top, Refreshed(s, Inherited(s)).account)]]
      /\ foreign' = foreign /\ nextInc' = nextInc
  BY <1>2 DEF Track
<1>4. foreign = {}
  BY <1>3, CalmFact DEF Refreshable
<1>5. Inherited(s) \in CarrierRecord /\ Even(actors[s], Inherited(s), FALSE, TRUE)
  BY <1>4, At, BridgeParts, InheritedFact
<1>6. PICK a \in ActorRecord, new \in CarrierRecord :
              /\ a = [actors[s] EXCEPT !.replaced = FALSE] /\ new = Refreshed(s, Inherited(s))
              /\ Noted(s) = [actors EXCEPT ![s] = a]
              /\ a.inc = actors[s].inc /\ a.inc # 0 /\ a.eligible /\ ~a.replaced /\ a.word = actors[s].word
              /\ new.present /\ ~new.excluded /\ new.bound = a.inc /\ new.bound <= nextInc
              /\ ~Pending(new) /\ ~new.journal.later
              /\ a.owed - a.word = new.account.overflow
              /\ \A u, calm : Even(a, new, u, calm)
  BY <1>3, <1>5, RefreshKeeps
<1>7. PICK j \in JournalRecord : j = Journal(Top, new.account) /\ ~j.later
  BY <1>1, <1>3, <1>6, CarrierFact, TopFact, JournalFact
<1>8. PICK cr \in CarrierRecord : /\ cr = [new EXCEPT !.journal = j]
                                  /\ cr.present /\ ~cr.excluded /\ cr.bound = a.inc /\ cr.account = new.account
                                  /\ cr.journal = j
  <2> DEFINE x == [new EXCEPT !.journal = j]
  <2>1. /\ x \in CarrierRecord /\ x.present = new.present /\ x.excluded = new.excluded
        /\ x.bound = new.bound /\ x.account = new.account /\ x.journal = j
    BY WithJournal
  <2> HIDE DEF x
  <2>2. x.present /\ ~x.excluded /\ x.bound = a.inc
    BY <1>6, <2>1
  <2> QED
    BY <2>1, <2>2 DEF x
<1>9. Even(a, cr, Unsure(foreign, s), foreign = {})
  BY <1>6, <1>7, <1>8, EvenExact
<1>10. PICK f : /\ f = [Top EXCEPT !.answer = "tracked"] /\ f.answer = "tracked" /\ f.inc = Top.inc
                /\ f.bridge = Top.bridge /\ f.pre = Top.pre /\ f.change = Top.change
  <2> DEFINE x == [Top EXCEPT !.answer = "tracked"]
  <2>1. Top \in CallRecord
    BY <1>1, TopFact
  <2>2. /\ x.answer = "tracked" /\ x.inc = Top.inc /\ x.bridge = Top.bridge /\ x.pre = Top.pre
        /\ x.change = Top.change
    BY <2>1, WithAnswer
  <2> HIDE DEF x
  <2> QED
    BY <2>2 DEF x
<1>11. Journal(f, cr.account) = j
  BY <1>7, <1>8, <1>10 DEF Journal
<1>12. Due(f, a, cr)
  BY <1>3, <1>6, <1>8, <1>10, <1>11 DEF Due
<1>13. DueIfLive(f, a, cr)
  BY <1>12 DEF DueIfLive
<1>14. actors' = [actors EXCEPT ![s] = a] /\ aux' = [aux EXCEPT ![s] = cr] /\ cr.bound <= nextInc
  BY <1>3, <1>6, <1>7, <1>8
<1>15. Core'
  <2>1. /\ Even(a, cr, Unsure(foreign, Top.sprite), foreign = {})
        /\ a.inc = actors[Top.sprite].inc
        /\ actors' = [actors EXCEPT ![Top.sprite] = a] /\ aux' = [aux EXCEPT ![Top.sprite] = cr]
    BY <1>2, <1>6, <1>9, <1>14
  <2>2. DueIfLive([Top EXCEPT !.answer = "tracked"], a, cr) /\ foreign' = foreign /\ nextInc' = nextInc
    BY <1>3, <1>10, <1>13
  <2> QED
    BY <1>1, <1>14, <2>1, <2>2, AnswerKeeps
<1> QED
  BY <1>15 DEF Track, BridgeInv, Core, Typed
-----------------------------------------------------------------------------
(* Closing.                                                                 *)

\* A call never stores into an actor that may be another one.
Untouched == Top.sprite \in foreign => actors'[Top.sprite] = actors[Top.sprite]

LEMMA LiveFact ==
    ASSUME NEW s, NEW inc, Lifetime(s, inc) > 0
    PROVE  actors[s].inc = inc /\ s \notin foreign /\ ~ForeignAt(s)
<1>1. actors[s].inc = inc
  BY DEF Lifetime
<1>2. ~ForeignAt(s)
  BY <1>1 DEF Lifetime
<1> QED
  BY <1>1, <1>2 DEF ForeignAt

LEMMA RetainedFact ==
    ASSUME BridgeInv, CallOpen, NEW cr \in Retained(Top)
    PROVE  /\ cr \in CarrierRecord /\ cr.bound <= nextInc
           /\ Even(actors[Top.sprite], cr, Unsure(foreign, Top.sprite), foreign = {})
<1>1. PICK s \in Sprites : s = Top.sprite
  BY TopFact
<1>2. CASE cr = aux[s]
  BY <1>1, <1>2, At
<1>3. CASE Pending(aux[s]) /\ cr = [aux[s] EXCEPT !.journal.stage = "uncertain"]
  BY <1>1, <1>3, At, EvenUncertain
<1> QED
  BY <1>1, <1>2, <1>3 DEF Retained

\* A withdrawn journal leaves the account that the word still matches.
LEMMA WithdrawnFact ==
    ASSUME BridgeInv, CallOpen, Top.answer = "tracked", Matching(Top)
    PROVE  /\ Withdrawn(Top) \in CarrierRecord /\ Withdrawn(Top).bound <= nextInc
           /\ Even(actors[Top.sprite], Withdrawn(Top), Unsure(foreign, Top.sprite), foreign = {})
<1>1. PICK s \in Sprites : s = Top.sprite
  BY TopFact
<1>2. foreign = {} /\ actors[s].inc = Top.inc /\ actors[s].inc # 0
  BY <1>1, CalmFact DEF Matching
<1>3. Due(Top, actors[s], aux[s])
  BY <1>1, <1>2, TopFact DEF DueIfLive
<1>4. /\ aux[s].present /\ aux[s].bound = actors[s].inc /\ ~actors[s].replaced
      /\ actors[s].owed - actors[s].word = aux[s].account.overflow
  BY <1>2, <1>3 DEF Due
<1> DEFINE new == [aux[s] EXCEPT !.journal = NoJournal]
<1>5. /\ new \in CarrierRecord /\ new.present = aux[s].present
      /\ new.bound = aux[s].bound /\ new.account = aux[s].account /\ new.journal = NoJournal
  BY At, NoCarrierFact, WithJournal
<1>6. new = Withdrawn(Top)
  BY <1>1 DEF Withdrawn
<1> HIDE DEF new
<1>7. ~new.journal.later /\ new.bound <= nextInc /\ actors[s] \in ActorRecord
  BY <1>5, NoCarrierFact, At
<1>8. Even(actors[s], new, Unsure(foreign, s), foreign = {})
  BY <1>2, <1>4, <1>5, <1>7, EvenExact
<1> QED
  BY <1>1, <1>5, <1>6, <1>7, <1>8

LEMMA StoredFact ==
    ASSUME BridgeInv
    PROVE  /\ tally \in Tally /\ Stored(tally) \in Tally
           /\ [tally EXCEPT !.ended = @ + 1] \in Tally
BY BridgeParts, TallyFact DEF Stored

LEMMA CloseOriginalKeeps ==
    ASSUME BridgeInv, CallOpen, Lifetime(Top.sprite, Top.inc) > 0, NEW cr \in CarrierRecord,
           Even(actors[Top.sprite], cr, Unsure(foreign, Top.sprite), foreign = {}), cr.bound <= nextInc,
           aux' = [aux EXCEPT ![Top.sprite] = cr], foreign' = foreign, nextInc' = nextInc,
           CloseOriginal
    PROVE  /\ Core' /\ deferred' \in Seq(WaitingWrite) /\ tally' \in Tally
           /\ effects' \in [Effects -> EffectRecord] /\ retries' \in [Effects -> RetryEntry]
           /\ Untouched
<1>1. PICK s \in Sprites, e \in Effects \cup {None} : s = Top.sprite /\ e = Top.effect /\ Top.change \in Change
  BY TopFact, CallFact
<1>2. PICK c \in Change, t \in Tally :
        /\ Close(OwnStore(actors[s], c), deferred, t)
        /\ effects' \in [Effects -> EffectRecord] /\ retries' \in [Effects -> RetryEntry]
  <2>1. CASE e = None
    <3>1. Close(OwnStore(actors[s], Top.change), deferred, Stored(tally)) /\ UNCHANGED <<effects, retries>>
      BY <1>1, <2>1 DEF CloseOriginal
    <3>2. effects \in [Effects -> EffectRecord] /\ retries \in [Effects -> RetryEntry] /\ Stored(tally) \in Tally
      BY BridgeParts, StoredFact DEF Typed
    <3> QED
      BY <1>1, <3>1, <3>2
  <2>2. CASE e # None
    <3>1. Close(OwnStore(actors[s], effects[e].shape), deferred, tally) /\ effects' = Ran(e) /\ retries' = Forgotten(e)
      BY <1>1, <2>2 DEF CloseOriginal, Leaf
    <3>2. /\ effects[e].shape \in Change /\ tally \in Tally
          /\ Ran(e) \in [Effects -> EffectRecord] /\ Forgotten(e) \in [Effects -> RetryEntry]
      BY <1>1, <2>2, BridgeParts, ListedFact, RetryFact
    <3> QED
      BY <3>1, <3>2
  <2> QED
    BY <2>1, <2>2
<1>3. PICK a \in ActorRecord : a = OwnStore(actors[s], c) /\ Follows(actors[s], a) /\ a.inc = actors[s].inc
  <2>1. OwnStore(actors[s], c) \in ActorRecord /\ Follows(actors[s], OwnStore(actors[s], c))
    BY At, OwnStoreFact
  <2> QED
    BY <2>1 DEF Follows
<1>4. Even(a, cr, Unsure(foreign, s), foreign = {})
  BY <1>1, <1>3, At, FollowsEven
<1>5. deferred \in Seq(WaitingWrite) /\ s \notin foreign
  BY <1>1, BridgeParts, LiveFact
<1>6. Even(a, cr, Unsure(foreign, Top.sprite), foreign = {}) /\ a.inc = actors[Top.sprite].inc /\ Close(a, deferred, t)
  BY <1>1, <1>2, <1>3, <1>4
<1>7. Core' /\ deferred' \in Seq(WaitingWrite) /\ tally' \in Tally
  BY <1>5, <1>6, CloseKeeps
<1> QED
  BY <1>1, <1>2, <1>5, <1>7 DEF Untouched

LEMMA CloseAsIs ==
    ASSUME BridgeInv, CallOpen, NEW cr \in CarrierRecord, NEW writes \in Seq(WaitingWrite), NEW t \in Tally,
           Even(actors[Top.sprite], cr, Unsure(foreign, Top.sprite), foreign = {}), cr.bound <= nextInc,
           aux' = [aux EXCEPT ![Top.sprite] = cr], foreign' = foreign, nextInc' = nextInc,
           Close(actors[Top.sprite], writes, t)
    PROVE  Core' /\ deferred' \in Seq(WaitingWrite) /\ tally' \in Tally /\ Untouched
<1>1. actors[Top.sprite] \in ActorRecord
  BY TopFact, At
<1> QED
  BY <1>1, CloseKeeps DEF Untouched

LEMMA AuxStays ==
    ASSUME BridgeInv, CallOpen, UNCHANGED aux
    PROVE  /\ aux' = [aux EXCEPT ![Top.sprite] = aux[Top.sprite]] /\ aux[Top.sprite] \in CarrierRecord
           /\ aux[Top.sprite].bound <= nextInc
           /\ Even(actors[Top.sprite], aux[Top.sprite], Unsure(foreign, Top.sprite), foreign = {})
BY BridgeParts, TopFact, At DEF Typed

LEMMA CloseUnknownKeeps ==
    ASSUME BridgeInv, CloseUnknown
    PROVE  BridgeInv' /\ Untouched
<1>1. CallOpen /\ UNCHANGED aux /\ foreign' = foreign /\ nextInc' = nextInc
  BY DEF CloseUnknown, Asked
<1>2. PICK s \in Sprites, e \in Effects \cup {None} : /\ s = Top.sprite /\ e = Top.effect
                              /\ Top.change \in Change /\ Top.inc \in Nat
  BY <1>1, TopFact, CallFact
<1>3. PICK w \in Seq(WaitingWrite) :
        /\ Close(actors[s], w, tally)
        /\ effects' \in [Effects -> EffectRecord] /\ retries' \in [Effects -> RetryEntry]
  <2>1. CASE e = None
    <3> DEFINE d == [sprite |-> s, inc |-> Top.inc, change |-> Top.change, kept |-> TRUE]
    <3>1. d \in WaitingWrite
      BY <1>2 DEF WaitingWrite
    <3>2. Append(deferred, d) \in Seq(WaitingWrite)
      BY <3>1, BridgeParts, AddFact
    <3>3. Close(actors[s], Append(deferred, d), tally) /\ UNCHANGED <<effects, retries>>
      BY <1>2, <2>1 DEF CloseUnknown
    <3>4. effects \in [Effects -> EffectRecord] /\ retries \in [Effects -> RetryEntry]
      BY BridgeParts DEF Typed
    <3> HIDE DEF d
    <3> QED
      BY <3>2, <3>3, <3>4
  <2>2. CASE e # None
    <3>1. /\ Close(actors[s], deferred, tally)
          /\ \/ effects' = Completed(e) /\ retries' = Forgotten(e)
             \/ UNCHANGED <<effects, retries>>
      BY <1>2, <2>2 DEF CloseUnknown
    <3>2. /\ effects \in [Effects -> EffectRecord] /\ retries \in [Effects -> RetryEntry]
          /\ Completed(e) \in [Effects -> EffectRecord] /\ Forgotten(e) \in [Effects -> RetryEntry]
          /\ deferred \in Seq(WaitingWrite)
      BY <1>2, <2>2, BridgeParts, ListedFact, RetryFact
    <3> QED
      BY <3>1, <3>2
  <2> QED
    BY <2>1, <2>2
<1>4. tally \in Tally
  BY BridgeParts
<1>5. Core' /\ deferred' \in Seq(WaitingWrite) /\ tally' \in Tally /\ Untouched
  BY <1>1, <1>2, <1>3, <1>4, AuxStays, CloseAsIs
<1>6. uncertain' \in [Bridges -> [Sprites -> Receipt]]
  BY <1>1, RecordFact DEF CloseUnknown
<1> QED
  BY <1>3, <1>5, <1>6 DEF CloseUnknown, BridgeInv, Core, Typed

LEMMA CloseEndedKeeps ==
    ASSUME BridgeInv, CloseEnded
    PROVE  BridgeInv' /\ Untouched
<1>1. CallOpen /\ UNCHANGED aux /\ foreign' = foreign /\ nextInc' = nextInc
  BY DEF CloseEnded, Asked
<1>2. PICK t \in Tally : Close(actors[Top.sprite], deferred, t)
  BY StoredFact DEF CloseEnded
<1>3. deferred \in Seq(WaitingWrite)
  BY BridgeParts
<1>4. Core' /\ deferred' \in Seq(WaitingWrite) /\ tally' \in Tally /\ Untouched
  BY <1>1, <1>2, <1>3, AuxStays, CloseAsIs
<1>5. retries' \in [Effects -> RetryEntry]
  BY <1>1, TopFact, RetryFact DEF CloseEnded
<1> QED
  BY <1>4, <1>5 DEF CloseEnded, BridgeInv, Core, Typed

LEMMA CloseJournalledKeeps ==
    ASSUME BridgeInv, CloseJournalled
    PROVE  BridgeInv' /\ Untouched
<1>1. CallOpen /\ foreign' = foreign /\ nextInc' = nextInc /\ Lifetime(Top.sprite, Top.inc) > 0
  BY DEF CloseJournalled, Asked
<1>2. PICK s \in Sprites, e \in Effects \cup {None} : /\ s = Top.sprite /\ e = Top.effect
                              /\ Top.change \in Change
  BY <1>1, TopFact, CallFact
<1>3. PICK cr \in Retained(Top) : aux' = [aux EXCEPT ![s] = cr]
  BY <1>2 DEF CloseJournalled
<1>4. cr \in CarrierRecord /\ cr.bound <= nextInc /\ Even(actors[s], cr, Unsure(foreign, s), foreign = {})
  BY <1>1, <1>2, <1>3, RetainedFact
<1>5. s \notin foreign
  BY <1>1, <1>2, LiveFact
<1>6. deferred \in Seq(WaitingWrite)
  BY BridgeParts
<1>7. /\ Core' /\ deferred' \in Seq(WaitingWrite) /\ tally' \in Tally
      /\ effects' \in [Effects -> EffectRecord] /\ retries' \in [Effects -> RetryEntry]
  <2>1. CASE e = None
    <3>1. Close(OwnStore(actors[s], Top.change), deferred, Stored(tally)) /\ UNCHANGED <<effects, retries>>
      BY <1>2, <2>1 DEF CloseJournalled
    <3>2. PICK a \in ActorRecord : a = OwnStore(actors[s], Top.change) /\ Follows(actors[s], a) /\ a.inc = actors[s].inc
      <4>1. OwnStore(actors[s], Top.change) \in ActorRecord /\ Follows(actors[s], OwnStore(actors[s], Top.change))
        BY <1>2, At, OwnStoreFact
      <4> QED
        BY <4>1 DEF Follows
    <3>3. Even(a, cr, Unsure(foreign, s), foreign = {})
      BY <1>4, <3>2, At, FollowsEven
    <3>4. /\ Even(a, cr, Unsure(foreign, Top.sprite), foreign = {}) /\ a.inc = actors[Top.sprite].inc
          /\ Close(a, deferred, Stored(tally)) /\ Stored(tally) \in Tally
          /\ aux' = [aux EXCEPT ![Top.sprite] = cr]
      BY <1>2, <1>3, <3>1, <3>2, <3>3, StoredFact
    <3>5. Core' /\ deferred' \in Seq(WaitingWrite) /\ tally' \in Tally
      BY <1>1, <1>4, <1>6, <3>4, CloseKeeps
    <3> QED
      BY <3>1, <3>5, BridgeParts DEF Typed
  <2>2. CASE e # None
    <3>1. Close(actors[s], deferred, tally) /\ effects' = Completed(e) /\ retries' = Forgotten(e)
      BY <1>2, <2>2 DEF CloseJournalled
    <3>2. Core' /\ deferred' \in Seq(WaitingWrite) /\ tally' \in Tally
      BY <1>1, <1>2, <1>3, <1>4, <1>6, <3>1, CloseAsIs, StoredFact
    <3> QED
      BY <1>2, <2>2, <3>1, <3>2, ListedFact, RetryFact
  <2> QED
    BY <2>1, <2>2
<1>8. uncertain' \in [Bridges -> [Sprites -> Receipt]]
  BY <1>1, RecordFact DEF CloseJournalled
<1> QED
  BY <1>2, <1>5, <1>7, <1>8 DEF CloseJournalled, BridgeInv, Core, Typed, Untouched

LEMMA CloseChangedKeeps ==
    ASSUME BridgeInv, CloseChanged
    PROVE  BridgeInv' /\ Untouched
<1>1. CallOpen /\ foreign' = foreign /\ nextInc' = nextInc /\ Lifetime(Top.sprite, Top.inc) > 0
  BY DEF CloseChanged, Asked
<1>2. PICK s \in Sprites, e \in Effects \cup {None} : s = Top.sprite /\ e = Top.effect
  BY <1>1, TopFact
<1>3. PICK cr \in CarrierRecord :
        /\ aux' = [aux EXCEPT ![Top.sprite] = cr] /\ cr.bound <= nextInc
        /\ Even(actors[Top.sprite], cr, Unsure(foreign, Top.sprite), foreign = {})
  <2>1. CASE UNCHANGED aux
    BY <1>1, <2>1, AuxStays
  <2>2. CASE Top.answer = "tracked" /\ Matching(Top) /\ aux' = [aux EXCEPT ![s] = Withdrawn(Top)]
    BY <1>1, <1>2, <2>2, WithdrawnFact
  <2> QED
    BY <1>2, <2>1, <2>2 DEF CloseChanged
<1>4. s \notin foreign
  BY <1>1, <1>2, LiveFact
<1>5. deferred \in Seq(WaitingWrite) /\ tally \in Tally
  BY BridgeParts
<1>6. /\ Core' /\ deferred' \in Seq(WaitingWrite) /\ tally' \in Tally
      /\ effects' \in [Effects -> EffectRecord] /\ retries' \in [Effects -> RetryEntry]
  <2>1. CASE CloseOriginal
    BY <1>1, <1>3, <2>1, CloseOriginalKeeps
  <2>2. CASE /\ e # None /\ Close(actors[s], deferred, tally) /\ UNCHANGED effects
             /\ retries' = [Purged(e) EXCEPT ![e] = [sprite |-> s, inc |-> Top.inc]]
    <3>1. Core' /\ deferred' \in Seq(WaitingWrite) /\ tally' \in Tally
      BY <1>1, <1>2, <1>3, <1>5, <2>2, CloseAsIs
    <3>2. Purged(e) \in [Effects -> RetryEntry] /\ effects \in [Effects -> EffectRecord]
      BY RetryFact, BridgeParts DEF Typed
    <3>3. [sprite |-> s, inc |-> Top.inc] \in RetryEntry
      BY <1>1, <1>2, TopFact, CallFact DEF RetryEntry
    <3> QED
      BY <2>2, <3>1, <3>2, <3>3
  <2>3. CASE /\ e # None /\ Close(Leaf(s, e), deferred, tally) /\ effects' = Ran(e)
             /\ retries' = [Purged(e) EXCEPT ![e] = NoRetry]
    <3>1. effects[e].shape \in Change /\ Ran(e) \in [Effects -> EffectRecord]
      BY <1>2, <2>3, ListedFact
    <3>2. PICK a \in ActorRecord : a = Leaf(s, e) /\ Follows(actors[s], a) /\ a.inc = actors[s].inc
      <4>1. Leaf(s, e) \in ActorRecord /\ Follows(actors[s], Leaf(s, e))
        BY <3>1, At, OwnStoreFact DEF Leaf
      <4> QED
        BY <4>1 DEF Follows
    <3>3. Even(a, cr, Unsure(foreign, s), foreign = {})
      BY <1>2, <1>3, <3>2, At, FollowsEven
    <3>4. /\ Even(a, cr, Unsure(foreign, Top.sprite), foreign = {}) /\ a.inc = actors[Top.sprite].inc
          /\ Close(a, deferred, tally)
      BY <1>2, <2>3, <3>2, <3>3
    <3>5. Core' /\ deferred' \in Seq(WaitingWrite) /\ tally' \in Tally
      BY <1>1, <1>3, <1>5, <3>4, CloseKeeps
    <3>6. Purged(e) \in [Effects -> RetryEntry] /\ NoRetry \in RetryEntry
      BY RetryFact
    <3> QED
      BY <2>3, <3>1, <3>5, <3>6
  <2> QED
    BY <1>2, <2>1, <2>2, <2>3 DEF CloseChanged
<1> QED
  BY <1>2, <1>4, <1>6 DEF CloseChanged, BridgeInv, Core, Typed, Untouched

LEMMA CloseRefusedKeeps ==
    ASSUME BridgeInv, CloseRefused
    PROVE  BridgeInv' /\ Untouched
<1>1. /\ CallOpen /\ foreign' = foreign /\ nextInc' = nextInc /\ Lifetime(Top.sprite, Top.inc) > 0
      /\ UNCHANGED aux /\ CloseOriginal
  BY DEF CloseRefused, Asked
<1>2. /\ Core' /\ deferred' \in Seq(WaitingWrite) /\ tally' \in Tally
      /\ effects' \in [Effects -> EffectRecord] /\ retries' \in [Effects -> RetryEntry]
      /\ Untouched
  BY <1>1, AuxStays, CloseOriginalKeeps
<1> QED
  BY <1>2 DEF CloseRefused, BridgeInv, Core, Typed

LEMMA StoreKeeps ==
    ASSUME BridgeInv, Store
    PROVE  BridgeInv' /\ Untouched
<1>1. /\ CallOpen /\ foreign' = foreign /\ nextInc' = nextInc /\ UNCHANGED aux
      /\ Top.answer = "tracked" /\ calls' = Answered("stored") /\ ~Changed(Top)
  BY DEF Store, Asked, Answer, Answered
<1>2. PICK s \in Sprites, e \in Effects \cup {None} : /\ s = Top.sprite /\ e = Top.effect
                              /\ Top.change \in Change /\ Top.pre \in Word
  BY <1>1, TopFact, CallFact
<1>3. /\ foreign = {} /\ actors[s].inc = Top.inc /\ actors[s].inc # 0 /\ actors[s].word = Top.pre
  BY <1>1, <1>2, CalmFact DEF Changed
<1>4. Due(Top, actors[s], aux[s])
  BY <1>1, <1>2, <1>3, TopFact DEF DueIfLive
<1> DEFINE cr == aux[s]  acc == aux[s].account  j == aux[s].journal
<1>5. /\ cr.present /\ ~cr.excluded /\ cr.bound = actors[s].inc /\ actors[s].eligible /\ ~actors[s].replaced
      /\ Fits(Top.bridge, acc, Top.pre, Top.change) /\ j = Journal(Top, acc)
      /\ actors[s].owed - actors[s].word = acc.overflow
  BY <1>1, <1>3, <1>4 DEF Due
<1>6. /\ cr \in CarrierRecord /\ acc \in Accounts /\ acc.overflow \in Nat /\ j \in JournalRecord
      /\ j.target \in Word /\ j.after.overflow \in Nat
  BY At, CarrierFact
<1>7. /\ j.stage = "prepared" /\ ~j.later
      /\ j.target + j.after.overflow = Owed(Top.pre + acc.overflow, Top.pre, Top.change)
  BY <1>1, <1>5, <1>6, TopFact, JournalFact
<1>8. actors[s] \in ActorRecord /\ actors[s].owed \in Int /\ actors[s].word \in Nat
  BY At, ActorFact
<1>9. actors[s].owed = Top.pre + acc.overflow
  <2>1. PICK n \in Nat : n = acc.overflow
    BY <1>6
  <2> QED
    BY <1>3, <1>5, <1>8, <2>1
<1> DEFINE o == Owed(actors[s].owed, Top.pre, Top.change)
<1>10. PICK w, n \in Nat : w = j.target /\ n = j.after.overflow /\ o = w + n
  <2>1. j.target \in Nat
    BY <1>6, NumberFacts
  <2> QED
    BY <1>6, <1>7, <1>9, <2>1
<1> HIDE DEF o
<1> DEFINE a == [actors[s] EXCEPT !.word = j.target, !.owed = o]
<1>11. o \in Int /\ o - w = n
  BY <1>10
<1>12. /\ a \in ActorRecord /\ a.inc = actors[s].inc /\ a.eligible = actors[s].eligible
       /\ a.replaced = actors[s].replaced /\ a.word = j.target /\ a.owed = o
  BY <1>6, <1>8, <1>11 DEF ActorRecord
<1>13. actors' = [actors EXCEPT ![s] = a]
  <2>1. actors' = [actors EXCEPT ![s].word = aux[s].journal.target, ![s].owed = Owed(@, Top.pre, Top.change)]
    BY <1>2 DEF Store
  <2> QED
    BY <1>8, <2>1, BridgeParts DEF Typed, ActorRecord, o
<1>14. Pending(cr)
  BY <1>7 DEF Pending
<1>15. Even(a, cr, Unsure(foreign, s), foreign = {})
  <2>1. a.owed - a.word = cr.journal.after.overflow
    BY <1>10, <1>11, <1>12
  <2> HIDE DEF a
  <2> QED
    BY <1>3, <1>5, <1>6, <1>7, <1>12, <1>14, <2>1, EvenDue
<1>16. PICK f : /\ f = [Top EXCEPT !.answer = "stored"] /\ f.answer = "stored" /\ f.inc = Top.inc
                /\ f.bridge = Top.bridge /\ f.pre = Top.pre /\ f.change = Top.change
  <2> DEFINE x == [Top EXCEPT !.answer = "stored"]
  <2>1. Top \in CallRecord
    BY <1>1, TopFact
  <2>2. /\ x.answer = "stored" /\ x.inc = Top.inc /\ x.bridge = Top.bridge /\ x.pre = Top.pre
        /\ x.change = Top.change
    BY <2>1, WithAnswer
  <2> HIDE DEF x
  <2> QED
    BY <2>2 DEF x
<1>17. Due(f, a, cr)
  <2>1. Journal(f, acc) = j
    BY <1>5, <1>16 DEF Journal
  <2>2. a.owed - a.word = cr.journal.after.overflow
    BY <1>10, <1>11, <1>12
  <2> HIDE DEF a
  <2> QED
    BY <1>3, <1>5, <1>12, <1>16, <2>1, <2>2 DEF Due
<1>18. Core'
  <2> HIDE DEF a
  <2>1. /\ Even(a, cr, Unsure(foreign, Top.sprite), foreign = {}) /\ a.inc = actors[Top.sprite].inc
        /\ actors' = [actors EXCEPT ![Top.sprite] = a] /\ a \in ActorRecord
    BY <1>2, <1>12, <1>13, <1>15
  <2>2. DueIfLive([Top EXCEPT !.answer = "stored"], a, cr)
    BY <1>16, <1>17 DEF DueIfLive
  <2>3. cr \in CarrierRecord /\ cr.bound <= nextInc /\ aux' = [aux EXCEPT ![Top.sprite] = cr]
    BY <1>1, <1>2, At, AuxStays
  <2> QED
    BY <1>1, <2>1, <2>2, <2>3, AnswerKeeps
<1>19. effects' \in [Effects -> EffectRecord] /\ tally' \in Tally
  BY <1>2, BridgeParts, ListedFact, StoredFact DEF Store, Typed
<1>20. Untouched
  BY <1>3 DEF Untouched
<1> QED
  BY <1>18, <1>19, <1>20 DEF Store, BridgeInv, Core, Typed

LEMMA CompleteKeeps ==
    ASSUME BridgeInv, Complete
    PROVE  BridgeInv' /\ Untouched
<1>1. /\ CallOpen /\ foreign' = foreign /\ nextInc' = nextInc /\ Top.answer = "stored" /\ Matching(Top)
  BY DEF Complete
<1>2. PICK s \in Sprites, e \in Effects \cup {None} : s = Top.sprite /\ e = Top.effect
  BY <1>1, TopFact
<1>3. foreign = {} /\ actors[s].inc = Top.inc /\ actors[s].inc # 0
  BY <1>1, <1>2, CalmFact DEF Matching
<1>4. Due(Top, actors[s], aux[s])
  BY <1>1, <1>2, <1>3, TopFact DEF DueIfLive
<1>5. /\ aux[s].present /\ aux[s].bound = actors[s].inc /\ ~actors[s].replaced
      /\ actors[s].owed - actors[s].word = aux[s].journal.after.overflow
  BY <1>1, <1>3, <1>4 DEF Due
<1>6. aux[s] \in CarrierRecord /\ aux[s].journal.after \in Accounts /\ actors[s] \in ActorRecord
  BY At, CarrierFact
<1> DEFINE new == [aux[s] EXCEPT !.account = aux[s].journal.after, !.journal = NoJournal]
<1>7. /\ new \in CarrierRecord /\ new.present = aux[s].present /\ new.bound = aux[s].bound
      /\ new.account = aux[s].journal.after /\ new.journal = NoJournal
  BY <1>6, NoCarrierFact DEF CarrierRecord
<1>8. aux' = [aux EXCEPT ![s] = new]
  <2>1. aux' = [aux EXCEPT ![s].account = aux[s].journal.after, ![s].journal = NoJournal]
    BY <1>2 DEF Complete
  <2> QED
    BY <1>6, <2>1, BridgeParts DEF Typed, CarrierRecord
<1> HIDE DEF new
<1>9. ~new.journal.later /\ new.bound <= nextInc
  BY <1>7, NoCarrierFact, At
<1>10. Even(actors[s], new, Unsure(foreign, s), foreign = {})
  BY <1>3, <1>5, <1>6, <1>7, <1>9, EvenExact
<1>11. deferred \in Seq(WaitingWrite) /\ tally \in Tally /\ Close(actors[s], deferred, tally)
  BY <1>2, BridgeParts DEF Complete
<1>12. Core' /\ deferred' \in Seq(WaitingWrite) /\ tally' \in Tally /\ Untouched
  BY <1>1, <1>2, <1>7, <1>8, <1>9, <1>10, <1>11, CloseAsIs
<1>13. retries' \in [Effects -> RetryEntry]
  BY <1>2, RetryFact DEF Complete
<1> QED
  BY <1>12, <1>13 DEF Complete, BridgeInv, Core, Typed

LEMMA CompleteFailedKeeps ==
    ASSUME BridgeInv, CompleteFailed
    PROVE  BridgeInv' /\ Untouched
<1>1. CallOpen /\ foreign' = foreign /\ nextInc' = nextInc
  BY DEF CompleteFailed
<1>2. PICK s \in Sprites, e \in Effects \cup {None} : s = Top.sprite /\ e = Top.effect
  BY <1>1, TopFact
<1>3. PICK cr \in Retained(Top) : aux' = [aux EXCEPT ![s] = cr]
  BY <1>2 DEF CompleteFailed
<1>4. cr \in CarrierRecord /\ cr.bound <= nextInc /\ Even(actors[s], cr, Unsure(foreign, s), foreign = {})
  BY <1>1, <1>2, <1>3, RetainedFact
<1>5. deferred \in Seq(WaitingWrite) /\ tally \in Tally /\ Close(actors[s], deferred, tally)
  BY <1>2, BridgeParts DEF CompleteFailed
<1>6. Core' /\ deferred' \in Seq(WaitingWrite) /\ tally' \in Tally /\ Untouched
  BY <1>1, <1>2, <1>3, <1>4, <1>5, CloseAsIs
<1>7. retries' \in [Effects -> RetryEntry] /\ uncertain' \in [Bridges -> [Sprites -> Receipt]]
  BY <1>1, <1>2, RetryFact, RecordFact DEF CompleteFailed
<1> QED
  BY <1>6, <1>7 DEF CompleteFailed, BridgeInv, Core, Typed
-----------------------------------------------------------------------------
(* The rest of the game.                                                    *)

LEMMA CapCheckKeeps ==
    ASSUME BridgeInv, NEW s \in Sprites, CapCheck(s)
    PROVE  BridgeInv'
<1>1. Refreshable(s, aux[s]) /\ aux' = [aux EXCEPT ![s] = Refreshed(s, aux[s])] /\ actors' = Noted(s)
  BY DEF CapCheck
<1>2. foreign = {} /\ actors[s].inc # 0
  BY <1>1, CalmFact DEF Refreshable
<1>3. Even(actors[s], aux[s], FALSE, TRUE) /\ aux[s] \in CarrierRecord
  BY <1>2, At, CalmFact DEF Even
<1>4. PICK a \in ActorRecord, new \in CarrierRecord :
              /\ new = Refreshed(s, aux[s]) /\ Noted(s) = [actors EXCEPT ![s] = a]
              /\ a.inc = actors[s].inc /\ new.bound <= nextInc
              /\ \A u, calm : Even(a, new, u, calm)
  BY <1>1, <1>3, RefreshKeeps
<1>5. actors' = [actors EXCEPT ![s] = a] /\ aux' = [aux EXCEPT ![s] = new]
  BY <1>1, <1>4
<1>6. ASSUME NEW i \in 1..Len(calls), calls[i].sprite = s PROVE DueIfLive(calls[i], a, new)
  <2> SUFFICES ASSUME calls[i].bridge # "save", calls[i].inc = actors[s].inc, calls[i].answer \in {"tracked", "stored"}
               PROVE  FALSE
    BY <1>4 DEF DueIfLive
  <2>1. Due(calls[i], actors[s], aux[s])
    BY <1>2, <1>6, BridgeParts DEF Dues, DueIfLive
  <2>2. aux[s].present /\ aux[s].journal.stage = "prepared"
    BY <2>1 DEF Due, Journal
  <2>3. ~Pending(aux[s])
    BY <1>1, <2>2 DEF Refreshable
  <2> QED
    BY <2>2, <2>3 DEF Pending
<1>7. calls' = calls /\ foreign' = foreign /\ nextInc' = nextInc
  BY DEF CapCheck
<1>8. Core'
  BY <1>4, <1>5, <1>6, <1>7, QuietKeeps
<1> QED
  BY <1>8 DEF CapCheck, BridgeInv, Core, Typed

LEMMA DriftKeeps ==
    ASSUME BridgeInv, NEW word \in DriftWords, Drift(word)
    PROVE  BridgeInv'
<1>1. CallOpen /\ calls' = calls /\ foreign' = foreign /\ nextInc' = nextInc /\ UNCHANGED aux
  BY DEF Drift
<1>2. PICK s \in Sprites : s = Top.sprite
  BY <1>1, TopFact
<1>3. word \in Word /\ word \in Int /\ actors[s] \in ActorRecord /\ actors[s].word \in Nat /\ actors[s].owed \in Int
  BY At, ActorFact, BridgeAssumption, NumberFacts
<1>4. PICK o \in Int : o = actors[s].owed + (word - actors[s].word) /\ o - word = actors[s].owed - actors[s].word
  BY <1>3
<1> DEFINE a == [actors[s] EXCEPT !.word = word, !.owed = o]
<1>5. /\ a \in ActorRecord /\ a.inc = actors[s].inc /\ a.eligible = actors[s].eligible
      /\ a.replaced = actors[s].replaced /\ a.word = word /\ a.owed = o
  BY <1>3 DEF ActorRecord
<1>6. actors' = [actors EXCEPT ![s] = a]
  <2>1. actors' = [actors EXCEPT ![s].word = word, ![s].owed = @ + (word - actors[s].word)]
    BY <1>2 DEF Drift
  <2> QED
    BY <1>3, <1>4, <2>1, BridgeParts DEF Typed, ActorRecord
<1> HIDE DEF a
<1>7. a.owed - a.word = actors[s].owed - actors[s].word
  BY <1>4, <1>5
<1>8. Follows(actors[s], a)
  <2>1. actors[s].owed = actors[s].word => a.owed = a.word
    BY <1>3, <1>4, <1>5
  <2> QED
    BY <1>5, <1>7, <2>1 DEF Follows
<1>9. Even(a, aux[s], Unsure(foreign, s), foreign = {})
  BY <1>5, <1>8, At, FollowsEven
<1>10. ASSUME foreign = {}, NEW i \in 1..Len(calls), calls[i].sprite = s PROVE DueIfLive(calls[i], a, aux[s])
  <2>1. DueIfLive(calls[i], actors[s], aux[s])
    BY <1>10, BridgeParts DEF Dues
  <2> QED
    BY <1>5, <1>7, <2>1 DEF DueIfLive, Due
<1>11. aux' = [aux EXCEPT ![s] = aux[s]]
  BY <1>1, BridgeParts DEF Typed
<1>12. Core'
  BY <1>1, <1>5, <1>6, <1>9, <1>10, <1>11, At, QuietKeeps
<1> QED
  BY <1>12 DEF Drift, BridgeInv, Core, Typed

LEMMA ReshapeKeeps ==
    ASSUME BridgeInv, NEW shape \in Shapes, Reshape(shape)
    PROVE  BridgeInv'
<1>1. CallOpen /\ Top.effect # None /\ Top.effect \in Effects
  BY TopFact DEF Reshape
<1>2. PICK e \in Effects : e = Top.effect
  BY <1>1
<1>3. shape \in Change
  BY BridgeAssumption DEF Change, Modes
<1>4. effects' = [effects EXCEPT ![e].shape = shape] /\ effects \in [Effects -> EffectRecord]
  BY <1>2, ListedFact DEF Reshape
<1>5. [effects[e] EXCEPT !.shape = shape] \in EffectRecord
  BY <1>3, <1>4 DEF EffectRecord
<1>6. effects' \in [Effects -> EffectRecord]
  BY <1>4, <1>5
<1> QED
  BY <1>6 DEF Reshape, BridgeInv, Typed

LEMMA SaveKeeps ==
    ASSUME BridgeInv, NEW s \in Sprites, Save(s)
    PROVE  BridgeInv'
<1> DEFINE f == [bridge |-> "save", sprite |-> s, effect |-> None, inc |-> 0,
                 change |-> Free.shape, pre |-> 0, answer |-> "running"]
           d == [word |-> actors[s].word, owed |-> actors[s].owed, carrier |-> Export(s)]
<1>1. f \in CallRecord /\ f.bridge = "save" /\ f.inc = 0
  BY NumberFacts DEF CallRecord, Free
<1>2. d \in SaveRecord /\ SavedEven(d)
  <2>1. Export(s) \in CarrierRecord /\ SavedEven(d)
    BY At, BridgeParts, ExportFact
  <2> QED
    BY <2>1, At, ActorFact DEF SaveRecord
<1>3. calls' = Append(calls, f) /\ disk' = [disk EXCEPT ![s] = d] /\ ~CallOpen
  BY DEF Save
<1> HIDE DEF f, d
<1> DEFINE n == Len(calls)  C == Append(calls, f)
<1>4. /\ C \in Seq(CallRecord) /\ Len(C) = n + 1 /\ C[n + 1] = f /\ n \in Nat
      /\ (\A i \in 1..n : C[i] = calls[i]) /\ calls \in Seq(CallRecord)
  BY <1>1, AddFact, BridgeParts
<1>5. \A i \in 1..n : calls[i].bridge = "save"
  <2> SUFFICES ASSUME NEW i \in 1..n, calls[i].bridge # "save" PROVE FALSE
    OBVIOUS
  <2>1. calls # <<>> /\ n \in 1..n
    BY <1>4
  <2>2. Top = calls[n]
    BY <1>4, <2>1, FrontFact DEF Top
  <2>3. calls[n].bridge # "save"
    BY <2>1, BridgeParts DEF Stack
  <2> QED
    BY <1>3, <2>1, <2>2, <2>3 DEF CallOpen
<1> HIDE DEF n, C
<1>6. \A i \in 1..Len(C) : i = n + 1 \/ i \in 1..n
  BY <1>4
<1>7. \A i \in 1..Len(C) : C[i].bridge = "save"
  BY <1>1, <1>4, <1>5, <1>6
<1>8. Stack(C)
  BY <1>7 DEF Stack
<1>9. Dues(C, actors, aux, foreign)
  BY <1>7 DEF Dues, DueIfLive
<1>10. NotAhead(actors, aux, C, nextInc)
  <2>1. \A i \in 1..n : calls[i].inc <= nextInc
    BY BridgeParts DEF NotAhead, n
  <2>2. 0 <= nextInc
    BY BridgeParts
  <2> QED
    BY <1>1, <1>4, <1>6, <2>1, <2>2, BridgeParts DEF NotAhead
<1>11. disk' \in [Sprites -> SaveRecord] /\ \A x \in Sprites : SavedEven(disk'[x])
  BY <1>2, <1>3, BridgeParts DEF Typed
<1>12. calls' = C /\ C \in Seq(CallRecord)
  BY <1>3, <1>4 DEF C
<1>13. UNCHANGED <<actors, aux, effects, uncertain, retries, deferred, foreign, nextInc, tally>>
  BY DEF Save
<1> QED
  BY <1>8, <1>9, <1>10, <1>11, <1>12, <1>13 DEF BridgeInv, Typed

LEMMA EndSaveKeeps ==
    ASSUME BridgeInv, EndSave
    PROVE  BridgeInv'
<1>1. calls # <<>> /\ calls' = Front(calls) /\ calls \in Seq(CallRecord)
  BY BridgeParts DEF EndSave
<1>2. PICK C \in Seq(CallRecord) : C = Front(calls)
  BY <1>1, FrontFact
<1>3. PICK n \in Nat \ {0} : n = Len(calls) /\ Len(C) = n - 1 /\ \A i \in 1..(n - 1) : C[i] = calls[i]
  BY <1>1, <1>2, FrontFact
<1>4. \A i \in 1..Len(C) : i \in 1..Len(calls) /\ C[i] = calls[i]
  BY <1>3
<1>5. Stack(C) /\ Dues(C, actors, aux, foreign) /\ NotAhead(actors, aux, C, nextInc)
  BY <1>4, BridgeParts DEF Stack, Dues, NotAhead
<1> QED
  BY <1>1, <1>2, <1>5 DEF EndSave, BridgeInv, Typed

LEMMA UnlistedFact ==
    ASSUME BridgeInv, NEW s
    PROVE  Unlisted(s) \in [Effects -> EffectRecord]
<1>1. Free \in EffectRecord
  BY NumberFacts DEF Free, EffectRecord
<1>2. effects \in [Effects -> EffectRecord]
  BY BridgeParts DEF Typed
<1> QED
  BY <1>1, <1>2 DEF Unlisted

LEMMA NextIncFact ==
    ASSUME BridgeInv
    PROVE  /\ NextInc \in 0..MaxInc /\ NextInc \in Nat /\ nextInc <= NextInc
           /\ nextInc < MaxInc => NextInc = nextInc + 1
<1>1. nextInc \in Nat /\ MaxInc \in Nat /\ nextInc <= MaxInc
  BY BridgeParts, NumberFacts
<1> QED
  BY <1>1 DEF NextInc, Least

\* Another actor takes the address: no open call means it.
LEMMA NewActorKeeps ==
    ASSUME BridgeInv, NEW s \in Sprites, NEW a \in ActorRecord, NEW cr \in CarrierRecord,
           Even(a, cr, Unsure(foreign, s), foreign = {}), cr.bound <= NextInc,
           a.inc = 0 \/ (a.inc = nextInc + 1 /\ nextInc < MaxInc),
           actors' = [actors EXCEPT ![s] = a], aux' = [aux EXCEPT ![s] = cr],
           calls' = calls, foreign' = foreign, nextInc' = NextInc
    PROVE  Core'
<1>1. nextInc \in Nat /\ NextInc \in Nat /\ nextInc <= NextInc /\ a.inc \in Nat /\ a.inc <= NextInc
  BY BridgeParts, NextIncFact, ActorFact
<1> DEFINE A == [actors EXCEPT ![s] = a]  X == [aux EXCEPT ![s] = cr]
<1>2. /\ A \in [Sprites -> ActorRecord] /\ X \in [Sprites -> CarrierRecord]
      /\ \A x \in Sprites : A[x] = IF x = s THEN a ELSE actors[x]
      /\ \A x \in Sprites : X[x] = IF x = s THEN cr ELSE aux[x]
  BY BridgeParts DEF Typed
<1>8. actors' = A /\ aux' = X /\ calls' = calls /\ foreign' = foreign /\ nextInc' = NextInc
  OBVIOUS
<1> HIDE DEF A, X
<1>3. Books(A, X, foreign)
  BY <1>2, At DEF Books
<1>4. \A x \in Sprites : A[x].inc <= NextInc /\ X[x].bound <= NextInc
  <2> SUFFICES ASSUME NEW x \in Sprites PROVE A[x].inc <= NextInc /\ X[x].bound <= NextInc
    OBVIOUS
  <2>1. actors[x].inc \in Nat /\ aux[x].bound \in Nat /\ actors[x].inc <= nextInc /\ aux[x].bound <= nextInc
    BY At, ActorFact, CarrierFact
  <2> QED
    BY <1>1, <1>2, <2>1
<1>5. \A i \in 1..Len(calls) : calls[i].inc \in Nat /\ calls[i].inc <= nextInc /\ calls[i].sprite \in Sprites
  BY BridgeParts, SeqFact, CallFact DEF NotAhead
<1>6. NotAhead(A, X, calls, NextInc)
  BY <1>1, <1>4, <1>5 DEF NotAhead
<1>7. Dues(calls, A, X, foreign)
  <2> SUFFICES ASSUME foreign = {}, NEW i \in 1..Len(calls)
               PROVE  DueIfLive(calls[i], A[calls[i].sprite], X[calls[i].sprite])
    BY DEF Dues
  <2>1. CASE calls[i].sprite # s
    BY <1>2, <1>5, <2>1, BridgeParts DEF Dues
  <2>2. CASE calls[i].sprite = s /\ calls[i].bridge # "save"
    <3>1. calls[i].inc # 0
      BY <2>2, BridgeParts DEF Stack, Asking
    <3>2. calls[i].inc # a.inc
      BY <1>1, <1>5, <3>1
    <3> QED
      BY <1>2, <2>2, <3>2 DEF DueIfLive
  <2>3. CASE calls[i].bridge = "save"
    BY <2>3 DEF DueIfLive
  <2> QED
    BY <2>1, <2>2, <2>3
<1> QED
  BY <1>2, <1>3, <1>6, <1>7, <1>8, BridgeParts DEF Core

LEMMA EventCounted ==
    ASSUME NEW t \in Tally
    PROVE  [t EXCEPT !.events = @ + 1] \in Tally
BY TallySteps

LEMMA NewActorFact ==
    ASSUME NEW inc \in Nat, NEW eligible \in BOOLEAN, NEW w \in Word, NEW o \in Int
    PROVE  LET a == Actor(inc, eligible, w, o) IN
           a \in ActorRecord /\ a.inc = inc /\ ~a.replaced /\ a.word = w /\ a.owed = o
BY DEF Actor, ActorRecord

LEMMA CreateKeeps ==
    ASSUME BridgeInv, NEW s \in Sprites, NEW eligible \in BOOLEAN, NEW word \in FreshWords, Create(s, eligible, word)
    PROVE  BridgeInv'
<1>1. word \in Word /\ word \in Int /\ nextInc \in Nat
  BY BridgeAssumption, NumberFacts, BridgeParts
<1>9. PICK inc \in {0} \cup (IF nextInc < MaxInc THEN {nextInc + 1} ELSE {}) :
        actors' = [actors EXCEPT ![s] = Actor(inc, eligible /\ inc # 0, word, word)]
  BY DEF Create
<1>2. inc \in Nat /\ (inc = 0 \/ (inc = nextInc + 1 /\ nextInc < MaxInc))
  BY <1>1
<1>3. PICK el \in BOOLEAN : el = (eligible /\ inc # 0)
  OBVIOUS
<1>10. actors' = [actors EXCEPT ![s] = Actor(inc, el, word, word)]
  BY <1>3, <1>9
<1>4. PICK a \in ActorRecord : /\ a = Actor(inc, el, word, word)
                               /\ a.inc = inc /\ ~a.replaced /\ a.word = word /\ a.owed = word
  BY <1>1, <1>2, NewActorFact
<1>5. PICK cr \in CarrierRecord : /\ aux' = [aux EXCEPT ![s] = cr] /\ cr.bound <= NextInc
                                  /\ Even(a, cr, Unsure(foreign, s), foreign = {})
  <2>1. CASE aux' = [aux EXCEPT ![s] = NoCarrier]
    <3>1. 0 <= NextInc /\ NoCarrier.bound = 0 /\ NoCarrier \in CarrierRecord
      BY NextIncFact, NoCarrierFact
    <3>2. Even(a, NoCarrier, Unsure(foreign, s), foreign = {})
      BY <1>4, NoCarrierEven
    <3> QED
      BY <2>1, <3>1, <3>2
  <2>2. CASE aux' = aux
    <3>1. aux' = [aux EXCEPT ![s] = aux[s]]
      BY <2>2, BridgeParts DEF Typed
    <3>2. aux[s] \in CarrierRecord /\ aux[s].bound \in Nat /\ aux[s].bound <= nextInc
      BY At, CarrierFact
    <3>3. aux[s].bound <= NextInc
      BY <1>1, <3>2, NextIncFact
    <3>4. Even(a, aux[s], Unsure(foreign, s), foreign = {})
      <4>1. Sane(aux[s]) /\ (aux[s].present /\ ~aux[s].excluded => aux[s].bound # 0)
        BY At DEF Even
      <4>2. ASSUME aux[s].bound = a.inc, ~aux[s].excluded
            PROVE  Balanced(a.word, a.owed, a.replaced, aux[s])
        <5>1. a.inc = 0
          BY <1>1, <1>2, <1>4, <3>2, <4>2
        <5>2. aux[s] = NoCarrier
          BY <4>1, <4>2, <5>1 DEF Sane
        <5>3. Even(a, NoCarrier, FALSE, FALSE) /\ NoCarrier.bound = a.inc /\ ~NoCarrier.excluded
          BY <1>4, <5>1, NoCarrierEven, NoCarrierFact
        <5> QED
          BY <5>2, <5>3 DEF Even
      <4> QED
        BY <1>4, <4>1, <4>2 DEF Even
    <3> QED
      BY <3>1, <3>2, <3>3, <3>4
  <2> QED
    BY <2>1, <2>2 DEF Create
<1>6. /\ actors' = [actors EXCEPT ![s] = a] /\ calls' = calls /\ foreign' = foreign /\ nextInc' = NextInc
      /\ a.inc = 0 \/ (a.inc = nextInc + 1 /\ nextInc < MaxInc)
  BY <1>2, <1>4, <1>10 DEF Create
<1>7. Core'
  BY <1>5, <1>6, NewActorKeeps
<1>8. effects' \in [Effects -> EffectRecord] /\ tally' \in Tally /\ nextInc' \in 0..MaxInc
  BY <1>6, UnlistedFact, BridgeParts, EventCounted, NextIncFact DEF Create
<1> QED
  BY <1>7, <1>8 DEF Create, BridgeInv, Core, Typed

LEMMA BoundFact ==
    ASSUME NEW cr \in CarrierRecord, NEW n \in Nat
    PROVE  LET new == [cr EXCEPT !.bound = n] IN
           /\ new \in CarrierRecord /\ new.bound = n /\ new.present = cr.present
           /\ new.excluded = cr.excluded /\ new.account = cr.account /\ new.journal = cr.journal
BY DEF CarrierRecord

LEMMA SetAsideFact ==
    ASSUME NEW cr \in CarrierRecord
    PROVE  LET new == [cr EXCEPT !.bound = 0, !.excluded = TRUE] IN
           /\ new \in CarrierRecord /\ new.bound = 0 /\ new.excluded
           /\ new.present = cr.present /\ new.journal = cr.journal
<1>1. [cr EXCEPT !.bound = 0] \in CarrierRecord
  BY DEF CarrierRecord
<1> QED
  BY <1>1 DEF CarrierRecord

LEMMA RewordedFact ==
    ASSUME NEW a \in ActorRecord, NEW w \in Word
    PROVE  LET new == [a EXCEPT !.word = w, !.owed = w] IN
           new \in ActorRecord /\ new.inc = a.inc /\ new.word = w /\ new.owed = w
<1>1. w \in Int
  BY NumberFacts
<1>2. [a EXCEPT !.word = w] \in ActorRecord
  BY DEF ActorRecord
<1> QED
  BY <1>1, <1>2 DEF ActorRecord

\* What was saved, bound to an actor of its own.
LEMMA ImportEven ==
    ASSUME NEW d \in SaveRecord, SavedEven(d), NEW inc \in Nat \ {0}, d.carrier.present,
           NEW u, NEW calm
    PROVE  /\ Actor(inc, TRUE, d.word, d.owed) \in ActorRecord
           /\ Actor(inc, TRUE, d.word, d.owed).inc = inc
           /\ [d.carrier EXCEPT !.bound = inc] \in CarrierRecord
           /\ [d.carrier EXCEPT !.bound = inc].bound = inc
           /\ Even(Actor(inc, TRUE, d.word, d.owed), [d.carrier EXCEPT !.bound = inc], u, calm)
<1>1. d.word \in Word /\ d.owed \in Int /\ d.carrier \in CarrierRecord
  BY DEF SaveRecord
<1> DEFINE a == Actor(inc, TRUE, d.word, d.owed)  cr == [d.carrier EXCEPT !.bound = inc]
<1>2. a \in ActorRecord /\ a.inc = inc /\ ~a.replaced /\ a.word = d.word /\ a.owed = d.owed
  BY <1>1 DEF Actor, ActorRecord
<1>3. /\ cr \in CarrierRecord /\ cr.bound = inc /\ cr.present = d.carrier.present
      /\ cr.excluded = d.carrier.excluded /\ cr.account = d.carrier.account
      /\ cr.journal = d.carrier.journal
  BY <1>1, BoundFact
<1> HIDE DEF a, cr
<1>4. Sane(cr)
  BY <1>3 DEF Sane, SavedEven, Pending
<1>5. ~cr.excluded => Balanced(a.word, a.owed, FALSE, cr)
  BY <1>2, <1>3 DEF SavedEven, Balanced, Pending, ActiveTotal
<1>6. Even(a, cr, u, calm)
  <2>1. a.replaced = FALSE
    BY <1>2, ActorFact
  <2> QED
    BY <1>2, <1>3, <1>4, <1>5, <2>1 DEF Even
<1> QED
  BY <1>2, <1>3, <1>6 DEF a, cr

LEMMA LoadKeeps ==
    ASSUME BridgeInv, NEW s \in Sprites, Load(s)
    PROVE  BridgeInv'
<1> DEFINE d == disk[s]
<1>1. PICK inc \in Nat \ {0} : inc = nextInc + 1
  BY BridgeParts
<1>2. d \in SaveRecord /\ SavedEven(d) /\ d.word \in Word /\ d.owed \in Int /\ d.carrier \in CarrierRecord
  BY At DEF SaveRecord
<1>3. /\ nextInc < MaxInc /\ NextInc = inc
      /\ actors' = [actors EXCEPT ![s] = Actor(inc, TRUE, d.word, d.owed)]
      /\ aux' = [aux EXCEPT ![s] = Imported(d.carrier, inc)]
  BY <1>1, NextIncFact DEF Load
<1> HIDE DEF d
<1> DEFINE a == Actor(inc, TRUE, d.word, d.owed)  cr == Imported(d.carrier, inc)
<1>4. a \in ActorRecord /\ a.inc = inc /\ ~a.replaced /\ a.word = d.word /\ a.owed = d.owed
  BY <1>2 DEF Actor, ActorRecord
<1>5. /\ cr \in CarrierRecord /\ cr.bound <= inc
      /\ Even(a, cr, Unsure(foreign, s), foreign = {})
  <2>1. CASE ~d.carrier.present
    <3>1. Imported(d.carrier, inc) = NoCarrier /\ a.owed = a.word
      BY <1>2, <1>4, <2>1 DEF Imported, SavedEven
    <3> HIDE DEF a, cr
    <3>2. Even(a, NoCarrier, Unsure(foreign, s), foreign = {})
      BY <1>4, <3>1, NoCarrierEven
    <3>3. NoCarrier.bound <= inc /\ NoCarrier \in CarrierRecord
      BY NoCarrierFact
    <3> QED
      BY <3>1, <3>2, <3>3 DEF cr
  <2>2. CASE d.carrier.present /\ foreign = {}
    <3>1. Imported(d.carrier, inc) = [d.carrier EXCEPT !.bound = inc]
      BY <2>2 DEF Imported
    <3>2. /\ [d.carrier EXCEPT !.bound = inc] \in CarrierRecord
          /\ [d.carrier EXCEPT !.bound = inc].bound = inc
          /\ Even(a, [d.carrier EXCEPT !.bound = inc], Unsure(foreign, s), foreign = {})
      BY <1>2, <1>4, <2>2, ImportEven
    <3> HIDE DEF cr, a
    <3> QED
      BY <3>1, <3>2 DEF cr
  <2>3. CASE d.carrier.present /\ foreign # {}
    <3> DEFINE new == [d.carrier EXCEPT !.bound = 0, !.excluded = TRUE]
    <3>1. /\ new \in CarrierRecord /\ new.bound = 0
          /\ new.excluded /\ new.present /\ new.journal = d.carrier.journal
      BY <1>2, <2>3, SetAsideFact
    <3>4. Imported(d.carrier, inc) = new
      BY <2>3 DEF Imported
    <3> HIDE DEF new, a
    <3>2. Sane(new)
      BY <1>2, <3>1 DEF Sane, SavedEven, Pending
    <3>3. Even(a, new, Unsure(foreign, s), foreign = {})
      BY <2>3, <3>1, <3>2 DEF Even
    <3> QED
      BY <3>1, <3>3, <3>4
  <2> QED
    BY <2>1, <2>2, <2>3
<1> HIDE DEF a, cr
<1>6. /\ actors' = [actors EXCEPT ![s] = a] /\ aux' = [aux EXCEPT ![s] = cr]
      /\ calls' = calls /\ foreign' = foreign /\ nextInc' = NextInc
  BY <1>3 DEF Load, a, cr
<1>7. cr.bound <= NextInc /\ (a.inc = 0 \/ (a.inc = nextInc + 1 /\ nextInc < MaxInc))
  BY <1>1, <1>3, <1>4, <1>5
<1>10. a \in ActorRecord /\ cr \in CarrierRecord /\ Even(a, cr, Unsure(foreign, s), foreign = {})
  BY <1>4, <1>5
<1>8. Core'
  BY <1>6, <1>7, <1>10, NewActorKeeps
<1>9. effects' \in [Effects -> EffectRecord] /\ tally' \in Tally /\ nextInc' \in 0..MaxInc
  BY <1>6, UnlistedFact, BridgeParts, EventCounted, NextIncFact DEF Load
<1> QED
  BY <1>8, <1>9 DEF Load, BridgeInv, Core, Typed

LEMMA UnsureGrows ==
    ASSUME Typed, NEW s \in Sprites, NEW x \in Sprites, Unsure(foreign, x)
    PROVE  Unsure(foreign \cup {s}, x)
<1>1. foreign \cup {s} \subseteq Sprites /\ foreign \subseteq foreign \cup {s}
  BY DEF Typed
<1>2. IsFiniteSet(foreign \cup {s})
  BY <1>1, BridgeAssumption, FS_Subset
<1>3. Cardinality(foreign) <= Cardinality(foreign \cup {s})
  BY <1>1, <1>2, FS_Subset
<1>4. Cardinality(foreign) \in Nat /\ Cardinality(foreign \cup {s}) \in Nat /\ ForeignSlots \in Nat
  BY <1>1, <1>2, FS_Subset, FS_CardinalityType, BridgeAssumption
<1> QED
  BY <1>3, <1>4 DEF Unsure

LEMMA ForeignEventKeeps ==
    ASSUME BridgeInv, NEW s \in Sprites, ForeignEvent(s)
    PROVE  BridgeInv'
<1>1. PICK word \in {actors[s].word} \cup FreshWords :
        actors' = [actors EXCEPT ![s].word = word, ![s].owed = word]
  BY DEF ForeignEvent
<1>2. word \in Word
  <2>1. actors[s].word \in Word
    BY At, ActorFact
  <2> QED
    BY <2>1, BridgeAssumption
<1> DEFINE a == [actors[s] EXCEPT !.word = word, !.owed = word]
<1>3. a \in ActorRecord /\ a.inc = actors[s].inc /\ a.word = word /\ a.owed = word
  BY <1>2, At, RewordedFact
<1>4. actors \in [Sprites -> ActorRecord]
  BY BridgeParts DEF Typed
<1>5. /\ actors' = [actors EXCEPT ![s] = a] /\ actors' \in [Sprites -> ActorRecord]
      /\ \A x \in Sprites : actors'[x] = IF x = s THEN a ELSE actors[x]
  BY <1>1, <1>3, <1>4
<1> HIDE DEF a
<1>6. /\ foreign' = foreign \cup {s} /\ foreign' # {} /\ s \in foreign' /\ foreign' \subseteq Sprites
      /\ UNCHANGED <<aux, disk, effects, calls, uncertain, retries, deferred, nextInc>>
  BY BridgeParts DEF ForeignEvent, Typed
<1>7. ASSUME NEW x \in Sprites PROVE Even(actors'[x], aux[x], Unsure(foreign \cup {s}, x), FALSE)
  <2>1. Even(actors[x], aux[x], Unsure(foreign, x), foreign = {})
    BY At
  <2>2. CASE x = s
    <3>1. Unsure(foreign \cup {s}, x)
      BY <2>2 DEF Unsure
    <3> QED
      BY <1>3, <1>5, <2>1, <2>2, <3>1 DEF Even
  <2>3. CASE x # s
    <3>1. Unsure(foreign, x) => Unsure(foreign \cup {s}, x)
      BY BridgeParts, UnsureGrows
    <3> QED
      BY <1>5, <2>1, <2>3, <3>1 DEF Even
  <2> QED
    BY <2>2, <2>3
<1>8. Books(actors', aux', foreign')
  BY <1>6, <1>7 DEF Books
<1>9. Dues(calls', actors', aux', foreign')
  BY <1>6 DEF Dues
<1>10. NotAhead(actors', aux', calls', nextInc')
  <2>1. \A x \in Sprites : actors'[x].inc = actors[x].inc
    BY <1>3, <1>5
  <2> QED
    BY <1>6, <2>1, BridgeParts DEF NotAhead
<1>11. tally' \in Tally
  BY BridgeParts, EventCounted DEF ForeignEvent
<1>12. Stack(calls') /\ \A x \in Sprites : SavedEven(disk'[x])
  BY <1>6, BridgeParts
<1>13. Typed'
  BY <1>5, <1>6, <1>11, BridgeParts DEF Typed
<1> QED
  BY <1>8, <1>9, <1>10, <1>12, <1>13 DEF BridgeInv

\* Nothing is open, waits or is listed.
LEMMA EmptyFact ==
    ASSUME NEW C, C = <<>>, NEW A, NEW X, NEW N,
           \A s \in Sprites : A[s].inc <= N /\ X[s].bound <= N
    PROVE  /\ C \in Seq(CallRecord) /\ C \in Seq(WaitingWrite)
           /\ Stack(C) /\ Dues(C, A, X, {}) /\ NotAhead(A, X, C, N)
           /\ [e \in Effects |-> Free] \in [Effects -> EffectRecord]
           /\ [b \in Bridges |-> [s \in Sprites |-> NoRecord]] \in [Bridges -> [Sprites -> Receipt]]
           /\ [e \in Effects |-> NoRetry] \in [Effects -> RetryEntry]
<1>1. C \in Seq(CallRecord) /\ C \in Seq(WaitingWrite) /\ Len(C) = 0 /\ 1..Len(C) = {}
  OBVIOUS
<1>2. Free \in EffectRecord /\ NoRecord \in Receipt /\ NoRetry \in RetryEntry
  BY NumberFacts DEF Free, EffectRecord, NoRecord, Receipt, NoRetry, RetryEntry
<1> QED
  BY <1>1, <1>2 DEF Stack, Dues, NotAhead

LEMMA NumbersFact ==
    ASSUME NEW inc \in Bijection(Sprites, 1..Cardinality(Sprites))
    PROVE  /\ Cardinality(Sprites) \in 0..MaxInc
           /\ \A s \in Sprites : inc[s] \in Nat \ {0} /\ inc[s] <= Cardinality(Sprites)
<1>1. Cardinality(Sprites) \in Nat /\ Cardinality(Sprites) <= MaxInc /\ MaxInc \in Nat
  BY BridgeAssumption, FS_CardinalityType
<1>2. \A s \in Sprites : inc[s] \in 1..Cardinality(Sprites)
  BY DEF Bijection, Injection
<1> QED
  BY <1>1, <1>2

\* Every actor begins anew, with what was saved for it.
LEMMA BornEven ==
    ASSUME NEW A \in [Sprites -> ActorRecord], NEW X \in [Sprites -> CarrierRecord],
           \A s \in Sprites : Even(A[s], X[s], Unsure({}, s), TRUE)
    PROVE  Books(A, X, {})
BY DEF Books

LEMMA RestartKeeps ==
    ASSUME BridgeInv, Restart
    PROVE  BridgeInv'
<1> DEFINE N == Cardinality(Sprites)
<1>1. PICK inc \in Bijection(Sprites, 1..N) :
        /\ actors' = [s \in Sprites |-> Actor(inc[s], TRUE, disk[s].word, disk[s].owed)]
        /\ aux' = [s \in Sprites |-> IF disk[s].carrier.present
                     THEN [disk[s].carrier EXCEPT !.bound = inc[s]] ELSE NoCarrier]
  BY DEF Restart
<1>2. N \in 0..MaxInc /\ \A s \in Sprites : inc[s] \in Nat \ {0} /\ inc[s] <= N
  BY NumbersFact
<1>3. ASSUME NEW s \in Sprites
      PROVE  /\ actors'[s] \in ActorRecord /\ actors'[s].inc <= N
             /\ aux'[s] \in CarrierRecord /\ aux'[s].bound <= N
             /\ Even(actors'[s], aux'[s], Unsure({}, s), TRUE)
  <2> DEFINE d == disk[s]  a == Actor(inc[s], TRUE, d.word, d.owed)
  <2>1. actors'[s] = a /\ aux'[s] = IF d.carrier.present
                                    THEN [d.carrier EXCEPT !.bound = inc[s]] ELSE NoCarrier
    BY <1>1
  <2>2. d \in SaveRecord /\ SavedEven(d) /\ d.word \in Word /\ d.owed \in Int
    BY At DEF SaveRecord
  <2>3. PICK n \in Nat \ {0} : n = inc[s] /\ n <= N
    BY <1>2
  <2>4. a \in ActorRecord /\ a.inc = n /\ a.word = d.word /\ a.owed = d.owed
    BY <2>2, <2>3 DEF Actor, ActorRecord
  <2> HIDE DEF d, N
  <2>5. CASE d.carrier.present
    <3>1. /\ [d.carrier EXCEPT !.bound = n] \in CarrierRecord
          /\ [d.carrier EXCEPT !.bound = n].bound = n
          /\ Even(Actor(n, TRUE, d.word, d.owed), [d.carrier EXCEPT !.bound = n], Unsure({}, s), TRUE)
      BY <2>2, <2>5, ImportEven
    <3>2. aux'[s] = [d.carrier EXCEPT !.bound = n] /\ actors'[s] = Actor(n, TRUE, d.word, d.owed)
      BY <2>1, <2>3, <2>5
    <3>3. actors'[s] \in ActorRecord /\ actors'[s].inc <= N
      BY <2>1, <2>3, <2>4
    <3> QED
      BY <2>3, <3>1, <3>2, <3>3
  <2>6. CASE ~d.carrier.present
    <3>1. aux'[s] = NoCarrier /\ a.owed = a.word
      BY <2>1, <2>2, <2>4, <2>6 DEF SavedEven
    <3> HIDE DEF a
    <3>2. Even(a, NoCarrier, Unsure({}, s), TRUE)
      BY <2>4, <3>1, NoCarrierEven
    <3>3. NoCarrier \in CarrierRecord /\ NoCarrier.bound <= N
      BY <1>2, NoCarrierFact
    <3> QED
      BY <2>1, <2>3, <2>4, <3>1, <3>2, <3>3
  <2> QED
    BY <2>5, <2>6
<1> HIDE DEF N
<1>4. actors' \in [Sprites -> ActorRecord] /\ aux' \in [Sprites -> CarrierRecord]
  <2>1. actors' = [s \in Sprites |-> actors'[s]] /\ aux' = [s \in Sprites |-> aux'[s]]
    BY <1>1
  <2> QED
    BY <1>3, <2>1
<1>5. Books(actors', aux', {})
  BY <1>3, <1>4, BornEven
<1>6. /\ calls' = <<>> /\ deferred' = <<>> /\ foreign' = {} /\ nextInc' = N /\ disk' = disk
      /\ effects' = [e \in Effects |-> Free]
      /\ uncertain' = [b \in Bridges |-> [s \in Sprites |-> NoRecord]]
      /\ retries' = [e \in Effects |-> NoRetry]
      /\ tally' = [NoHistory EXCEPT !.issued = tally.issued, !.events = tally.events + 1]
  BY DEF Restart, N
<1>7. /\ calls' \in Seq(CallRecord) /\ deferred' \in Seq(WaitingWrite) /\ Stack(calls')
      /\ effects' \in [Effects -> EffectRecord] /\ retries' \in [Effects -> RetryEntry]
      /\ uncertain' \in [Bridges -> [Sprites -> Receipt]]
      /\ Dues(calls', actors', aux', {}) /\ NotAhead(actors', aux', calls', N)
  BY <1>3, <1>6, EmptyFact
<1>8. tally' \in Tally
  <2>1. PICK i, e \in Nat : i = tally.issued /\ e = tally.events + 1
    BY BridgeParts, TallyFields
  <2>2. tally' = [NoHistory EXCEPT !.issued = i, !.events = e]
    BY <1>6, <2>1
  <2> QED
    BY <2>2 DEF NoHistory, Tally
<1>9. Typed'
  BY <1>2, <1>4, <1>6, <1>7, <1>8, BridgeParts DEF Typed
<1> QED
  BY <1>5, <1>6, <1>7, <1>9, BridgeParts DEF BridgeInv

\* A new game: every actor has a number of its own and no account.
LEMMA InitKeeps == BridgeInit => BridgeInv
<1> SUFFICES ASSUME BridgeInit PROVE BridgeInv
  OBVIOUS
<1> DEFINE N == Cardinality(Sprites)
<1>1. PICK inc \in Bijection(Sprites, 1..N), word \in FreshWords :
        /\ actors = [s \in Sprites |-> Actor(inc[s], TRUE, word, word)]
        /\ disk = [s \in Sprites |-> [word |-> word, owed |-> word, carrier |-> NoCarrier]]
  BY DEF BridgeInit
<1>2. N \in 0..MaxInc /\ \A s \in Sprites : inc[s] \in Nat \ {0} /\ inc[s] <= N
  BY NumbersFact
<1>3. word \in Word /\ word \in Int /\ word - word = 0
  BY BridgeAssumption, NumberFacts
<1>4. NoCarrier \in CarrierRecord /\ NoCarrier.bound = 0 /\ ~NoCarrier.present
      /\ Sane(NoCarrier)
  BY NoCarrierFact DEF Sane
<1>10. aux = [s \in Sprites |-> NoCarrier] /\ nextInc = N /\ tally = NoHistory
       /\ calls = <<>> /\ deferred = <<>> /\ foreign = {}
       /\ effects = [e \in Effects |-> Free]
       /\ uncertain = [b \in Bridges |-> [s \in Sprites |-> NoRecord]]
       /\ retries = [e \in Effects |-> NoRetry]
  BY DEF BridgeInit, Empty
<1> HIDE DEF N
<1>5. ASSUME NEW s \in Sprites
      PROVE  /\ actors[s] \in ActorRecord /\ actors[s].inc <= N
             /\ aux[s] = NoCarrier /\ aux[s].bound <= N
             /\ Even(actors[s], NoCarrier, Unsure({}, s), TRUE)
             /\ disk[s] \in SaveRecord /\ SavedEven(disk[s])
  <2>1. PICK n \in Nat \ {0} : n = inc[s] /\ n <= N
    BY <1>2
  <2> DEFINE a == Actor(n, TRUE, word, word)
  <2>2. a \in ActorRecord /\ a.inc = n /\ a.word = word /\ a.owed = word
    BY <1>3, <2>1 DEF Actor, ActorRecord
  <2>3. actors[s] = a
    BY <1>1, <2>1
  <2> HIDE DEF a
  <2>4. Even(a, NoCarrier, Unsure({}, s), TRUE)
    BY <2>2, NoCarrierEven
  <2>5. disk[s] \in SaveRecord /\ disk[s].carrier = NoCarrier /\ disk[s].owed = disk[s].word
    BY <1>1, <1>3, <1>4 DEF SaveRecord
  <2>6. SavedEven(disk[s])
    BY <1>4, <2>5 DEF SavedEven
  <2>7. NoCarrier.bound <= N
    BY <1>2, <1>4
  <2> QED
    BY <1>10, <2>1, <2>2, <2>3, <2>4, <2>5, <2>6, <2>7
<1>6. /\ actors \in [Sprites -> ActorRecord] /\ aux \in [Sprites -> CarrierRecord]
      /\ disk \in [Sprites -> SaveRecord]
  <2>1. /\ actors = [s \in Sprites |-> actors[s]] /\ aux = [s \in Sprites |-> aux[s]]
        /\ disk = [s \in Sprites |-> disk[s]]
    BY <1>1, <1>10
  <2> QED
    BY <1>4, <1>5, <2>1
<1>7. Books(actors, aux, {})
  BY <1>5, <1>6, BornEven
<1>8. /\ calls \in Seq(CallRecord) /\ deferred \in Seq(WaitingWrite) /\ Stack(calls)
      /\ effects \in [Effects -> EffectRecord] /\ retries \in [Effects -> RetryEntry]
      /\ uncertain \in [Bridges -> [Sprites -> Receipt]]
      /\ Dues(calls, actors, aux, {}) /\ NotAhead(actors, aux, calls, N)
  BY <1>5, <1>10, EmptyFact
<1>9. tally \in Tally
  BY <1>10 DEF NoHistory, Tally
<1>11. Typed
  BY <1>2, <1>6, <1>8, <1>9, <1>10 DEF Typed
<1> QED
  BY <1>5, <1>7, <1>8, <1>10, <1>11 DEF BridgeInv

\* Every step keeps the invariant: one lemma above for each action.
LEMMA StepKeeps ==
    ASSUME BridgeInv, [BridgeNext]_bridgeVars
    PROVE  BridgeInv'
<1>1. CASE UNCHANGED bridgeVars
  BY <1>1 DEF bridgeVars, BridgeInv, Typed
<1>2. ASSUME NEW s \in Sprites, NEW e \in Effects, NEW shape \in Shapes, AddEffect(s, e, shape)
      PROVE  BridgeInv'
  BY <1>2, AddEffectKeeps
<1>3. ASSUME NEW e \in Effects, Resolve(e) PROVE BridgeInv'
  <2>1. CASE ResolveOriginal(e)
    BY <2>1, ResolveOriginalKeeps
  <2>2. CASE DeferEffect(e)
    BY <1>1, <2>2 DEF DeferEffect
  <2>3. CASE EnterEffect(e)
    BY <2>3, EnterEffectKeeps
  <2> QED
    BY <1>3, <2>1, <2>2, <2>3 DEF Resolve
<1>4. ASSUME NEW s \in Sprites, NEW c \in Setters, CallSet(s, c) PROVE BridgeInv'
  BY <1>4, SetOriginalKeeps, SetDeferredKeeps, EnterSetKeeps DEF CallSet
<1>5. CASE Prepare
  BY <1>5, RefuseKeeps, PassOnKeeps, TrackKeeps DEF Prepare
<1>6. CASE Finish
  BY <1>6, CloseUnknownKeeps, CloseEndedKeeps, CloseJournalledKeeps, CloseChangedKeeps,
     CloseRefusedKeeps, StoreKeeps, CompleteKeeps, CompleteFailedKeeps DEF Finish
<1>7. ASSUME NEW s \in Sprites, CapCheck(s) \/ Save(s) \/ Load(s) \/ ForeignEvent(s) PROVE BridgeInv'
  BY <1>7, CapCheckKeeps, SaveKeeps, LoadKeeps, ForeignEventKeeps
<1>8. ASSUME NEW s \in Sprites, NEW eligible \in BOOLEAN, NEW word \in FreshWords,
             Create(s, eligible, word)
      PROVE  BridgeInv'
  BY <1>8, CreateKeeps
<1>9. ASSUME NEW word \in DriftWords, Drift(word) PROVE BridgeInv'
  BY <1>9, DriftKeeps
<1>10. ASSUME NEW shape \in Shapes, Reshape(shape) PROVE BridgeInv'
  BY <1>10, ReshapeKeeps
<1>11. CASE EndSave
  BY <1>11, EndSaveKeeps
<1>12. CASE Restart
  BY <1>12, RestartKeeps
<1> QED
  BY <1>1, <1>2, <1>3, <1>4, <1>5, <1>6, <1>7, <1>8, <1>9, <1>10, <1>11, <1>12 DEF BridgeNext

LEMMA BridgeInvariant == BridgeSpec => []BridgeInv
<1>1. BridgeInv /\ [BridgeNext]_bridgeVars => BridgeInv'
  BY StepKeeps
<1> QED
  BY <1>1, InitKeeps, PTL DEF BridgeSpec

\* The invariant is what the bank promises.
LEMMA BridgeInvMeans == BridgeInv => NoXpLost
<1> SUFFICES ASSUME BridgeInv PROVE NoXpLost
  OBVIOUS
<1>1. ActorsKeepXp
  <2> SUFFICES ASSUME NEW s \in Sprites, aux[s].bound = actors[s].inc, ~aux[s].excluded, ~ForeignAt(s)
               PROVE  Balanced(actors[s].word, actors[s].owed, actors[s].replaced, aux[s])
    BY DEF ActorsKeepXp
  <2>1. ~Unsure(foreign, s)
    BY DEF ForeignAt, Unsure
  <2> QED
    BY <2>1, At DEF Even
<1>2. SavesKeepXp
  BY At DEF SavesKeepXp, SavedEven
<1> QED
  BY <1>1, <1>2 DEF NoXpLost

\* Whatever fails, changes, nests, ends or is loaded back while a change is made
\* (award_native.cpp, writer_native.cpp, identity_native.cpp), no XP of an actor
\* the bank knows is lost or created, and no save parts an account from its word.
THEOREM NothingIsLost == BridgeSpec => []NoXpLost
BY BridgeInvariant, BridgeInvMeans, PTL
-----------------------------------------------------------------------------
(* What no step touches.                                                    *)

LEMMA FinishUntouched == ASSUME BridgeInv, Finish PROVE Untouched
<1>1. CASE CloseUnknown
  BY <1>1, CloseUnknownKeeps
<1>2. CASE CloseEnded
  BY <1>2, CloseEndedKeeps
<1>3. CASE CloseJournalled
  BY <1>3, CloseJournalledKeeps
<1>4. CASE CloseChanged
  BY <1>4, CloseChangedKeeps
<1>5. CASE CloseRefused
  BY <1>5, CloseRefusedKeeps
<1>6. CASE Store
  BY <1>6, StoreKeeps
<1>7. CASE Complete
  BY <1>7, CompleteKeeps
<1>8. CASE CompleteFailed
  BY <1>8, CompleteFailedKeeps
<1> QED
  BY <1>1, <1>2, <1>3, <1>4, <1>5, <1>6, <1>7, <1>8 DEF Finish

\* A step that counts an event gives the address to another actor, or ends the
\* process.
LEMMA EventMoves ==
    ASSUME BridgeInv, tally' = [tally EXCEPT !.events = @ + 1]
    PROVE  tally'.events # tally.events
<1>1. PICK n \in Nat : n = tally.events /\ tally \in Tally
  BY BridgeParts, TallyFields
<1>2. tally'.events = n + 1
  BY <1>1 DEF Tally
<1> QED
  BY <1>1, <1>2

\* The steps that change an account.
LEMMA AccountMoves ==
    ASSUME BridgeInv, [BridgeNext]_bridgeVars
    PROVE  \/ UNCHANGED aux
           \/ Prepare
           \/ /\ CallOpen /\ Top.answer \in {"tracked", "stored"}
              /\ \A x \in Sprites \ {Top.sprite} : aux'[x] = aux[x]
           \/ \E x \in Sprites : CapCheck(x)
           \/ /\ tally'.events # tally.events
              /\ calls' = <<>> \/ \A x \in Sprites : ~Saving(x)
<1>1. CASE UNCHANGED bridgeVars
  BY <1>1 DEF bridgeVars
<1>2. ASSUME NEW s \in Sprites, NEW e \in Effects, NEW shape \in Shapes, AddEffect(s, e, shape)
      PROVE  UNCHANGED aux
  BY <1>2 DEF AddEffect
<1>3. ASSUME NEW e \in Effects, Resolve(e) PROVE UNCHANGED aux
  BY <1>3 DEF Resolve, ResolveOriginal, DeferEffect, EnterEffect, bridgeVars
<1>4. ASSUME NEW s \in Sprites, NEW c \in Setters, CallSet(s, c) PROVE UNCHANGED aux
  BY <1>4 DEF CallSet, SetOriginal, SetDeferred, EnterSet
<1>6. CASE Finish
  <2>1. aux \in [Sprites -> CarrierRecord]
    BY BridgeParts DEF Typed
  <2>2. CASE CloseUnknown \/ CloseEnded \/ CloseRefused \/ Store
    BY <2>2 DEF CloseUnknown, CloseEnded, CloseRefused, Store
  <2>3. CASE CloseJournalled
    BY <2>1, <2>3 DEF CloseJournalled, Asked
  <2>4. CASE CloseChanged
    BY <2>1, <2>4 DEF CloseChanged, Asked
  <2>5. CASE Complete
    BY <2>1, <2>5 DEF Complete
  <2>6. CASE CompleteFailed
    BY <2>1, <2>6 DEF CompleteFailed
  <2> QED
    BY <1>6, <2>2, <2>3, <2>4, <2>5, <2>6 DEF Finish
<1>7. ASSUME NEW s \in Sprites, Save(s) \/ ForeignEvent(s) PROVE UNCHANGED aux
  BY <1>7 DEF Save, ForeignEvent
<1>8. ASSUME NEW s \in Sprites, Load(s)
      PROVE  tally'.events # tally.events /\ \A x \in Sprites : ~Saving(x)
  BY <1>8, EventMoves DEF Load, Saving
<1>9. ASSUME NEW s \in Sprites, NEW eligible \in BOOLEAN, NEW word \in FreshWords,
             Create(s, eligible, word)
      PROVE  tally'.events # tally.events /\ \A x \in Sprites : ~Saving(x)
  BY <1>9, EventMoves DEF Create, Saving
<1>10. ASSUME NEW word \in DriftWords, Drift(word) PROVE UNCHANGED aux
  BY <1>10 DEF Drift
<1>11. ASSUME NEW shape \in Shapes, Reshape(shape) PROVE UNCHANGED aux
  BY <1>11 DEF Reshape
<1>12. CASE EndSave
  BY <1>12 DEF EndSave
<1>13. CASE Restart
  <2>1. PICK n \in Nat : n = tally.events
    BY BridgeParts, TallyFields
  <2>2. tally' = [NoHistory EXCEPT !.issued = tally.issued, !.events = n + 1] /\ calls' = <<>>
    BY <1>13, <2>1 DEF Restart
  <2>3. tally'.events = n + 1
    BY <2>2 DEF NoHistory
  <2> QED
    BY <2>1, <2>2, <2>3
<1> QED
  BY <1>1, <1>2, <1>3, <1>4, <1>6, <1>7, <1>8, <1>9, <1>10, <1>11, <1>12, <1>13 DEF BridgeNext

LEMMA PrepareFreezes ==
    ASSUME BridgeInv, Prepare, NEW s \in Sprites, Pending(aux[s]), aux[s].bound = actors[s].inc
    PROVE  aux'[s] = aux[s]
<1>1. aux \in [Sprites -> CarrierRecord] /\ Top.sprite \in Sprites
  BY BridgeParts, TopFact DEF Typed, Prepare, Refuse, PassOn, Track
<1>2. CASE s # Top.sprite
  BY <1>1, <1>2 DEF Prepare, Refuse, PassOn, Track
<1>3. CASE s = Top.sprite
  <2>1. Inherited(s) = aux[s]
    BY DEF Inherited
  <2>2. ~Refreshable(s, Inherited(s))
    BY <2>1 DEF Refreshable
  <2>3. aux' = aux \/ aux' = [aux EXCEPT ![s] = Inherited(s)]
    BY <1>3, <2>2 DEF Prepare, Refuse, PassOn, Track
  <2> QED
    BY <1>1, <2>1, <2>3
<1> QED
  BY <1>2, <1>3

LEMMA CapCheckMoves ==
    ASSUME BridgeInv, NEW x \in Sprites, CapCheck(x)
    PROVE  /\ ~Pending(aux[x]) /\ ~Saving(x)
           /\ \A s \in Sprites \ {x} : aux'[s] = aux[s]
<1>1. aux \in [Sprites -> CarrierRecord]
  BY BridgeParts DEF Typed
<1>2. ~Pending(aux[x]) /\ ~Saving(x)
  BY DEF CapCheck, Refreshable, CanMutate
<1> QED
  BY <1>1, <1>2 DEF CapCheck

LEMMA NoCallWhileSaving ==
    ASSUME BridgeInv, NEW s \in Sprites, Saving(s)
    PROVE  ~CallOpen
<1>1. PICK i \in 1..Len(calls) : calls[i].bridge = "save"
  BY BridgeParts DEF Saving
<1> SUFFICES ASSUME CallOpen PROVE FALSE
  OBVIOUS
<1> QED
  BY <1>1, TopFact

LEMMA StepIsHandsOff ==
    ASSUME BridgeInv, [BridgeNext]_bridgeVars
    PROVE  \A s \in Sprites : UnknownIsNotWritten(s) /\ JournalFreezesAccount(s)
<1> SUFFICES ASSUME NEW s \in Sprites PROVE UnknownIsNotWritten(s) /\ JournalFreezesAccount(s)
  OBVIOUS
<1>1. UnknownIsNotWritten(s)
  <2> SUFFICES ASSUME Top.sprite = s, s \in foreign, Finish PROVE actors'[s].word = actors[s].word
    BY DEF UnknownIsNotWritten
  <2> QED
    BY FinishUntouched DEF Untouched
<1>2. JournalFreezesAccount(s)
  <2> SUFFICES ASSUME Pending(aux[s]), aux[s].bound = actors[s].inc,
                      tally'.events = tally.events,
                      ~(CallOpen /\ Top.sprite = s /\ Top.answer \in {"tracked", "stored"})
               PROVE  aux'[s] = aux[s]
    BY DEF JournalFreezesAccount
  <2>1. CASE Prepare
    BY <2>1, PrepareFreezes
  <2>2. CASE \E x \in Sprites : CapCheck(x)
    BY <2>2, CapCheckMoves
  <2> QED
    BY <2>1, <2>2, AccountMoves
<1> QED
  BY <1>1, <1>2

LEMMA StepIsQuiet ==
    ASSUME BridgeInv, [BridgeNext]_bridgeVars
    PROVE  \A s \in Sprites :
              Saving(s) /\ Saving(s)' /\ actors'[s].inc = actors[s].inc => aux'[s] = aux[s]
<1> SUFFICES ASSUME NEW s \in Sprites, Saving(s), Saving(s)' PROVE aux'[s] = aux[s]
  OBVIOUS
<1>1. ~CallOpen
  BY NoCallWhileSaving
<1>2. ~Prepare
  BY <1>1 DEF Prepare, Refuse, PassOn, Track
<1>3. ~(\E x \in Sprites : CapCheck(x))
  BY CapCheckMoves DEF Saving
<1>4. calls' # <<>>
  BY DEF Saving
<1>5. ~(\A x \in Sprites : ~Saving(x))
  OBVIOUS
<1> QED
  BY <1>1, <1>2, <1>3, <1>4, <1>5, AccountMoves

\* A call never stores into an actor another thread may have replaced
\* (CBMI_Lifetime), and no step but those of the call that published it touches
\* an unresolved journal or its account (R.Refresh).
THEOREM NothingIsTouched == BridgeSpec => HandsOff
<1>1. BridgeInv /\ [BridgeNext]_bridgeVars
         => [\A s \in Sprites : UnknownIsNotWritten(s) /\ JournalFreezesAccount(s)]_bridgeVars
  BY StepIsHandsOff
<1> QED
  BY <1>1, BridgeInvariant, PTL DEF BridgeSpec, HandsOff

\* While any actor is marshalled no account changes: a save and a change are
\* never open together (CBMI_CanMutate, CBMI_Marshal).
THEOREM SavesAreQuiet == BridgeSpec => SaveIsQuiet
<1>1. BridgeInv /\ [BridgeNext]_bridgeVars
         => [\A s \in Sprites :
                (Saving(s) /\ Saving(s)' /\ actors'[s].inc = actors[s].inc)
                    => aux'[s] = aux[s]]_bridgeVars
  BY StepIsQuiet
<1> QED
  BY <1>1, BridgeInvariant, PTL DEF BridgeSpec, SaveIsQuiet
-----------------------------------------------------------------------------
(* Every change counts once: what the invariant says of it.                 *)

\* A call that has not stored, on an effect of a living actor: the effect is
\* that actor's and is not done.
Holding(f, A) ==
    f.bridge # "save" /\ f.answer # "stored" /\ f.effect # None /\ f.inc = A[f.sprite].inc

InHand(C, A, E) ==
    \A i \in 1..Len(C) : Holding(C[i], A) =>
        E[C[i].effect].sprite = C[i].sprite /\ ~E[C[i].effect].done

\* A listed effect has run once, or a record of its living actor names it, or it
\* is still to be resolved.
Paid(A, E, U) ==
    \A e \in Effects : E[e].sprite # None =>
        IF ~E[e].done THEN E[e].ran = 0
        ELSE \/ E[e].ran = 1
             \/ E[e].ran = 0 /\ \E b \in Bridges :
                    U[b][E[e].sprite] = [inc |-> A[E[e].sprite].inc, effect |-> e]

\* A record of a living actor and an open call of it exclude each other, and no
\* record names an incarnation to come.
OnRecord(C, A, U, N) ==
    \A b \in Bridges, s \in Sprites :
        U[b][s] # NoRecord =>
            /\ U[b][s].inc # 0 /\ U[b][s].inc <= N
            /\ U[b][s].inc = A[s].inc => ~Open(C, s)

EffectsHeld(C, A, E, U, N) == InHand(C, A, E) /\ Paid(A, E, U) /\ OnRecord(C, A, U, N)

\* The setter calls that have not stored.
Unstored(f) == f.bridge = "write" /\ f.effect = None /\ f.answer # "stored"
SetterCalls(C) == {i \in 1..Len(C) : Unstored(C[i])}

\* The history t accounts for every setter write: those that wait, w, and those
\* of the calls in C.
Squared(t, w, C) == t.sets = t.stored + t.ended + Len(w) + Cardinality(SetterCalls(C))

Waits(w, C) == \A i \in 1..Len(w) : ~w[i].kept => Open(C, w[i].sprite)

\* ChangesCountOnce is not kept by a step either: that an effect runs once needs
\* that the open call still has it in hand, and that the receipt of a journal
\* stays needs that no call of its living actor is open to write another.
PaidInv ==
    /\ EffectsHeld(calls, actors, effects, uncertain, nextInc)
    /\ Squared(tally, deferred, calls) /\ Waits(deferred, calls)
-----------------------------------------------------------------------------
(* The setter calls, and the writes that wait.                              *)

LEMMA SettersFact ==
    ASSUME NEW C \in Seq(CallRecord)
    PROVE  /\ IsFiniteSet(SetterCalls(C)) /\ Cardinality(SetterCalls(C)) \in Nat
           /\ SetterCalls(C) \subseteq 1..Len(C)
<1>1. Len(C) \in Nat
  BY SeqFact
<1>2. IsFiniteSet(1..Len(C))
  BY <1>1, FS_Interval
<1>3. SetterCalls(C) \subseteq 1..Len(C)
  BY DEF SetterCalls
<1> QED
  BY <1>2, <1>3, FS_Subset, FS_CardinalityType

\* One call more is one setter call more, if it is one.
LEMMA OneMoreCall ==
    ASSUME NEW D \in Seq(CallRecord), NEW C \in Seq(CallRecord), Len(C) = Len(D) + 1,
           \A i \in 1..Len(D) : C[i] = D[i]
    PROVE  Cardinality(SetterCalls(C)) =
              Cardinality(SetterCalls(D)) + (IF Unstored(C[Len(C)]) THEN 1 ELSE 0)
<1>1. PICK n \in Nat : n = Len(D)
  BY SeqFact
<1>2. \A i : i \in 1..(n + 1) <=> i \in 1..n \/ i = n + 1
  BY <1>1
<1>3. /\ IsFiniteSet(SetterCalls(D)) /\ Cardinality(SetterCalls(D)) \in Nat
      /\ n + 1 \notin SetterCalls(D)
  BY <1>1, SettersFact
<1>4. CASE Unstored(C[n + 1])
  <2>1. SetterCalls(C) = SetterCalls(D) \cup {n + 1}
    BY <1>1, <1>2, <1>4 DEF SetterCalls
  <2>2. Cardinality(SetterCalls(C)) = Cardinality(SetterCalls(D)) + 1
    BY <1>3, <2>1, FS_AddElement
  <2> QED
    BY <1>1, <1>4, <2>2
<1>5. CASE ~Unstored(C[n + 1])
  <2>1. SetterCalls(C) = SetterCalls(D)
    BY <1>1, <1>2, <1>5 DEF SetterCalls
  <2> QED
    BY <1>1, <1>3, <1>5, <2>1
<1> QED
  BY <1>4, <1>5

\* The innermost call, and those behind it.
LEMMA BehindFact ==
    ASSUME BridgeInv, calls # <<>>
    PROVE  /\ Front(calls) \in Seq(CallRecord) /\ Len(calls) = Len(Front(calls)) + 1
           /\ Len(Front(calls)) \in Nat /\ Top \in CallRecord /\ Top = calls[Len(calls)]
           /\ \A i \in 1..Len(Front(calls)) : i \in 1..Len(calls) /\ Front(calls)[i] = calls[i]
           /\ \A i \in 1..Len(calls) : i = Len(calls) \/ i \in 1..Len(Front(calls))
           /\ \A x : Open(Front(calls), x) => Open(calls, x)
           /\ \A x : Open(calls, x) => Open(Front(calls), x) \/ (Top.bridge # "save" /\ Top.sprite = x)
           /\ Cardinality(SetterCalls(calls)) =
                Cardinality(SetterCalls(Front(calls))) + (IF Unstored(Top) THEN 1 ELSE 0)
<1>1. calls \in Seq(CallRecord)
  BY BridgeParts
<1>2. PICK D \in Seq(CallRecord) : D = Front(calls)
  BY <1>1, FrontFact
<1>3. PICK n \in Nat \ {0} : /\ n = Len(calls) /\ Len(D) = n - 1 /\ Len(D) \in Nat
                             /\ \A i \in 1..(n - 1) : D[i] = calls[i]
                             /\ Last(calls) = calls[n] /\ Last(calls) \in CallRecord
  BY <1>1, <1>2, FrontFact
<1>4. n = Len(D) + 1 /\ (\A i \in 1..Len(D) : i \in 1..n /\ D[i] = calls[i])
      /\ (\A i \in 1..n : i = n \/ i \in 1..Len(D))
  BY <1>3
<1>5. Top = calls[n] /\ Top \in CallRecord
  BY <1>3 DEF Top
<1>6. DOMAIN calls = 1..n /\ DOMAIN D = 1..Len(D)
  BY <1>1, <1>2, <1>3, SeqFact
<1>7. \A x : Open(D, x) => Open(calls, x)
  BY <1>4, <1>6 DEF Open
<1>8. \A x : Open(calls, x) => Open(D, x) \/ (Top.bridge # "save" /\ Top.sprite = x)
  BY <1>4, <1>5, <1>6 DEF Open
<1>9. Cardinality(SetterCalls(calls)) = Cardinality(SetterCalls(D)) + (IF Unstored(Top) THEN 1 ELSE 0)
  BY <1>1, <1>3, <1>4, <1>5, OneMoreCall
<1> QED
  BY <1>2, <1>3, <1>4, <1>5, <1>7, <1>8, <1>9

\* No other call of the innermost call's actor is open.
LEMMA AloneFact ==
    ASSUME BridgeInv, CallOpen
    PROVE  ~Open(Front(calls), Top.sprite) /\ Open(calls, Top.sprite)
<1>1. calls # <<>>
  BY DEF CallOpen
<1>2. PICK n \in Nat \ {0} : n = Len(calls)
  BY TopFact
<1>3. PICK D \in Seq(CallRecord) : /\ D = Front(calls) /\ Len(D) = n - 1
                                   /\ \A i \in 1..Len(D) : D[i] = calls[i]
  BY <1>1, <1>2, BehindFact
<1>4. DOMAIN D = 1..Len(D) /\ DOMAIN calls = 1..n
  BY <1>2, <1>3, BridgeParts, SeqFact
<1>5. \A i \in 1..Len(D) : D[i].sprite # Top.sprite
  BY <1>2, <1>3, TopFact
<1>6. ~Open(D, Top.sprite)
  BY <1>4, <1>5 DEF Open
<1>7. Open(calls, Top.sprite)
  <2>1. n \in 1..n /\ Top = calls[n] /\ Top.bridge # "save"
    BY <1>2, TopFact
  <2> QED
    BY <1>4, <2>1 DEF Open
<1> QED
  BY <1>3, <1>6, <1>7

\* A setter call that has not stored is a call on no effect.
LEMMA SetterTop ==
    ASSUME BridgeInv, CallOpen
    PROVE  Unstored(Top) <=> Top.effect = None /\ Top.answer # "stored"
BY TopFact DEF Unstored, Asking

\* What waited for the innermost call lands, is kept or has ended; the rest
\* still waits for its own.
LEMMA ClosePays ==
    ASSUME BridgeInv, CallOpen, NEW a \in ActorRecord, a.inc = actors[Top.sprite].inc,
           NEW writes \in Seq(WaitingWrite), NEW t \in Tally, Close(a, writes, t),
           Squared(t, writes, Front(calls)), Waits(writes, calls)
    PROVE  /\ calls' = Front(calls)
           /\ \A x \in Sprites : actors'[x].inc = actors[x].inc
           /\ Squared(tally', deferred', Front(calls)) /\ Waits(deferred', Front(calls))
<1>1. PICK s \in Sprites : s = Top.sprite /\ calls # <<>>
  BY TopFact DEF CallOpen
<1>2. PICK x : x = Settling(s, a, writes, t)[Len(writes)]
  OBVIOUS
<1>3. /\ calls' = Front(calls) /\ actors' = [actors EXCEPT ![s] = x.actor]
      /\ deferred' = x.waiting /\ tally' = x.tally
  BY <1>1, <1>2, AloneFact DEF Close
<1>4. SettledSoFar(s, a, writes, t, x, Len(writes))
  BY <1>2, SettlingFact
<1>5. x \in SettleState /\ Follows(a, x.actor) /\ Booked(x, t, Len(writes))
  BY <1>4 DEF SettledSoFar
<1>6. \A y \in Sprites : actors'[y].inc = actors[y].inc
  <2>1. x.actor.inc = actors[s].inc
    BY <1>1, <1>5 DEF Follows
  <2>2. actors \in [Sprites -> ActorRecord]
    BY BridgeParts DEF Typed
  <2> QED
    BY <1>3, <2>1, <2>2
<1>7. Squared(x.tally, x.waiting, Front(calls))
  <2>1. x.tally.sets = t.sets
        /\ x.tally.stored + x.tally.ended + Len(x.waiting) = t.stored + t.ended + Len(writes)
    BY <1>5 DEF Booked
  <2>2. t.sets = t.stored + t.ended + Len(writes) + Cardinality(SetterCalls(Front(calls)))
    BY DEF Squared
  <2>3. x.tally \in Tally /\ x.waiting \in Seq(WaitingWrite)
    BY <1>5, StateFact
  <2>4. PICK m \in Nat : m = x.tally.stored + x.tally.ended + Len(x.waiting)
    BY <2>3, TallyFields, SeqFact
  <2>5. m = t.stored + t.ended + Len(writes)
    BY <2>1, <2>4
  <2>6. x.tally.sets = m + Cardinality(SetterCalls(Front(calls)))
    BY <2>1, <2>2, <2>5
  <2> QED
    BY <2>4, <2>6 DEF Squared
<1>8. Waits(x.waiting, Front(calls))
  <2> SUFFICES ASSUME NEW j \in 1..Len(x.waiting), ~x.waiting[j].kept
               PROVE  Open(Front(calls), x.waiting[j].sprite)
    BY DEF Waits
  <2>1. x.waiting[j].sprite # s /\ \E k \in 1..Len(writes) : x.waiting[j] = writes[k]
    BY <1>4 DEF SettledSoFar
  <2>2. Open(calls, x.waiting[j].sprite)
    BY <2>1 DEF Waits
  <2> QED
    BY <1>1, <2>1, <2>2, BehindFact
<1> QED
  BY <1>3, <1>6, <1>7, <1>8
-----------------------------------------------------------------------------
(* The effects.                                                             *)

\* A call that has the effect in hand as another did.
SameCall(f, g) ==
    /\ f.bridge = g.bridge /\ f.sprite = g.sprite /\ f.effect = g.effect /\ f.inc = g.inc
    /\ f.answer # "stored" => g.answer # "stored"

SameCalls(D, C) ==
    \A i \in 1..Len(D) : D[i].bridge = "save" \/ \E j \in 1..Len(C) : SameCall(D[i], C[j])
SameEffects(F, E) ==
    \A e \in Effects : F[e].sprite = E[e].sprite /\ F[e].done = E[e].done /\ F[e].ran = E[e].ran
SameActors(B, A) == \A s \in Sprites : B[s].inc = A[s].inc

\* Nothing changes that the effects depend on.
LEMMA SameHeld ==
    ASSUME NEW C \in Seq(CallRecord), NEW D \in Seq(CallRecord), NEW A, NEW B, NEW E \in [Effects -> EffectRecord], NEW F,
           NEW U, NEW N, EffectsHeld(C, A, E, U, N),
           SameActors(B, A), SameEffects(F, E), SameCalls(D, C)
    PROVE  EffectsHeld(D, B, F, U, N)
<1> USE DEF SameActors, SameEffects, SameCalls
<1>1. \A i \in 1..Len(D) : D[i].sprite \in Sprites /\ D[i].effect \in Effects \cup {None}
  BY SeqFact, CallFact
<1>2. \A i \in 1..Len(C) : C[i].sprite \in Sprites /\ C[i].effect \in Effects \cup {None}
  BY SeqFact, CallFact
<1>3. InHand(D, B, F)
  <2> SUFFICES ASSUME NEW i \in 1..Len(D), Holding(D[i], B)
               PROVE  F[D[i].effect].sprite = D[i].sprite /\ ~F[D[i].effect].done
    BY DEF InHand
  <2>1. PICK j \in 1..Len(C) : SameCall(D[i], C[j])
    BY DEF Holding
  <2>2. Holding(C[j], A)
    BY <1>1, <2>1 DEF SameCall, Holding
  <2>3. E[C[j].effect].sprite = C[j].sprite /\ ~E[C[j].effect].done
    BY <2>2 DEF EffectsHeld, InHand
  <2>4. D[i].effect \in Effects
    BY <1>1 DEF Holding
  <2> QED
    BY <2>1, <2>3, <2>4 DEF SameCall
<1>4. Paid(B, F, U)
  <2> SUFFICES ASSUME NEW e \in Effects, F[e].sprite # None
               PROVE  IF ~F[e].done THEN F[e].ran = 0
                      ELSE \/ F[e].ran = 1
                           \/ F[e].ran = 0 /\ \E b \in Bridges :
                                 U[b][F[e].sprite] = [inc |-> B[F[e].sprite].inc, effect |-> e]
    BY DEF Paid
  <2>1. E[e].sprite \in Sprites
    BY DEF EffectRecord
  <2>2. B[F[e].sprite].inc = A[E[e].sprite].inc
    BY <2>1
  <2> QED
    BY <2>1, <2>2 DEF EffectsHeld, Paid
<1>5. \A x : Open(D, x) => Open(C, x)
  <2>1. DOMAIN D = 1..Len(D) /\ DOMAIN C = 1..Len(C)
    BY SeqFact
  <2> QED
    BY <2>1 DEF Open, SameCall
<1>6. OnRecord(D, B, U, N)
  BY <1>5 DEF EffectsHeld, OnRecord
<1> QED
  BY <1>3, <1>4, <1>6 DEF EffectsHeld

\* Actors may change in all but their numbers.
LEMMA IncsHeld ==
    ASSUME NEW C \in Seq(CallRecord), NEW A, NEW B, NEW E \in [Effects -> EffectRecord], NEW U, NEW N,
           EffectsHeld(C, A, E, U, N), \A s \in Sprites : B[s].inc = A[s].inc
    PROVE  EffectsHeld(C, B, E, U, N)
<1>1. SameActors(B, A) /\ SameEffects(E, E) /\ SameCalls(C, C)
  BY DEF SameActors, SameEffects, SameCalls, SameCall
<1> QED
  BY <1>1, SameHeld

LEMMA HeldParts ==
    ASSUME BridgeInv, PaidInv
    PROVE  /\ EffectsHeld(calls, actors, effects, uncertain, nextInc)
           /\ InHand(calls, actors, effects) /\ Paid(actors, effects, uncertain)
           /\ OnRecord(calls, actors, uncertain, nextInc)
           /\ Squared(tally, deferred, calls) /\ Waits(deferred, calls)
           /\ effects \in [Effects -> EffectRecord] /\ calls \in Seq(CallRecord)
BY DEF PaidInv, EffectsHeld, BridgeInv, Typed

\* The innermost call has returned.
LEMMA FrontHeld ==
    ASSUME BridgeInv, PaidInv, calls # <<>>
    PROVE  EffectsHeld(Front(calls), actors, effects, uncertain, nextInc)
<1>1. PICK D \in Seq(CallRecord) : D = Front(calls) /\ \A i \in 1..Len(D) : i \in 1..Len(calls) /\ D[i] = calls[i]
  BY BehindFact
<1>2. SameCalls(D, calls)
  BY <1>1 DEF SameCalls, SameCall
<1>3. SameActors(actors, actors) /\ SameEffects(effects, effects)
  BY DEF SameActors, SameEffects
<1>4. EffectsHeld(D, actors, effects, uncertain, nextInc)
  BY <1>2, <1>3, HeldParts, SameHeld
<1> QED
  BY <1>1, <1>4

\* The same, and its record stays.
LEMMA RecordHeld ==
    ASSUME BridgeInv, PaidInv, CallOpen
    PROVE  EffectsHeld(Front(calls), actors, effects, Record(Top), nextInc)
<1>1. PICK b \in Bridges, s \in Sprites, r \in Receipt :
        b = Top.bridge /\ s = Top.sprite /\ r = [inc |-> Top.inc, effect |-> Top.effect]
  BY TopFact, CallFact DEF Receipt
<1>2. PICK U : U = Record(Top)
  OBVIOUS
<1>3. \A c \in Bridges, x \in Sprites : U[c][x] = IF c = b /\ x = s THEN r ELSE uncertain[c][x]
  BY <1>1, <1>2, RecordFact DEF Record
<1>4. EffectsHeld(Front(calls), actors, effects, uncertain, nextInc)
  BY FrontHeld DEF CallOpen
<1>5. OnRecord(Front(calls), actors, U, nextInc)
  <2> SUFFICES ASSUME NEW c \in Bridges, NEW x \in Sprites, U[c][x] # NoRecord
               PROVE  /\ U[c][x].inc # 0 /\ U[c][x].inc <= nextInc
                      /\ U[c][x].inc = actors[x].inc => ~Open(Front(calls), x)
    BY DEF OnRecord
  <2>1. CASE c = b /\ x = s
    <3>1. U[c][x].inc = Top.inc
      BY <1>1, <1>3, <2>1
    <3> QED
      BY <1>1, <2>1, <3>1, TopFact, AloneFact
  <2>2. CASE ~(c = b /\ x = s)
    BY <1>3, <1>4, <2>2 DEF EffectsHeld, OnRecord
  <2> QED
    BY <2>1, <2>2
<1>6. Paid(actors, effects, U)
  <2> SUFFICES ASSUME NEW e \in Effects, effects[e].sprite # None, effects[e].done, effects[e].ran # 1
               PROVE  /\ effects[e].ran = 0
                      /\ \E c \in Bridges : U[c][effects[e].sprite] = [inc |-> actors[effects[e].sprite].inc, effect |-> e]
    BY HeldParts DEF Paid
  <2>1. PICK x \in Sprites : x = effects[e].sprite
    BY ListedFact
  <2>2. PICK c \in Bridges : effects[e].ran = 0 /\ uncertain[c][x] = [inc |-> actors[x].inc, effect |-> e]
    BY <2>1, HeldParts DEF Paid
  <2>3. x # s
    <3>1. uncertain[c][x].inc = actors[x].inc /\ uncertain[c][x].effect # None
      BY <2>2, ListedFact
    <3>2. uncertain[c][x] # NoRecord
      BY <3>1 DEF NoRecord
    <3>3. ~Open(calls, x)
      BY <3>1, <3>2, HeldParts DEF OnRecord
    <3> QED
      BY <1>1, <3>3, AloneFact
  <2> QED
    BY <1>3, <2>1, <2>2, <2>3
<1> QED
  BY <1>2, <1>4, <1>5, <1>6 DEF EffectsHeld

\* An effect that no other call has in hand is done: by its leaf, or with a
\* record that names it.
LEMMA DoneHeld ==
    ASSUME NEW C \in Seq(CallRecord), NEW A, NEW E \in [Effects -> EffectRecord], NEW F, NEW U, NEW N,
           EffectsHeld(C, A, E, U, N), NEW e \in Effects, ~E[e].done, E[e].sprite # None,
           \A i \in 1..Len(C) : Holding(C[i], A) => C[i].effect # e,
           \A x \in Effects \ {e} : F[x] = E[x],
           F[e].sprite = E[e].sprite, F[e].done,
           \/ F[e].ran = E[e].ran + 1
           \/ F[e].ran = E[e].ran /\ \E b \in Bridges : U[b][E[e].sprite] = [inc |-> A[E[e].sprite].inc, effect |-> e]
    PROVE  EffectsHeld(C, A, F, U, N)
<1>1. \A i \in 1..Len(C) : C[i].effect \in Effects \cup {None}
  BY SeqFact, CallFact
<1>2. InHand(C, A, F)
  <2> SUFFICES ASSUME NEW i \in 1..Len(C), Holding(C[i], A)
               PROVE  F[C[i].effect].sprite = C[i].sprite /\ ~F[C[i].effect].done
    BY DEF InHand
  <2>1. C[i].effect \in Effects \ {e}
    BY <1>1 DEF Holding
  <2> QED
    BY <2>1 DEF EffectsHeld, InHand
<1>3. E[e].ran = 0
  BY DEF EffectsHeld, Paid
<1>4. Paid(A, F, U)
  BY <1>3 DEF EffectsHeld, Paid
<1> QED
  BY <1>2, <1>4 DEF EffectsHeld

LEMMA DoneFact ==
    ASSUME BridgeInv, NEW e \in Effects
    PROVE  /\ \A x \in Effects \ {e} : Ran(e)[x] = effects[x] /\ Completed(e)[x] = effects[x]
           /\ Ran(e)[e].sprite = effects[e].sprite /\ Ran(e)[e].done /\ Ran(e)[e].ran = effects[e].ran + 1
           /\ Completed(e)[e].sprite = effects[e].sprite /\ Completed(e)[e].done
           /\ Completed(e)[e].ran = effects[e].ran
<1>1. effects \in [Effects -> EffectRecord]
  BY ListedFact
<1>2. PICK r \in EffectRecord, n \in Nat : r = effects[e] /\ n = effects[e].ran + 1
  BY <1>1 DEF EffectRecord
<1> DEFINE q == [r EXCEPT !.done = TRUE, !.ran = n]  p == [r EXCEPT !.done = TRUE]
<1>3. q.sprite = r.sprite /\ q.done /\ q.ran = n /\ p.sprite = r.sprite /\ p.done /\ p.ran = r.ran
  BY DEF EffectRecord
<1>4. Ran(e) = [effects EXCEPT ![e] = q] /\ Completed(e) = [effects EXCEPT ![e] = p]
  BY <1>1, <1>2 DEF Ran, Completed
<1> HIDE DEF p, q
<1>5. /\ \A x \in Effects \ {e} : Ran(e)[x] = effects[x] /\ Completed(e)[x] = effects[x]
      /\ Ran(e)[e] = q /\ Completed(e)[e] = p
  BY <1>1, <1>4
<1> QED
  BY <1>2, <1>3, <1>5

\* The effect of the innermost call, before it stores.
LEMMA TopEffect ==
    ASSUME BridgeInv, PaidInv, CallOpen, Top.answer # "stored", Top.effect # None,
           Top.inc = actors[Top.sprite].inc
    PROVE  /\ Top.effect \in Effects
           /\ effects[Top.effect].sprite = Top.sprite /\ ~effects[Top.effect].done
           /\ effects[Top.effect].sprite # None
           /\ \A i \in 1..Len(Front(calls)) :
                 Holding(Front(calls)[i], actors) => Front(calls)[i].effect # Top.effect
<1>1. Top.effect \in Effects /\ Top.sprite \in Sprites
  BY TopFact
<1>2. Holding(Top, actors)
  BY TopFact DEF Holding
<1>3. effects[Top.effect].sprite = Top.sprite /\ ~effects[Top.effect].done
  <2>1. Top = calls[Len(calls)] /\ Len(calls) \in 1..Len(calls)
    BY TopFact
  <2> QED
    BY <1>2, <2>1, HeldParts DEF InHand
<1>4. ASSUME NEW i \in 1..Len(Front(calls)), Holding(Front(calls)[i], actors), Front(calls)[i].effect = Top.effect
      PROVE  FALSE
  <2>1. PICK D \in Seq(CallRecord) : D = Front(calls)
    BY BehindFact DEF CallOpen
  <2>2. D[i] = calls[i] /\ i \in 1..Len(calls) /\ DOMAIN D = 1..Len(D)
    BY <2>1, BehindFact, SeqFact DEF CallOpen
  <2>3. D[i].sprite = Top.sprite
    BY <1>3, <1>4, <2>1, <2>2, HeldParts DEF InHand
  <2>4. Open(D, Top.sprite)
    BY <1>4, <2>1, <2>2, <2>3 DEF Open, Holding
  <2> QED
    BY <2>1, <2>4, AloneFact
<1> QED
  BY <1>1, <1>3, <1>4, BridgeAssumption

\* It is done by its leaf, and the call returns.
LEMMA RanHeld ==
    ASSUME BridgeInv, PaidInv, CallOpen, Top.answer # "stored", Top.effect # None,
           Top.inc = actors[Top.sprite].inc
    PROVE  EffectsHeld(Front(calls), actors, Ran(Top.effect), uncertain, nextInc)
<1>1. PICK D \in Seq(CallRecord) : D = Front(calls)
  BY BehindFact DEF CallOpen
<1>2. PICK F : F = Ran(Top.effect)
  OBVIOUS
<1>3. EffectsHeld(D, actors, effects, uncertain, nextInc)
  BY <1>1, FrontHeld DEF CallOpen
<1>4. PICK e \in Effects : e = Top.effect
  BY TopEffect
<1>5. /\ \A x \in Effects \ {e} : F[x] = effects[x]
      /\ F[e].sprite = effects[e].sprite /\ F[e].done /\ F[e].ran = effects[e].ran + 1
  BY <1>2, <1>4, DoneFact
<1>6. /\ ~effects[e].done /\ effects[e].sprite # None
      /\ \A i \in 1..Len(D) : Holding(D[i], actors) => D[i].effect # e
  BY <1>1, <1>4, TopEffect
<1>7. EffectsHeld(D, actors, F, uncertain, nextInc)
  BY <1>3, <1>5, <1>6, HeldParts, DoneHeld
<1> QED
  BY <1>1, <1>2, <1>7

\* It is done without XP, the record of its call names it, and the call returns.
LEMMA CompletedHeld ==
    ASSUME BridgeInv, PaidInv, CallOpen, Top.answer # "stored", Top.effect # None,
           Top.inc = actors[Top.sprite].inc
    PROVE  EffectsHeld(Front(calls), actors, Completed(Top.effect), Record(Top), nextInc)
<1>1. PICK D \in Seq(CallRecord) : D = Front(calls)
  BY BehindFact DEF CallOpen
<1>2. PICK F : F = Completed(Top.effect)
  OBVIOUS
<1>3. PICK U : U = Record(Top)
  OBVIOUS
<1>4. EffectsHeld(D, actors, effects, U, nextInc)
  BY <1>1, <1>3, RecordHeld
<1>5. PICK e \in Effects : e = Top.effect
  BY TopEffect
<1>6. /\ \A x \in Effects \ {e} : F[x] = effects[x]
      /\ F[e].sprite = effects[e].sprite /\ F[e].done /\ F[e].ran = effects[e].ran
  BY <1>2, <1>5, DoneFact
<1>7. /\ ~effects[e].done /\ effects[e].sprite # None
      /\ \A i \in 1..Len(D) : Holding(D[i], actors) => D[i].effect # e
  BY <1>1, <1>5, TopEffect
<1>8. \E b \in Bridges : U[b][effects[e].sprite] = [inc |-> actors[effects[e].sprite].inc, effect |-> e]
  <2>1. PICK b \in Bridges, s \in Sprites : b = Top.bridge /\ s = Top.sprite /\ s = effects[e].sprite
    BY <1>5, TopFact, TopEffect
  <2>2. U[b][s] = [inc |-> Top.inc, effect |-> e]
    BY <1>3, <1>5, <2>1, RecordFact DEF Record
  <2> QED
    BY <2>1, <2>2
<1>9. EffectsHeld(D, actors, F, U, nextInc)
  BY <1>4, <1>6, <1>7, <1>8, HeldParts, DoneHeld
<1> QED
  BY <1>1, <1>2, <1>3, <1>9
-----------------------------------------------------------------------------
(* Each step counts every change once.                                      *)

\* A step on which neither an effect nor a setter write depends.
LEMMA QuietPays ==
    ASSUME BridgeInv, PaidInv, BridgeInv', SameActors(actors', actors), SameEffects(effects', effects),
           SameCalls(calls', calls), uncertain' = uncertain, nextInc' = nextInc,
           Squared(tally', deferred', calls'), Waits(deferred', calls')
    PROVE  PaidInv'
<1>1. PICK D \in Seq(CallRecord) : D = calls'
  BY DEF BridgeInv, Typed
<1>2. PICK F, B : F = effects' /\ B = actors'
  OBVIOUS
<1>3. SameActors(B, actors) /\ SameEffects(F, effects) /\ SameCalls(D, calls)
  BY <1>1, <1>2
<1>4. EffectsHeld(D, B, F, uncertain, nextInc)
  BY <1>3, HeldParts, SameHeld
<1> QED
  BY <1>1, <1>2, <1>4 DEF PaidInv

LEMMA SameAsBefore == SameActors(actors, actors) /\ SameEffects(effects, effects) /\ SameCalls(calls, calls)
BY DEF SameActors, SameEffects, SameCalls, SameCall

\* The history moves with what it counts.
LEMMA SquaredAs ==
    ASSUME BridgeInv, PaidInv, NEW t, NEW w, NEW C \in Seq(CallRecord),
           NEW g \in Nat, NEW k \in Nat, NEW l \in Nat, NEW m \in Nat, NEW n \in Nat, NEW h \in Nat,
           t.sets = tally.sets + g, t.stored = tally.stored + k, t.ended = tally.ended + l,
           Len(w) = Len(deferred) + m,
           Cardinality(SetterCalls(C)) + n = Cardinality(SetterCalls(calls)) + h,
           g + n = k + l + m + h
    PROVE  Squared(t, w, C)
<1>1. PICK a, b, c, d, e, q \in Nat : /\ a = tally.sets /\ b = tally.stored /\ c = tally.ended
                                     /\ d = Len(deferred) /\ e = Cardinality(SetterCalls(calls))
                                     /\ q = Cardinality(SetterCalls(C))
  BY BridgeParts, TallyFields, SeqFact, SettersFact
<1>2. a = b + c + d + e
  BY <1>1, HeldParts DEF Squared
<1>3. q + n = e + h
  BY <1>1
<1>4. a + g = (b + k) + (c + l) + (d + m) + q
  BY <1>2, <1>3
<1> QED
  BY <1>1, <1>4 DEF Squared

LEMMA AddEffectPays ==
    ASSUME BridgeInv, PaidInv, NEW s \in Sprites, NEW e \in Effects, NEW shape \in Shapes, AddEffect(s, e, shape)
    PROVE  PaidInv'
<1>1. /\ effects' = [effects EXCEPT ![e] = [sprite |-> s, shape |-> shape, done |-> FALSE, ran |-> 0]]
      /\ effects[e] = Free \/ (effects[e].done /\ ~Resolving(e))
      /\ UNCHANGED <<actors, calls, uncertain, deferred, nextInc>>
      /\ tally' = [tally EXCEPT !.issued = @ + 1]
  BY DEF AddEffect
<1>2. /\ effects'[e].sprite = s /\ ~effects'[e].done /\ effects'[e].ran = 0
      /\ \A x \in Effects \ {e} : effects'[x] = effects[x]
  BY <1>1, HeldParts
<1>3. ASSUME NEW i \in 1..Len(calls), Holding(calls[i], actors)
      PROVE  calls[i].effect \in Effects \ {e}
  <2>1. calls[i].effect \in Effects /\ calls[i].sprite \in Sprites /\ i \in DOMAIN calls
    BY <1>3, BridgeParts, SeqFact, CallFact DEF Holding
  <2>2. effects[calls[i].effect].sprite = calls[i].sprite /\ ~effects[calls[i].effect].done
    BY <1>3, HeldParts DEF InHand
  <2>3. Free.sprite = None /\ None \notin Sprites
    BY BridgeAssumption DEF Free
  <2> QED
    BY <1>1, <2>1, <2>2, <2>3
<1>4. InHand(calls, actors, effects')
  BY <1>2, <1>3, HeldParts DEF InHand
<1>5. Paid(actors, effects', uncertain)
  BY <1>2, HeldParts DEF Paid
<1>6. Squared(tally', deferred, calls)
  BY <1>1, BridgeParts, HeldParts DEF Squared, Tally
<1> QED
  BY <1>1, <1>4, <1>5, <1>6, HeldParts DEF PaidInv, EffectsHeld

LEMMA ResolveOriginalPays ==
    ASSUME BridgeInv, PaidInv, BridgeInv', NEW e \in Effects, ResolveOriginal(e)
    PROVE  PaidInv'
<1>1. /\ Listed(e) /\ ~Resolving(e) /\ effects' = Ran(e)
      /\ actors' = [actors EXCEPT ![effects[e].sprite] = Leaf(effects[e].sprite, e)]
      /\ UNCHANGED <<calls, uncertain, deferred, nextInc, tally>>
  BY DEF ResolveOriginal
<1>2. ASSUME NEW i \in 1..Len(calls), Holding(calls[i], actors), calls[i].effect = e
      PROVE  FALSE
  <2>1. effects[e].sprite = calls[i].sprite /\ i \in DOMAIN calls
    BY <1>2, BridgeParts, HeldParts DEF InHand
  <2> QED
    BY <1>1, <1>2, <2>1 DEF Resolving, Holding
<1>3. EffectsHeld(calls, actors, effects', uncertain, nextInc)
  <2>1. ~effects[e].done /\ effects[e].sprite # None
    BY <1>1 DEF Listed
  <2>2. /\ \A x \in Effects \ {e} : effects'[x] = effects[x]
        /\ effects'[e].sprite = effects[e].sprite /\ effects'[e].done /\ effects'[e].ran = effects[e].ran + 1
    BY <1>1, DoneFact
  <2> QED
    BY <1>2, <2>1, <2>2, HeldParts, DoneHeld
<1>4. PICK s \in Sprites, c \in Change : s = effects[e].sprite /\ c = effects[e].shape
  BY <1>1, ListedFact DEF Listed
<1>5. \A x \in Sprites : actors'[x].inc = actors[x].inc
  <2>1. OwnStore(actors[s], c).inc = actors[s].inc
    BY At, OwnStoreFact DEF Follows
  <2>2. actors' = [actors EXCEPT ![s] = OwnStore(actors[s], c)] /\ actors \in [Sprites -> ActorRecord]
    BY <1>1, <1>4, BridgeParts DEF Leaf, Typed
  <2> QED
    BY <2>1, <2>2
<1>6. effects' \in [Effects -> EffectRecord]
  BY DEF BridgeInv, Typed
<1>7. EffectsHeld(calls, actors', effects', uncertain, nextInc)
  <2>1. PICK E \in [Effects -> EffectRecord] : E = effects'
    BY <1>6
  <2>2. PICK A : A = actors'
    OBVIOUS
  <2>3. EffectsHeld(calls, actors, E, uncertain, nextInc) /\ \A x \in Sprites : A[x].inc = actors[x].inc
    BY <1>3, <1>5, <2>1, <2>2
  <2>4. EffectsHeld(calls, A, E, uncertain, nextInc)
    BY <2>3, HeldParts, IncsHeld
  <2> QED
    BY <2>1, <2>2, <2>4
<1> QED
  BY <1>1, <1>7, HeldParts DEF PaidInv

LEMMA SetterTallies ==
    ASSUME NEW t \in Tally
    PROVE  /\ [t EXCEPT !.issued = @ + 1, !.sets = @ + 1].sets = t.sets + 1
           /\ [t EXCEPT !.issued = @ + 1, !.sets = @ + 1].stored = t.stored
           /\ [t EXCEPT !.issued = @ + 1, !.sets = @ + 1].ended = t.ended
           /\ [t EXCEPT !.issued = @ + 1, !.sets = @ + 1, !.stored = @ + 1].sets = t.sets + 1
           /\ [t EXCEPT !.issued = @ + 1, !.sets = @ + 1, !.stored = @ + 1].stored = t.stored + 1
           /\ [t EXCEPT !.issued = @ + 1, !.sets = @ + 1, !.stored = @ + 1].ended = t.ended
BY DEF Tally

LEMMA CountsFact ==
    ASSUME BridgeInv
    PROVE  /\ tally.sets \in Nat /\ tally.stored \in Nat /\ tally.ended \in Nat /\ Len(deferred) \in Nat
           /\ Cardinality(SetterCalls(calls)) \in Nat
BY BridgeParts, TallyFields, SeqFact, SettersFact

LEMMA SetOriginalPays ==
    ASSUME BridgeInv, PaidInv, BridgeInv', NEW s \in Sprites, NEW c \in Setters, SetOriginal(s, c)
    PROVE  PaidInv'
<1>1. /\ actors' = [actors EXCEPT ![s] = OwnStore(actors[s], c)]
      /\ tally' = [tally EXCEPT !.issued = @ + 1, !.sets = @ + 1, !.stored = @ + 1]
      /\ UNCHANGED <<effects, calls, uncertain, deferred, nextInc>>
  BY BridgeParts DEF SetOriginal, Typed
<1>2. c \in Change
  BY BridgeAssumption DEF Change, Modes
<1>3. \A x \in Sprites : actors'[x].inc = actors[x].inc
  <2>1. OwnStore(actors[s], c).inc = actors[s].inc
    BY <1>2, At, OwnStoreFact DEF Follows
  <2> QED
    BY <1>1, <2>1, BridgeParts DEF Typed
<1>4. Squared(tally', deferred, calls)
  <2>1. tally'.sets = tally.sets + 1 /\ tally'.stored = tally.stored + 1 /\ tally'.ended = tally.ended + 0
        /\ Len(deferred) = Len(deferred) + 0
        /\ Cardinality(SetterCalls(calls)) + 0 = Cardinality(SetterCalls(calls)) + 0
    BY <1>1, BridgeParts, SetterTallies, CountsFact
  <2>2. 0 \in Nat /\ 1 \in Nat /\ 1 + 0 = 1 + 0 + 0 + 0
    OBVIOUS
  <2> QED
    BY <2>1, <2>2, HeldParts, SquaredAs
<1>5. SameActors(actors', actors) /\ SameEffects(effects', effects) /\ SameCalls(calls', calls)
  BY <1>1, <1>3, SameAsBefore DEF SameActors
<1> QED
  BY <1>1, <1>4, <1>5, HeldParts, QuietPays

LEMMA SetDeferredPays ==
    ASSUME BridgeInv, PaidInv, BridgeInv', NEW s \in Sprites, NEW c \in Setters, SetDeferred(s, c)
    PROVE  PaidInv'
<1> DEFINE d == [sprite |-> s, inc |-> actors[s].inc, change |-> c, kept |-> FALSE]
<1>1. /\ deferred' = Append(deferred, d)
      /\ tally' = [tally EXCEPT !.issued = @ + 1, !.sets = @ + 1]
      /\ UNCHANGED <<actors, effects, calls, uncertain, nextInc>>
      /\ Route(s, "write", None) = "open"
  BY DEF SetDeferred
<1>2. d \in WaitingWrite /\ d.sprite = s
  <2>1. c \in Change /\ actors[s].inc \in Nat
    BY BridgeAssumption, At, ActorFact DEF Change, Modes
  <2> QED
    BY <2>1 DEF WaitingWrite
<1> HIDE DEF d
<1>3. /\ Len(deferred') = Len(deferred) + 1 /\ Len(deferred) \in Nat
      /\ \A i \in 1..Len(deferred) : deferred'[i] = deferred[i]
      /\ deferred'[Len(deferred) + 1] = d
  BY <1>1, <1>2, BridgeParts, AddFact
<1>4. Open(calls, s)
  BY <1>1 DEF Route
<1>5. Waits(deferred', calls)
  BY <1>2, <1>3, <1>4, HeldParts DEF Waits
<1>6. Squared(tally', deferred', calls)
  <2>1. tally'.sets = tally.sets + 1 /\ tally'.stored = tally.stored + 0 /\ tally'.ended = tally.ended + 0
        /\ Len(deferred') = Len(deferred) + 1
        /\ Cardinality(SetterCalls(calls)) + 0 = Cardinality(SetterCalls(calls)) + 0
    BY <1>1, <1>3, BridgeParts, SetterTallies, CountsFact
  <2>2. 0 \in Nat /\ 1 \in Nat /\ 1 + 0 = 0 + 0 + 1 + 0
    OBVIOUS
  <2> QED
    BY <2>1, <2>2, HeldParts, SquaredAs
<1>7. SameActors(actors', actors) /\ SameEffects(effects', effects) /\ SameCalls(calls', calls)
  BY <1>1, SameAsBefore
<1> QED
  BY <1>1, <1>5, <1>6, <1>7, HeldParts, QuietPays

\* Receipts of ended lifetimes go, those of living actors stay.
LEMMA SweptFact ==
    ASSUME BridgeInv, NEW s, NEW b \in Bridges, NEW e, NEW c \in Bridges, NEW x \in Sprites
    PROVE  /\ Swept(s, b, e)[c][x] \in {uncertain[c][x], NoRecord}
           /\ uncertain[c][x].inc = actors[x].inc => Swept(s, b, e)[c][x] = uncertain[c][x]
<1> DEFINE row == [y \in Sprites |-> IF Ended(y, b) /\ (y = s \/ e # None) THEN NoRecord ELSE uncertain[b][y]]
<1>1. Swept(s, b, e) = [uncertain EXCEPT ![b] = row] /\ uncertain \in [Bridges -> [Sprites -> Receipt]]
  BY RecordFact DEF Swept
<1>2. row[x] \in {uncertain[b][x], NoRecord}
  OBVIOUS
<1>3. Ended(x, b) => uncertain[b][x].inc # actors[x].inc
  BY DEF Ended, Lifetime
<1>4. uncertain[b][x].inc = actors[x].inc => row[x] = uncertain[b][x]
  BY <1>3
<1> HIDE DEF row
<1> QED
  BY <1>1, <1>2, <1>4

LEMMA EnterPays ==
    ASSUME BridgeInv, PaidInv, BridgeInv', NEW s \in Sprites, NEW b \in Bridges, NEW e \in Effects \cup {None}, NEW c,
           e # None => effects[e].sprite = s /\ ~effects[e].done, e = None => b = "write",
           Route(s, b, e) = "enter", Enter(s, b, e, c),
           UNCHANGED <<actors, effects, nextInc>>
    PROVE  /\ EffectsHeld(calls', actors', effects', uncertain', nextInc')
           /\ \A x : Open(calls, x) => Open(calls', x)
           /\ Cardinality(SetterCalls(calls')) = Cardinality(SetterCalls(calls)) + (IF e = None THEN 1 ELSE 0)
<1> DEFINE f == [bridge |-> b, sprite |-> s, effect |-> e, inc |-> actors[s].inc, change |-> c,
                 pre |-> actors[s].word, answer |-> "running"]
<1>1. calls' = Append(calls, f) /\ uncertain' = Swept(s, b, e)
  BY DEF Enter
<1>2. f.bridge = b /\ f.sprite = s /\ f.effect = e /\ f.inc = actors[s].inc /\ f.answer = "running"
  OBVIOUS
<1> HIDE DEF f
<1>3. PICK C \in Seq(CallRecord), n \in Nat : C = calls' /\ n = Len(calls)
  BY BridgeParts DEF BridgeInv, Typed
<1>4. /\ Len(C) = n + 1 /\ C[n + 1] = f /\ \A i \in 1..n : C[i] = calls[i]
      /\ \A i \in 1..(n + 1) : i = n + 1 \/ i \in 1..n
      /\ \A i \in 1..n : i \in 1..(n + 1)
      /\ n + 1 \in 1..(n + 1)
  BY <1>1, <1>3, BridgeParts, AppendProperties
<1>5. DOMAIN C = 1..(n + 1) /\ DOMAIN calls = 1..n
  BY <1>3, <1>4, BridgeParts, SeqFact
<1>6. CanMutate(s, actors[s].inc) /\ ~Open(calls, s) /\ ~Unresolved(s)
  BY DEF Route
<1>7. \A x : Open(calls, x) => Open(C, x)
  BY <1>4, <1>5 DEF Open
<1>8. \A x : Open(C, x) => Open(calls, x) \/ x = s
  BY <1>2, <1>4, <1>5 DEF Open
<1>9. Cardinality(SetterCalls(C)) = Cardinality(SetterCalls(calls)) + (IF e = None THEN 1 ELSE 0)
  <2>1. Unstored(C[Len(C)]) <=> e = None
    BY <1>2, <1>4 DEF Unstored
  <2> QED
    BY <1>3, <1>4, <2>1, BridgeParts, OneMoreCall
<1>10. InHand(C, actors, effects)
  <2> SUFFICES ASSUME NEW i \in 1..(n + 1), Holding(C[i], actors)
               PROVE  effects[C[i].effect].sprite = C[i].sprite /\ ~effects[C[i].effect].done
    BY <1>4 DEF InHand
  <2>1. CASE i = n + 1
    BY <1>2, <1>4, <2>1 DEF Holding
  <2>2. CASE i \in 1..n
    BY <1>3, <1>4, <2>2, HeldParts DEF InHand
  <2> QED
    BY <1>4, <2>1, <2>2
<1>11. PICK U : U = Swept(s, b, e)
  OBVIOUS
<1>12. \A d \in Bridges, x \in Sprites :
          /\ U[d][x] \in {uncertain[d][x], NoRecord}
          /\ uncertain[d][x].inc = actors[x].inc => U[d][x] = uncertain[d][x]
  BY <1>11, SweptFact
<1>13. OnRecord(C, actors, U, nextInc)
  <2> SUFFICES ASSUME NEW d \in Bridges, NEW x \in Sprites, U[d][x] # NoRecord
               PROVE  /\ U[d][x].inc # 0 /\ U[d][x].inc <= nextInc
                      /\ U[d][x].inc = actors[x].inc => ~Open(C, x)
    BY DEF OnRecord
  <2>1. U[d][x] = uncertain[d][x]
    BY <1>12
  <2>2. U[d][x].inc = actors[x].inc => x # s
    BY <1>6, <2>1 DEF Unresolved
  <2> QED
    BY <1>8, <2>1, <2>2, HeldParts DEF OnRecord
<1>14. Paid(actors, effects, U)
  <2> SUFFICES ASSUME NEW y \in Effects, effects[y].sprite # None, effects[y].done, effects[y].ran # 1
               PROVE  /\ effects[y].ran = 0
                      /\ \E d \in Bridges : U[d][effects[y].sprite] = [inc |-> actors[effects[y].sprite].inc, effect |-> y]
    BY HeldParts DEF Paid
  <2>1. PICK x \in Sprites : x = effects[y].sprite
    BY ListedFact
  <2>2. PICK d \in Bridges : effects[y].ran = 0 /\ uncertain[d][x] = [inc |-> actors[x].inc, effect |-> y]
    BY <2>1, HeldParts DEF Paid
  <2>3. U[d][x] = uncertain[d][x]
    BY <1>12, <2>2
  <2> QED
    BY <2>1, <2>2, <2>3
<1> QED
  BY <1>1, <1>3, <1>7, <1>9, <1>10, <1>11, <1>13, <1>14 DEF EffectsHeld

LEMMA StillWaits ==
    ASSUME NEW w, NEW C, NEW D, Waits(w, C), \A x : Open(C, x) => Open(D, x)
    PROVE  Waits(w, D)
BY DEF Waits

LEMMA EnterEffectPays ==
    ASSUME BridgeInv, PaidInv, BridgeInv', NEW e \in Effects, EnterEffect(e)
    PROVE  PaidInv'
<1>1. PICK s \in Sprites, c \in Change : s = effects[e].sprite /\ c = effects[e].shape
  BY ListedFact DEF EnterEffect, Listed
<1>2. PICK b \in Bridges : b = BridgeOf(c)
  BY DEF BridgeOf, Bridges
<1>3. /\ e # None /\ Route(s, b, e) = "enter" /\ Enter(s, b, e, c) /\ ~effects[e].done
      /\ UNCHANGED <<actors, effects, deferred, nextInc, tally>>
  BY <1>1, <1>2, ListedFact DEF EnterEffect, Listed
<1>4. /\ EffectsHeld(calls', actors', effects', uncertain', nextInc')
      /\ \A x : Open(calls, x) => Open(calls', x)
      /\ Cardinality(SetterCalls(calls')) = Cardinality(SetterCalls(calls)) + (IF e = None THEN 1 ELSE 0)
  BY <1>1, <1>3, EnterPays
<1>5. Squared(tally, deferred, calls')
  BY <1>3, <1>4, HeldParts, CountsFact DEF Squared
<1> QED
  BY <1>3, <1>4, <1>5, HeldParts, StillWaits DEF PaidInv

LEMMA EnterSetPays ==
    ASSUME BridgeInv, PaidInv, BridgeInv', NEW s \in Sprites, NEW c \in Setters, EnterSet(s, c)
    PROVE  PaidInv'
<1>1. /\ Route(s, "write", None) = "enter" /\ Enter(s, "write", None, c)
      /\ UNCHANGED <<actors, effects, deferred, nextInc>>
      /\ tally' = [tally EXCEPT !.issued = @ + 1, !.sets = @ + 1]
  BY DEF EnterSet
<1>2. None \in Effects \cup {None} /\ "write" \in Bridges
  BY DEF Bridges
<1>3. PICK C \in Seq(CallRecord) : C = calls'
  BY DEF BridgeInv, Typed
<1>4. /\ EffectsHeld(calls', actors', effects', uncertain', nextInc')
      /\ \A x : Open(calls, x) => Open(C, x)
      /\ Cardinality(SetterCalls(C)) = Cardinality(SetterCalls(calls)) + 1
  BY <1>1, <1>2, <1>3, EnterPays
<1>5. Squared(tally', deferred, C)
  <2>1. tally'.sets = tally.sets + 1 /\ tally'.stored = tally.stored + 0 /\ tally'.ended = tally.ended + 0
        /\ Len(deferred) = Len(deferred) + 0
        /\ Cardinality(SetterCalls(C)) + 0 = Cardinality(SetterCalls(calls)) + 1
    BY <1>1, <1>3, <1>4, BridgeParts, SetterTallies, CountsFact
  <2>2. 0 \in Nat /\ 1 \in Nat /\ 1 + 0 = 0 + 0 + 0 + 1
    OBVIOUS
  <2> QED
    BY <2>1, <2>2, HeldParts, SquaredAs
<1> QED
  BY <1>1, <1>3, <1>4, <1>5, HeldParts, StillWaits DEF PaidInv

\* The innermost call is answered: it stays open, and it still has to store
\* unless that is the answer.
LEMMA AnsweredPays ==
    ASSUME BridgeInv, PaidInv, CallOpen, Top.answer # "stored",
           NEW x \in {"refused", "passed", "tracked", "stored"}
    PROVE  /\ SameCalls(Answered(x), calls)
           /\ \A y : Open(calls, y) => Open(Answered(x), y)
           /\ Answered(x) \in Seq(CallRecord)
           /\ Cardinality(SetterCalls(Answered(x))) =
                Cardinality(SetterCalls(Front(calls))) + (IF Top.effect = None /\ x # "stored" THEN 1 ELSE 0)
<1>1. PICK n \in Nat \ {0} : n = Len(calls) /\ calls # <<>> /\ (\A i \in 1..n : i = n \/ i \in 1..(n - 1)) /\ n \in 1..n
  BY TopFact DEF CallOpen
<1>2. PICK D \in Seq(CallRecord) : D = Answered(x)
  <2>1. x \in {"running", "refused", "passed", "tracked", "stored"}
    OBVIOUS
  <2>2. Answered(x) \in Seq(CallRecord)
    BY <2>1, AnsweredFact
  <2> QED
    BY <2>2
<1>8. Len(D) = n /\ D[n] = [Top EXCEPT !.answer = x] /\ \A i \in 1..(n - 1) : D[i] = calls[i]
  <2>1. x \in {"running", "refused", "passed", "tracked", "stored"}
    OBVIOUS
  <2>2. /\ Len(Answered(x)) = Len(calls) /\ Answered(x)[Len(calls)] = [Top EXCEPT !.answer = x]
        /\ \A i \in 1..(Len(calls) - 1) : Answered(x)[i] = calls[i]
    BY <2>1, AnsweredFact
  <2> QED
    BY <1>1, <1>2, <2>2
<1>3. /\ D[n].bridge = Top.bridge /\ D[n].sprite = Top.sprite /\ D[n].effect = Top.effect
      /\ D[n].inc = Top.inc /\ D[n].answer = x
  BY <1>8, TopFact DEF CallRecord
<1>9. Len(D) = n /\ \A i \in 1..(n - 1) : D[i] = calls[i]
  BY <1>8
<1>4. Top = calls[n] /\ Top.bridge # "save"
  BY <1>1, TopFact
<1>5. \A i \in 1..n : SameCall(D[i], calls[i])
  <2> SUFFICES ASSUME NEW i \in 1..n PROVE SameCall(D[i], calls[i])
    OBVIOUS
  <2>1. CASE i = n
    BY <1>3, <1>4, <2>1 DEF SameCall
  <2>2. CASE i \in 1..(n - 1)
    BY <1>9, <2>2 DEF SameCall
  <2> QED
    BY <1>1, <2>1, <2>2
<1>6. \A y : Open(calls, y) => Open(D, y)
  <2>1. DOMAIN D = 1..n /\ DOMAIN calls = 1..n
    BY <1>1, <1>9, BridgeParts, SeqFact
  <2>2. \A i \in 1..n : D[i].bridge = calls[i].bridge /\ D[i].sprite = calls[i].sprite
    BY <1>5 DEF SameCall
  <2> QED
    BY <2>1, <2>2 DEF Open
<1>7. Cardinality(SetterCalls(D)) = Cardinality(SetterCalls(Front(calls))) + (IF Top.effect = None /\ x # "stored" THEN 1 ELSE 0)
  <2>1. PICK B \in Seq(CallRecord) : B = Front(calls) /\ Len(B) = n - 1 /\ \A i \in 1..(n - 1) : B[i] = calls[i]
    BY <1>1, BridgeParts, FrontFact
  <2>2. Len(D) = Len(B) + 1 /\ \A i \in 1..Len(B) : D[i] = B[i]
    BY <1>9, <2>1
  <2>3. Unstored(D[Len(D)]) <=> Top.effect = None /\ x # "stored"
    BY <1>3, <1>9, TopFact DEF Unstored, Asking
  <2> QED
    BY <2>1, <2>2, <2>3, OneMoreCall
<1>10. SameCalls(D, calls)
  BY <1>1, <1>5, <1>9 DEF SameCalls
<1> QED
  BY <1>2, <1>6, <1>7, <1>10

LEMMA PreparePays ==
    ASSUME BridgeInv, PaidInv, BridgeInv', Prepare
    PROVE  PaidInv'
<1>1. PICK x \in {"refused", "passed", "tracked"} :
        /\ CallOpen /\ Top.answer = "running" /\ Answer(x)
        /\ UNCHANGED <<effects, uncertain, deferred, nextInc, tally>>
        /\ actors' = actors \/ actors' = Noted(Top.sprite)
  BY DEF Prepare, Refuse, PassOn, Track
<1>2. \A s \in Sprites : actors'[s].inc = actors[s].inc
  <2>1. actors \in [Sprites -> ActorRecord] /\ Top.sprite \in Sprites
    BY <1>1, TopFact, BridgeParts DEF Typed
  <2>2. CASE actors' = Noted(Top.sprite)
    <3>1. actors[Top.sprite] \in ActorRecord
      BY <2>1
    <3> QED
      BY <2>1, <2>2, <3>1 DEF Noted, ActorRecord
  <2> QED
    BY <1>1, <2>2
<1>3. calls' = Answered(x)
  BY <1>1 DEF Answer, Answered
<1>4. /\ SameCalls(calls', calls)
      /\ \A y : Open(calls, y) => Open(calls', y)
      /\ Cardinality(SetterCalls(calls')) =
            Cardinality(SetterCalls(Front(calls))) + (IF Top.effect = None THEN 1 ELSE 0)
  BY <1>1, <1>3, AnsweredPays
<1>5. Cardinality(SetterCalls(calls)) = Cardinality(SetterCalls(Front(calls))) + (IF Top.effect = None THEN 1 ELSE 0)
  BY <1>1, BehindFact, SetterTop DEF CallOpen
<1>6. Squared(tally', deferred', calls')
  BY <1>1, <1>4, <1>5, HeldParts DEF Squared
<1>7. Waits(deferred', calls')
  BY <1>1, <1>4, HeldParts, StillWaits
<1>8. SameActors(actors', actors) /\ SameEffects(effects', effects)
  BY <1>1, <1>2, SameAsBefore DEF SameActors
<1> QED
  BY <1>1, <1>4, <1>6, <1>7, <1>8, QuietPays

\* What a closing call leaves to account for: its own setter write, if it has not
\* stored it.
LEMMA ClosingLedger ==
    ASSUME BridgeInv, PaidInv, CallOpen
    PROVE  /\ Top.effect # None \/ Top.answer = "stored" => Squared(tally, deferred, Front(calls))
           /\ Top.effect = None /\ Top.answer # "stored" =>
                 /\ Squared(Stored(tally), deferred, Front(calls))
                 /\ Squared([tally EXCEPT !.ended = @ + 1], deferred, Front(calls))
                 /\ \A d \in WaitingWrite : d.kept =>
                        /\ Squared(tally, Append(deferred, d), Front(calls))
                        /\ Waits(Append(deferred, d), calls)
           /\ Front(calls) \in Seq(CallRecord)
<1>1. PICK D \in Seq(CallRecord) : D = Front(calls)
  BY BehindFact DEF CallOpen
<1>2. Cardinality(SetterCalls(calls)) = Cardinality(SetterCalls(D)) + (IF Unstored(Top) THEN 1 ELSE 0)
  BY <1>1, BehindFact DEF CallOpen
<1>3. /\ Cardinality(SetterCalls(D)) \in Nat /\ tally.sets = tally.sets + 0
      /\ tally.stored = tally.stored + 0 /\ tally.ended = tally.ended + 0 /\ Len(deferred) = Len(deferred) + 0
  BY SettersFact, CountsFact
<1>4. 0 \in Nat /\ 1 \in Nat /\ 0 + 0 = 0 + 0 + 0 + 0 /\ 0 + 1 = 1 + 0 + 0 + 0 /\ 0 + 1 = 0 + 1 + 0 + 0 /\ 0 + 1 = 0 + 0 + 1 + 0
  OBVIOUS
<1>5. ASSUME Top.effect # None \/ Top.answer = "stored" PROVE Squared(tally, deferred, D)
  <2>1. Cardinality(SetterCalls(D)) + 0 = Cardinality(SetterCalls(calls)) + 0
    BY <1>2, <1>3, <1>5, SetterTop
  <2> QED
    BY <1>3, <1>4, <2>1, SquaredAs
<1>6. ASSUME Top.effect = None, Top.answer # "stored"
      PROVE  Cardinality(SetterCalls(D)) + 1 = Cardinality(SetterCalls(calls)) + 0
  BY <1>2, <1>3, <1>6, SetterTop
<1>7. ASSUME Top.effect = None, Top.answer # "stored" PROVE Squared(Stored(tally), deferred, D)
  <2>1. Stored(tally).sets = tally.sets + 0 /\ Stored(tally).stored = tally.stored + 1 /\ Stored(tally).ended = tally.ended + 0
    BY <1>3, BridgeParts, TallyFact DEF Stored
  <2> QED
    BY <1>3, <1>4, <1>6, <1>7, <2>1, SquaredAs
<1>8. ASSUME Top.effect = None, Top.answer # "stored" PROVE Squared([tally EXCEPT !.ended = @ + 1], deferred, D)
  <2> DEFINE t == [tally EXCEPT !.ended = @ + 1]
  <2>1. t.sets = tally.sets + 0 /\ t.stored = tally.stored + 0 /\ t.ended = tally.ended + 1
    BY <1>3, BridgeParts, TallyFact
  <2> HIDE DEF t
  <2>2. Squared(t, deferred, D)
    BY <1>3, <1>4, <1>6, <1>8, <2>1, SquaredAs
  <2> QED
    BY <2>2 DEF t
<1>9. ASSUME Top.effect = None, Top.answer # "stored", NEW d \in WaitingWrite, d.kept
      PROVE  Squared(tally, Append(deferred, d), D) /\ Waits(Append(deferred, d), calls)
  <2>1. PICK w : w = Append(deferred, d)
    OBVIOUS
  <2>2. Len(w) = Len(deferred) + 1 /\ w[Len(deferred) + 1] = d /\ Len(deferred) \in Nat
        /\ \A i \in 1..Len(deferred) : w[i] = deferred[i]
    BY <2>1, BridgeParts, AddFact
  <2>3. Squared(tally, w, D)
    BY <1>3, <1>4, <1>6, <1>9, <2>2, SquaredAs
  <2>4. Waits(w, calls)
    BY <1>9, <2>2, HeldParts DEF Waits
  <2> QED
    BY <2>1, <2>3, <2>4
<1> QED
  BY <1>1, <1>5, <1>7, <1>8, <1>9

\* The innermost call closes, with its effect and its write accounted for.
LEMMA ClosedPays ==
    ASSUME BridgeInv, PaidInv, BridgeInv', CallOpen, NEW a \in ActorRecord, a.inc = actors[Top.sprite].inc,
           NEW writes \in Seq(WaitingWrite), NEW t \in Tally, Close(a, writes, t),
           Squared(t, writes, Front(calls)), Waits(writes, calls), nextInc' = nextInc,
           EffectsHeld(Front(calls), actors, effects', uncertain', nextInc)
    PROVE  PaidInv'
<1>1. PICK D \in Seq(CallRecord) : D = Front(calls)
  BY BehindFact DEF CallOpen
<1>2. /\ calls' = D /\ \A x \in Sprites : actors'[x].inc = actors[x].inc
      /\ Squared(tally', deferred', D) /\ Waits(deferred', D)
  BY <1>1, ClosePays
<1>3. PICK E \in [Effects -> EffectRecord] : E = effects'
  BY DEF BridgeInv, Typed
<1>4. PICK A, U : A = actors' /\ U = uncertain'
  OBVIOUS
<1>5. EffectsHeld(D, actors, E, U, nextInc) /\ \A x \in Sprites : A[x].inc = actors[x].inc
  BY <1>1, <1>2, <1>3, <1>4
<1>6. EffectsHeld(D, A, E, U, nextInc)
  BY <1>5, IncsHeld
<1> QED
  BY <1>2, <1>3, <1>4, <1>6 DEF PaidInv

\* The own store of an actor, as it closes.
LEMMA OwnFact ==
    ASSUME BridgeInv, NEW s \in Sprites, NEW c \in Change
    PROVE  OwnStore(actors[s], c) \in ActorRecord /\ OwnStore(actors[s], c).inc = actors[s].inc
BY At, OwnStoreFact DEF Follows

LEMMA CloseOriginalPays ==
    ASSUME BridgeInv, PaidInv, BridgeInv', Asked, Lifetime(Top.sprite, Top.inc) > 0, CloseOriginal,
           uncertain' = uncertain, nextInc' = nextInc
    PROVE  PaidInv'
<1>1. CallOpen /\ Top.answer # "stored" /\ Top.inc = actors[Top.sprite].inc
  BY LiveFact DEF Asked
<1>2. PICK s \in Sprites, e \in Effects \cup {None} : s = Top.sprite /\ e = Top.effect /\ Top.change \in Change
  BY <1>1, TopFact, CallFact
<1>3. deferred \in Seq(WaitingWrite) /\ Stored(tally) \in Tally /\ tally \in Tally /\ Waits(deferred, calls)
  BY BridgeParts, StoredFact, HeldParts
<1>4. CASE e = None
  <2>1. Close(OwnStore(actors[s], Top.change), deferred, Stored(tally)) /\ effects' = effects
    BY <1>2, <1>4 DEF CloseOriginal
  <2>2. PICK a \in ActorRecord : a = OwnStore(actors[s], Top.change) /\ a.inc = actors[s].inc
    BY <1>2, OwnFact
  <2>3. Squared(Stored(tally), deferred, Front(calls))
    BY <1>1, <1>2, <1>4, ClosingLedger
  <2>4. EffectsHeld(Front(calls), actors, effects', uncertain', nextInc)
    BY <1>1, <2>1, FrontHeld DEF CallOpen
  <2>5. Close(a, deferred, Stored(tally)) /\ a.inc = actors[Top.sprite].inc
    BY <1>2, <2>1, <2>2
  <2> QED
    BY <1>1, <1>3, <2>3, <2>4, <2>5, ClosedPays
<1>5. CASE e # None
  <2>1. Close(OwnStore(actors[s], effects[e].shape), deferred, tally) /\ effects' = Ran(Top.effect)
    BY <1>2, <1>5 DEF CloseOriginal, Leaf
  <2>2. effects[e].shape \in Change
    BY <1>2, <1>5, ListedFact
  <2>3. PICK a \in ActorRecord : a = OwnStore(actors[s], effects[e].shape) /\ a.inc = actors[s].inc
    BY <2>2, OwnFact
  <2>4. Squared(tally, deferred, Front(calls))
    BY <1>1, <1>2, <1>5, ClosingLedger
  <2>5. EffectsHeld(Front(calls), actors, effects', uncertain', nextInc)
    BY <1>1, <1>2, <1>5, <2>1, RanHeld
  <2>6. Close(a, deferred, tally) /\ a.inc = actors[Top.sprite].inc
    BY <1>2, <2>1, <2>3
  <2> QED
    BY <1>1, <1>3, <2>4, <2>5, <2>6, ClosedPays
<1> QED
  BY <1>4, <1>5

LEMMA CloseUnknownPays ==
    ASSUME BridgeInv, PaidInv, BridgeInv', CloseUnknown
    PROVE  PaidInv'
<1>1. /\ CallOpen /\ Top.answer # "stored" /\ Top.inc = actors[Top.sprite].inc /\ nextInc' = nextInc
      /\ uncertain' = IF Top.answer = "tracked" THEN Record(Top) ELSE uncertain
  BY DEF CloseUnknown, Asked, Lifetime
<1>2. PICK s \in Sprites, e \in Effects \cup {None} : /\ s = Top.sprite /\ e = Top.effect
                              /\ Top.change \in Change /\ Top.inc \in Nat
  BY <1>1, TopFact, CallFact
<1>3. actors[Top.sprite] \in ActorRecord /\ deferred \in Seq(WaitingWrite) /\ tally \in Tally /\ Waits(deferred, calls)
  BY <1>2, At, BridgeParts, HeldParts
<1>4. EffectsHeld(Front(calls), actors, effects, uncertain', nextInc)
  BY <1>1, FrontHeld, RecordHeld DEF CallOpen
<1>5. CASE e = None
  <2> DEFINE d == [sprite |-> s, inc |-> Top.inc, change |-> Top.change, kept |-> TRUE]
  <2>1. d \in WaitingWrite /\ d.kept
    BY <1>2 DEF WaitingWrite
  <2>2. Close(actors[Top.sprite], Append(deferred, d), tally) /\ effects' = effects
    BY <1>2, <1>5 DEF CloseUnknown
  <2> HIDE DEF d
  <2>3. PICK w \in Seq(WaitingWrite) : w = Append(deferred, d)
    BY <1>3, <2>1, AddFact
  <2>4. Squared(tally, w, Front(calls)) /\ Waits(w, calls)
    BY <1>1, <1>2, <1>5, <2>1, <2>3, ClosingLedger
  <2>5. EffectsHeld(Front(calls), actors, effects', uncertain', nextInc)
    BY <1>4, <2>2
  <2>6. Close(actors[Top.sprite], w, tally)
    BY <2>2, <2>3
  <2> QED
    BY <1>1, <1>3, <2>4, <2>5, <2>6, ClosedPays
<1>6. CASE e # None
  <2>1. /\ Close(actors[Top.sprite], deferred, tally)
        /\ effects' = IF Top.answer = "tracked" THEN Completed(Top.effect) ELSE effects
    BY <1>2, <1>6 DEF CloseUnknown
  <2>2. EffectsHeld(Front(calls), actors, effects', uncertain', nextInc)
    <3>1. CASE Top.answer = "tracked"
      BY <1>1, <1>2, <1>6, <2>1, <3>1, CompletedHeld
    <3>2. CASE Top.answer # "tracked"
      BY <1>4, <2>1, <3>2
    <3> QED
      BY <3>1, <3>2
  <2>3. Squared(tally, deferred, Front(calls))
    BY <1>1, <1>2, <1>6, ClosingLedger
  <2> QED
    BY <1>1, <1>3, <2>1, <2>2, <2>3, ClosedPays
<1> QED
  BY <1>5, <1>6

LEMMA CloseEndedPays ==
    ASSUME BridgeInv, PaidInv, BridgeInv', CloseEnded
    PROVE  PaidInv'
<1>1. CallOpen /\ Top.answer # "stored" /\ nextInc' = nextInc /\ effects' = effects /\ uncertain' = uncertain
  BY DEF CloseEnded, Asked
<1>2. /\ actors[Top.sprite] \in ActorRecord /\ deferred \in Seq(WaitingWrite) /\ Waits(deferred, calls)
      /\ tally \in Tally /\ [tally EXCEPT !.ended = @ + 1] \in Tally
  BY <1>1, TopFact, At, BridgeParts, StoredFact, HeldParts
<1>3. PICK t \in Tally : Close(actors[Top.sprite], deferred, t) /\ Squared(t, deferred, Front(calls))
  <2>1. CASE Top.effect = None
    BY <1>1, <1>2, <2>1, ClosingLedger DEF CloseEnded
  <2>2. CASE Top.effect # None
    BY <1>1, <1>2, <2>2, ClosingLedger DEF CloseEnded
  <2> QED
    BY <2>1, <2>2
<1>4. EffectsHeld(Front(calls), actors, effects', uncertain', nextInc)
  BY <1>1, FrontHeld DEF CallOpen
<1> QED
  BY <1>1, <1>2, <1>3, <1>4, ClosedPays

LEMMA CloseJournalledPays ==
    ASSUME BridgeInv, PaidInv, BridgeInv', CloseJournalled
    PROVE  PaidInv'
<1>1. /\ CallOpen /\ Top.answer # "stored" /\ Top.inc = actors[Top.sprite].inc /\ nextInc' = nextInc
      /\ uncertain' = Record(Top)
  BY LiveFact DEF CloseJournalled, Asked
<1>2. PICK s \in Sprites, e \in Effects \cup {None} : s = Top.sprite /\ e = Top.effect /\ Top.change \in Change
  BY <1>1, TopFact, CallFact
<1>3. /\ actors[Top.sprite] \in ActorRecord /\ deferred \in Seq(WaitingWrite) /\ tally \in Tally
      /\ Stored(tally) \in Tally /\ Waits(deferred, calls)
  BY <1>2, At, BridgeParts, StoredFact, HeldParts
<1>4. CASE e = None
  <2>1. Close(OwnStore(actors[s], Top.change), deferred, Stored(tally)) /\ effects' = effects
    BY <1>2, <1>4 DEF CloseJournalled
  <2>2. PICK a \in ActorRecord : a = OwnStore(actors[s], Top.change) /\ a.inc = actors[s].inc
    BY <1>2, OwnFact
  <2>3. Squared(Stored(tally), deferred, Front(calls))
    BY <1>1, <1>2, <1>4, ClosingLedger
  <2>4. EffectsHeld(Front(calls), actors, effects', uncertain', nextInc)
    BY <1>1, <2>1, RecordHeld
  <2>5. Close(a, deferred, Stored(tally)) /\ a.inc = actors[Top.sprite].inc
    BY <1>2, <2>1, <2>2
  <2> QED
    BY <1>1, <1>3, <2>3, <2>4, <2>5, ClosedPays
<1>5. CASE e # None
  <2>1. Close(actors[Top.sprite], deferred, tally) /\ effects' = Completed(Top.effect)
    BY <1>2, <1>5 DEF CloseJournalled
  <2>2. Squared(tally, deferred, Front(calls))
    BY <1>1, <1>2, <1>5, ClosingLedger
  <2>3. EffectsHeld(Front(calls), actors, effects', uncertain', nextInc)
    BY <1>1, <1>2, <1>5, <2>1, CompletedHeld
  <2> QED
    BY <1>1, <1>3, <2>1, <2>2, <2>3, ClosedPays
<1> QED
  BY <1>4, <1>5

LEMMA CloseChangedPays ==
    ASSUME BridgeInv, PaidInv, BridgeInv', CloseChanged
    PROVE  PaidInv'
<1>1. /\ CallOpen /\ Asked /\ Top.answer # "stored" /\ Lifetime(Top.sprite, Top.inc) > 0
      /\ Top.inc = actors[Top.sprite].inc /\ nextInc' = nextInc /\ uncertain' = uncertain
  BY LiveFact DEF CloseChanged, Asked
<1>2. PICK s \in Sprites, e \in Effects \cup {None} : s = Top.sprite /\ e = Top.effect
  BY <1>1, TopFact
<1>3. actors[Top.sprite] \in ActorRecord /\ deferred \in Seq(WaitingWrite) /\ tally \in Tally /\ Waits(deferred, calls)
  BY <1>2, At, BridgeParts, HeldParts
<1>4. CASE e = None /\ CloseOriginal
  BY <1>1, <1>4, CloseOriginalPays
<1>5. CASE e # None /\ Close(actors[s], deferred, tally) /\ UNCHANGED effects
  <2>1. Squared(tally, deferred, Front(calls))
    BY <1>1, <1>2, <1>5, ClosingLedger
  <2>2. EffectsHeld(Front(calls), actors, effects', uncertain', nextInc)
    BY <1>1, <1>5, FrontHeld DEF CallOpen
  <2>3. Close(actors[Top.sprite], deferred, tally)
    BY <1>2, <1>5
  <2> QED
    BY <1>1, <1>3, <2>1, <2>2, <2>3, ClosedPays
<1>6. CASE e # None /\ Close(Leaf(s, e), deferred, tally) /\ effects' = Ran(e)
  <2>1. effects[e].shape \in Change
    BY <1>6, ListedFact
  <2>2. PICK a \in ActorRecord : a = Leaf(s, e) /\ a.inc = actors[s].inc
    BY <2>1, OwnFact DEF Leaf
  <2>3. Squared(tally, deferred, Front(calls))
    BY <1>1, <1>2, <1>6, ClosingLedger
  <2>4. EffectsHeld(Front(calls), actors, effects', uncertain', nextInc)
    BY <1>1, <1>2, <1>6, RanHeld
  <2>5. Close(a, deferred, tally) /\ a.inc = actors[Top.sprite].inc
    BY <1>2, <1>6, <2>2
  <2> QED
    BY <1>1, <1>3, <2>3, <2>4, <2>5, ClosedPays
<1> QED
  BY <1>2, <1>4, <1>5, <1>6 DEF CloseChanged

LEMMA CloseRefusedPays ==
    ASSUME BridgeInv, PaidInv, BridgeInv', CloseRefused
    PROVE  PaidInv'
BY CloseOriginalPays DEF CloseRefused

LEMMA StorePays ==
    ASSUME BridgeInv, PaidInv, BridgeInv', Store
    PROVE  PaidInv'
<1>1. /\ CallOpen /\ Top.answer = "tracked" /\ Top.answer # "stored" /\ Top.inc = actors[Top.sprite].inc
      /\ calls' = Answered("stored")
      /\ effects' = (IF Top.effect = None THEN effects ELSE Ran(Top.effect))
      /\ tally' = (IF Top.effect = None THEN Stored(tally) ELSE tally)
      /\ actors' = [actors EXCEPT ![Top.sprite].word = aux[Top.sprite].journal.target,
                                  ![Top.sprite].owed = Owed(@, Top.pre, Top.change)]
      /\ UNCHANGED <<uncertain, deferred, nextInc>>
  BY LiveFact DEF Store, Asked, Answer, Answered
<1>2. \A s \in Sprites : actors'[s].inc = actors[s].inc
  <2>1. actors \in [Sprites -> ActorRecord] /\ Top.sprite \in Sprites
    BY <1>1, TopFact, BridgeParts DEF Typed
  <2>2. actors[Top.sprite] \in ActorRecord
    BY <2>1
  <2>3. PICK w, o : w = aux[Top.sprite].journal.target /\ o = Owed(actors[Top.sprite].owed, Top.pre, Top.change)
    OBVIOUS
  <2>4. actors' = [actors EXCEPT ![Top.sprite] = [actors[Top.sprite] EXCEPT !.word = w, !.owed = o]]
    BY <1>1, <2>1, <2>2, <2>3 DEF ActorRecord
  <2>5. [actors[Top.sprite] EXCEPT !.word = w, !.owed = o].inc = actors[Top.sprite].inc
    BY <2>2 DEF ActorRecord
  <2> QED
    BY <2>1, <2>4, <2>5
<1>3. PICK D \in Seq(CallRecord) :
        /\ D = calls' /\ Len(D) = Len(calls)
        /\ D[Len(calls)] = [Top EXCEPT !.answer = "stored"]
        /\ \A i \in 1..(Len(calls) - 1) : D[i] = calls[i]
        /\ SameCalls(D, calls)
        /\ \A y : Open(calls, y) => Open(D, y)
        /\ Cardinality(SetterCalls(D)) = Cardinality(SetterCalls(Front(calls))) + 0
  <2>1. "stored" \in {"running", "refused", "passed", "tracked", "stored"} /\ "stored" \in {"refused", "passed", "tracked", "stored"}
    OBVIOUS
  <2>2. Answered("stored") \in Seq(CallRecord)
        /\ Cardinality(SetterCalls(Answered("stored"))) = Cardinality(SetterCalls(Front(calls))) + 0
        /\ SameCalls(Answered("stored"), calls)
        /\ \A y : Open(calls, y) => Open(Answered("stored"), y)
    BY <1>1, <2>1, AnsweredPays
  <2>3. /\ Len(Answered("stored")) = Len(calls)
        /\ Answered("stored")[Len(calls)] = [Top EXCEPT !.answer = "stored"]
        /\ \A i \in 1..(Len(calls) - 1) : Answered("stored")[i] = calls[i]
    BY <1>1, <2>1, AnsweredFact
  <2> QED
    BY <1>1, <2>2, <2>3
<1>4. Waits(deferred', D)
  BY <1>1, <1>3, HeldParts, StillWaits
<1>5. Squared(tally', deferred', D)
  <2>1. Squared(tally', deferred', Front(calls))
    BY <1>1, ClosingLedger
  <2>2. Cardinality(SetterCalls(D)) = Cardinality(SetterCalls(Front(calls)))
    BY <1>1, <1>3, SettersFact, BehindFact DEF CallOpen
  <2> QED
    BY <2>1, <2>2 DEF Squared
<1>6. EffectsHeld(D, actors, effects, uncertain, nextInc)
  BY <1>3, HeldParts, SameAsBefore, SameHeld
<1>7. EffectsHeld(D, actors, effects', uncertain, nextInc)
  <2>1. CASE Top.effect = None
    BY <1>1, <1>6, <2>1
  <2>2. CASE Top.effect # None
    <3>1. PICK e \in Effects : e = Top.effect
      BY <1>1, <2>2, TopEffect
    <3>2. PICK F : F = Ran(e)
      OBVIOUS
    <3>3. /\ \A x \in Effects \ {e} : F[x] = effects[x]
          /\ F[e].sprite = effects[e].sprite /\ F[e].done /\ F[e].ran = effects[e].ran + 1
      BY <3>2, DoneFact
    <3>4. ~effects[e].done /\ effects[e].sprite # None
      BY <1>1, <2>2, <3>1, TopEffect
    <3>5. ASSUME NEW i \in 1..Len(D), Holding(D[i], actors), D[i].effect = e PROVE FALSE
      <4>1. CASE i = Len(calls)
        <5>1. D[i].answer = "stored"
          BY <1>1, <1>3, <4>1, TopFact DEF CallRecord
        <5> QED
          BY <3>5, <5>1 DEF Holding
      <4>2. CASE i # Len(calls)
        <5>1. i \in 1..Len(Front(calls)) /\ Front(calls)[i] = calls[i]
          BY <1>1, <1>3, <3>5, <4>2, BehindFact DEF CallOpen
        <5>2. D[i] = calls[i]
          <6>1. i \in 1..(Len(calls) - 1)
            BY <1>1, <1>3, <4>2, TopFact
          <6> QED
            BY <1>3, <6>1
        <5> QED
          BY <1>1, <2>2, <3>1, <3>5, <5>1, <5>2, TopEffect
      <4> QED
        BY <4>1, <4>2
    <3>6. EffectsHeld(D, actors, F, uncertain, nextInc)
      BY <1>6, <3>3, <3>4, <3>5, HeldParts, DoneHeld
    <3> QED
      BY <1>1, <2>2, <3>1, <3>2, <3>6
  <2> QED
    BY <2>1, <2>2
<1>8. PICK E \in [Effects -> EffectRecord] : E = effects'
  BY DEF BridgeInv, Typed
<1>9. PICK A : A = actors'
  OBVIOUS
<1>10. EffectsHeld(D, A, E, uncertain, nextInc)
  <2>1. EffectsHeld(D, actors, E, uncertain, nextInc) /\ \A x \in Sprites : A[x].inc = actors[x].inc
    BY <1>2, <1>7, <1>8, <1>9
  <2> QED
    BY <2>1, IncsHeld
<1> QED
  BY <1>1, <1>3, <1>4, <1>5, <1>8, <1>9, <1>10 DEF PaidInv

LEMMA CompletePays ==
    ASSUME BridgeInv, PaidInv, BridgeInv', Complete \/ CompleteFailed
    PROVE  PaidInv'
<1>1. /\ CallOpen /\ Top.answer = "stored" /\ nextInc' = nextInc /\ effects' = effects
      /\ uncertain' = uncertain \/ uncertain' = Record(Top)
      /\ Close(actors[Top.sprite], deferred, tally)
  BY DEF Complete, CompleteFailed
<1>2. actors[Top.sprite] \in ActorRecord /\ deferred \in Seq(WaitingWrite) /\ tally \in Tally /\ Waits(deferred, calls)
  BY <1>1, TopFact, At, BridgeParts, HeldParts
<1>3. Squared(tally, deferred, Front(calls))
  BY <1>1, ClosingLedger
<1>4. EffectsHeld(Front(calls), actors, effects', uncertain', nextInc)
  BY <1>1, FrontHeld, RecordHeld DEF CallOpen
<1> QED
  BY <1>1, <1>2, <1>3, <1>4, ClosedPays

\* Steps that only move words, owed XP, accounts, shapes and saves.
LEMMA SameCallsPay ==
    ASSUME BridgeInv, PaidInv, BridgeInv', SameActors(actors', actors), SameEffects(effects', effects),
           UNCHANGED <<calls, uncertain, deferred, nextInc>>,
           tally'.sets = tally.sets, tally'.stored = tally.stored, tally'.ended = tally.ended
    PROVE  PaidInv'
<1>1. Squared(tally', deferred', calls') /\ Waits(deferred', calls')
  BY HeldParts DEF Squared
<1>2. SameCalls(calls', calls) /\ uncertain' = uncertain /\ nextInc' = nextInc
  BY SameAsBefore
<1> QED
  BY <1>1, <1>2, QuietPays

LEMMA EventTally ==
    ASSUME NEW t \in Tally
    PROVE  LET u == [t EXCEPT !.events = @ + 1] IN
           u.sets = t.sets /\ u.stored = t.stored /\ u.ended = t.ended
BY DEF Tally

\* Steps of the rest of the game that leave every actor where it is.
LEMMA QuietStepsPay ==
    ASSUME BridgeInv, PaidInv, BridgeInv',
           \/ \E s \in Sprites : CapCheck(s) \/ ForeignEvent(s)
           \/ \E word \in DriftWords : Drift(word)
           \/ \E shape \in Shapes : Reshape(shape)
    PROVE  PaidInv'
<1>1. actors \in [Sprites -> ActorRecord] /\ effects \in [Effects -> EffectRecord] /\ tally \in Tally
  BY BridgeParts DEF Typed
<1>2. ASSUME NEW s \in Sprites, NEW w, NEW o
      PROVE  \A x \in Sprites : [actors EXCEPT ![s] = [actors[s] EXCEPT !.word = w, !.owed = o]][x].inc = actors[x].inc
  <2>1. [actors[s] EXCEPT !.word = w, !.owed = o].inc = actors[s].inc
    BY <1>1 DEF ActorRecord
  <2> QED
    BY <1>1, <2>1
<1>3. ASSUME NEW s \in Sprites, CapCheck(s) PROVE PaidInv'
  <2>1. \A x \in Sprites : actors'[x].inc = actors[x].inc
    BY <1>1, <1>3 DEF CapCheck, Noted, ActorRecord
  <2>2. UNCHANGED <<effects, calls, uncertain, deferred, nextInc, tally>>
    BY <1>3 DEF CapCheck
  <2> QED
    BY <2>1, <2>2, SameAsBefore, SameCallsPay DEF SameActors
<1>4. ASSUME NEW s \in Sprites, ForeignEvent(s) PROVE PaidInv'
  <2>1. PICK w : actors' = [actors EXCEPT ![s].word = w, ![s].owed = w]
    BY <1>4 DEF ForeignEvent
  <2>2. actors' = [actors EXCEPT ![s] = [actors[s] EXCEPT !.word = w, !.owed = w]]
    BY <1>1, <2>1 DEF ActorRecord
  <2>3. \A x \in Sprites : actors'[x].inc = actors[x].inc
    BY <1>2, <2>2
  <2>4. UNCHANGED <<effects, calls, uncertain, deferred, nextInc>> /\ tally' = [tally EXCEPT !.events = @ + 1]
    BY <1>4 DEF ForeignEvent
  <2>5. tally'.sets = tally.sets /\ tally'.stored = tally.stored /\ tally'.ended = tally.ended
    BY <1>1, <2>4, EventTally
  <2> QED
    BY <2>3, <2>4, <2>5, SameAsBefore, SameCallsPay DEF SameActors
<1>5. ASSUME NEW word \in DriftWords, Drift(word) PROVE PaidInv'
  <2>1. PICK s \in Sprites : s = Top.sprite
    BY <1>5, TopFact DEF Drift
  <2>2. PICK o : o = actors[s].owed + (word - actors[s].word)
    OBVIOUS
  <2>3. actors' = [actors EXCEPT ![s] = [actors[s] EXCEPT !.word = word, !.owed = o]]
    BY <1>1, <1>5, <2>1, <2>2 DEF Drift, ActorRecord
  <2>4. \A x \in Sprites : actors'[x].inc = actors[x].inc
    BY <1>2, <2>3
  <2>5. UNCHANGED <<effects, calls, uncertain, deferred, nextInc, tally>>
    BY <1>5 DEF Drift
  <2> QED
    BY <2>4, <2>5, SameAsBefore, SameCallsPay DEF SameActors
<1>6. ASSUME NEW shape \in Shapes, Reshape(shape) PROVE PaidInv'
  <2>1. PICK e : e = Top.effect /\ effects' = [effects EXCEPT ![e].shape = shape]
    BY <1>6 DEF Reshape
  <2>2. SameEffects(effects', effects)
    BY <1>1, <2>1 DEF SameEffects, EffectRecord
  <2>3. UNCHANGED <<actors, calls, uncertain, deferred, nextInc, tally>>
    BY <1>6 DEF Reshape
  <2> QED
    BY <2>2, <2>3, SameAsBefore, SameCallsPay
<1> QED
  BY <1>3, <1>4, <1>5, <1>6

LEMMA SavePays ==
    ASSUME BridgeInv, PaidInv, BridgeInv', NEW s \in Sprites, Save(s)
    PROVE  PaidInv'
<1> DEFINE f == [bridge |-> "save", sprite |-> s, effect |-> None, inc |-> 0,
                 change |-> Free.shape, pre |-> 0, answer |-> "running"]
<1>1. calls' = Append(calls, f) /\ UNCHANGED <<actors, effects, uncertain, deferred, nextInc, tally>>
  BY DEF Save
<1>2. f.bridge = "save"
  OBVIOUS
<1> HIDE DEF f
<1>3. PICK C \in Seq(CallRecord), n \in Nat : C = calls' /\ n = Len(calls)
  BY BridgeParts DEF BridgeInv, Typed
<1>4. /\ Len(C) = n + 1 /\ C[n + 1] = f /\ \A i \in 1..n : C[i] = calls[i]
      /\ \A i \in 1..(n + 1) : i = n + 1 \/ i \in 1..n
      /\ \A i \in 1..n : i \in 1..(n + 1)
  BY <1>1, <1>3, BridgeParts, AppendProperties
<1>5. \A x : Open(calls, x) => Open(C, x)
  <2>1. DOMAIN C = 1..(n + 1) /\ DOMAIN calls = 1..n
    BY <1>3, <1>4, BridgeParts, SeqFact
  <2> QED
    BY <1>4, <2>1 DEF Open
<1>6. Cardinality(SetterCalls(C)) = Cardinality(SetterCalls(calls)) + 0
  <2>1. ~Unstored(C[Len(C)])
    BY <1>2, <1>4 DEF Unstored
  <2> QED
    BY <1>3, <1>4, <2>1, BridgeParts, OneMoreCall
<1>7. SameCalls(C, calls)
  <2>1. \A i \in 1..n : SameCall(C[i], calls[i])
    BY <1>4 DEF SameCall
  <2> QED
    BY <1>2, <1>3, <1>4, <2>1 DEF SameCalls
<1>8. Squared(tally', deferred', C) /\ Waits(deferred', C)
  <2>1. Squared(tally, deferred, C)
    BY <1>6, CountsFact, HeldParts DEF Squared
  <2>2. Waits(deferred, C)
    BY <1>5, HeldParts, StillWaits
  <2> QED
    BY <1>1, <2>1, <2>2
<1> QED
  BY <1>1, <1>3, <1>7, <1>8, SameAsBefore, QuietPays

LEMMA EndSavePays ==
    ASSUME BridgeInv, PaidInv, EndSave
    PROVE  PaidInv'
<1>1. /\ calls # <<>> /\ Top.bridge = "save" /\ calls' = Front(calls)
      /\ UNCHANGED <<actors, effects, uncertain, deferred, nextInc, tally>>
  BY DEF EndSave
<1>2. EffectsHeld(Front(calls), actors, effects, uncertain, nextInc)
  BY <1>1, FrontHeld
<1>3. Waits(deferred, Front(calls))
  BY <1>1, BehindFact, HeldParts, StillWaits
<1>4. Squared(tally, deferred, Front(calls))
  <2>1. Cardinality(SetterCalls(Front(calls))) = Cardinality(SetterCalls(calls))
    BY <1>1, BehindFact, SettersFact DEF Unstored
  <2> QED
    BY <2>1, HeldParts DEF Squared
<1> QED
  BY <1>1, <1>2, <1>3, <1>4 DEF PaidInv

\* Another actor takes the address: no open call and no record means it, and
\* nothing is listed for it.
LEMMA NewActorPays ==
    ASSUME BridgeInv, PaidInv, NEW s \in Sprites, NEW a, a.inc = 0 \/ (a.inc = nextInc + 1 /\ nextInc < MaxInc),
           actors' = [actors EXCEPT ![s] = a], effects' = Unlisted(s), nextInc' = NextInc,
           UNCHANGED <<calls, uncertain, deferred>>, tally' = [tally EXCEPT !.events = @ + 1]
    PROVE  PaidInv'
<1>1. nextInc \in Nat /\ NextInc \in Nat /\ nextInc <= NextInc
  BY BridgeParts, NextIncFact
<1>2. PICK A, E : A = actors' /\ E = effects'
  OBVIOUS
<1>3. \A x \in Sprites : A[x] = IF x = s THEN a ELSE actors[x]
  BY <1>2, BridgeParts DEF Typed
<1>4. \A e \in Effects : E[e] = IF effects[e].sprite = s THEN Free ELSE effects[e]
  BY <1>2 DEF Unlisted
<1>5. Free.sprite = None
  BY DEF Free
<1>6. ASSUME NEW i \in 1..Len(calls), Holding(calls[i], A)
      PROVE  Holding(calls[i], actors) /\ calls[i].sprite # s /\ calls[i].effect \in Effects
  <2>1. calls[i] \in CallRecord /\ calls[i].bridge # "save"
    BY <1>6, BridgeParts, SeqFact DEF Holding
  <2>2. /\ calls[i].sprite \in Sprites /\ calls[i].inc \in Nat /\ calls[i].inc # 0 /\ calls[i].inc <= nextInc
        /\ calls[i].effect \in Effects \cup {None}
    BY <2>1, CallFact, BridgeParts DEF Stack, Asking, NotAhead
  <2>3. calls[i].sprite # s
    <3>1. calls[i].inc # a.inc
      BY <1>1, <2>2
    <3> QED
      BY <1>3, <1>6, <3>1 DEF Holding
  <2> QED
    BY <1>3, <1>6, <2>2, <2>3 DEF Holding
<1>7. InHand(calls, A, E)
  <2> SUFFICES ASSUME NEW i \in 1..Len(calls), Holding(calls[i], A)
               PROVE  E[calls[i].effect].sprite = calls[i].sprite /\ ~E[calls[i].effect].done
    BY DEF InHand
  <2>1. effects[calls[i].effect].sprite = calls[i].sprite /\ ~effects[calls[i].effect].done
    BY <1>6, HeldParts DEF InHand
  <2> QED
    BY <1>4, <1>6, <2>1
<1>8. Paid(A, E, uncertain)
  <2> SUFFICES ASSUME NEW e \in Effects, E[e].sprite # None
               PROVE  IF ~E[e].done THEN E[e].ran = 0
                      ELSE \/ E[e].ran = 1
                           \/ E[e].ran = 0 /\ \E b \in Bridges :
                                 uncertain[b][E[e].sprite] = [inc |-> A[E[e].sprite].inc, effect |-> e]
    BY DEF Paid
  <2>1. E[e] = effects[e] /\ effects[e].sprite # s /\ effects[e].sprite \in Sprites
    BY <1>4, <1>5, ListedFact
  <2>2. A[effects[e].sprite] = actors[effects[e].sprite]
    BY <1>3, <2>1
  <2> QED
    BY <2>1, <2>2, HeldParts DEF Paid
<1>9. OnRecord(calls, A, uncertain, NextInc)
  <2> SUFFICES ASSUME NEW b \in Bridges, NEW x \in Sprites, uncertain[b][x] # NoRecord
               PROVE  /\ uncertain[b][x].inc # 0 /\ uncertain[b][x].inc <= NextInc
                      /\ uncertain[b][x].inc = A[x].inc => ~Open(calls, x)
    BY DEF OnRecord
  <2>1. PICK n \in Nat : n = uncertain[b][x].inc
    BY RecordFact DEF Receipt
  <2>2. n # 0 /\ n <= nextInc /\ (n = actors[x].inc => ~Open(calls, x))
    BY <2>1, HeldParts DEF OnRecord
  <2>3. n <= NextInc
    BY <1>1, <2>2
  <2>4. n = A[x].inc => x # s
    BY <1>1, <1>3, <2>2
  <2> QED
    BY <1>3, <2>1, <2>2, <2>3, <2>4
<1>10. tally'.sets = tally.sets /\ tally'.stored = tally.stored /\ tally'.ended = tally.ended
  BY BridgeParts, EventTally
<1>11. Squared(tally', deferred, calls)
  BY <1>10, HeldParts DEF Squared
<1>12. EffectsHeld(calls, A, E, uncertain, NextInc)
  BY <1>7, <1>8, <1>9 DEF EffectsHeld
<1> QED
  BY <1>2, <1>11, <1>12, HeldParts DEF PaidInv

LEMMA CreatePays ==
    ASSUME BridgeInv, PaidInv, NEW s \in Sprites, NEW eligible \in BOOLEAN, NEW word \in FreshWords,
           Create(s, eligible, word)
    PROVE  PaidInv'
<1>1. PICK inc \in {0} \cup (IF nextInc < MaxInc THEN {nextInc + 1} ELSE {}) :
        actors' = [actors EXCEPT ![s] = Actor(inc, eligible /\ inc # 0, word, word)]
  BY DEF Create
<1>2. PICK a : a = Actor(inc, eligible /\ inc # 0, word, word)
  OBVIOUS
<1>3. a.inc = inc /\ (inc = 0 \/ (inc = nextInc + 1 /\ nextInc < MaxInc))
  BY <1>2 DEF Actor
<1>4. /\ actors' = [actors EXCEPT ![s] = a] /\ effects' = Unlisted(s) /\ nextInc' = NextInc
      /\ UNCHANGED <<calls, uncertain, deferred>> /\ tally' = [tally EXCEPT !.events = @ + 1]
  BY <1>1, <1>2 DEF Create
<1> QED
  BY <1>3, <1>4, NewActorPays

LEMMA LoadPays ==
    ASSUME BridgeInv, PaidInv, NEW s \in Sprites, Load(s)
    PROVE  PaidInv'
<1>1. PICK a : a = Actor(nextInc + 1, TRUE, disk[s].word, disk[s].owed)
  OBVIOUS
<1>2. a.inc = nextInc + 1 /\ nextInc < MaxInc
  BY <1>1 DEF Actor, Load
<1>3. /\ actors' = [actors EXCEPT ![s] = a] /\ effects' = Unlisted(s) /\ nextInc' = NextInc
      /\ UNCHANGED <<calls, uncertain, deferred>> /\ tally' = [tally EXCEPT !.events = @ + 1]
  BY <1>1 DEF Load
<1> QED
  BY <1>2, <1>3, NewActorPays

\* A process that begins has nothing to account for.
LEMMA NothingYet ==
    ASSUME NEW C, C = <<>>, NEW w, w = <<>>, NEW t, t.sets = 0, t.stored = 0, t.ended = 0, NEW A, NEW N,
           NEW E, E = [e \in Effects |-> Free],
           NEW U, U = [b \in Bridges |-> [s \in Sprites |-> NoRecord]]
    PROVE  EffectsHeld(C, A, E, U, N) /\ Squared(t, w, C) /\ Waits(w, C)
<1>1. Len(C) = 0 /\ Len(w) = 0 /\ 1..0 = {}
  OBVIOUS
<1>2. SetterCalls(C) = {}
  BY <1>1 DEF SetterCalls
<1>3. Cardinality(SetterCalls(C)) = 0
  BY <1>2, FS_EmptySet
<1>4. Squared(t, w, C) /\ Waits(w, C)
  BY <1>1, <1>3 DEF Squared, Waits
<1>5. InHand(C, A, E) /\ Paid(A, E, U)
  BY <1>1 DEF InHand, Paid, Free
<1>6. OnRecord(C, A, U, N)
  BY DEF OnRecord
<1> QED
  BY <1>4, <1>5, <1>6 DEF EffectsHeld

LEMMA RestartPays == ASSUME Restart PROVE PaidInv'
<1>1. /\ calls' = <<>> /\ deferred' = <<>>
      /\ effects' = [e \in Effects |-> Free]
      /\ uncertain' = [b \in Bridges |-> [s \in Sprites |-> NoRecord]]
      /\ tally' = [NoHistory EXCEPT !.issued = tally.issued, !.events = tally.events + 1]
  BY DEF Restart
<1>2. tally'.sets = 0 /\ tally'.stored = 0 /\ tally'.ended = 0
  BY <1>1 DEF NoHistory
<1> QED
  BY <1>1, <1>2, NothingYet DEF PaidInv

LEMMA InitPays == BridgeInit => PaidInv
<1> SUFFICES ASSUME BridgeInit PROVE PaidInv
  OBVIOUS
<1>1. /\ calls = <<>> /\ deferred = <<>> /\ effects = [e \in Effects |-> Free]
      /\ uncertain = [b \in Bridges |-> [s \in Sprites |-> NoRecord]] /\ tally = NoHistory
  BY DEF BridgeInit, Empty
<1>2. tally.sets = 0 /\ tally.stored = 0 /\ tally.ended = 0
  BY <1>1 DEF NoHistory
<1> QED
  BY <1>1, <1>2, NothingYet DEF PaidInv

LEMMA StepPays ==
    ASSUME BridgeInv, PaidInv, [BridgeNext]_bridgeVars
    PROVE  PaidInv'
<1> USE StepKeeps
<1>1. CASE UNCHANGED bridgeVars
  BY <1>1 DEF bridgeVars, PaidInv
<1>2. ASSUME NEW s \in Sprites, NEW e \in Effects, NEW shape \in Shapes, AddEffect(s, e, shape)
      PROVE  PaidInv'
  BY <1>2, AddEffectPays
<1>3. ASSUME NEW e \in Effects, Resolve(e) PROVE PaidInv'
  <2>1. CASE ResolveOriginal(e)
    BY <2>1, ResolveOriginalPays
  <2>2. CASE DeferEffect(e)
    BY <1>1, <2>2 DEF DeferEffect
  <2>3. CASE EnterEffect(e)
    BY <2>3, EnterEffectPays
  <2> QED
    BY <1>3, <2>1, <2>2, <2>3 DEF Resolve
<1>4. ASSUME NEW s \in Sprites, NEW c \in Setters, CallSet(s, c) PROVE PaidInv'
  BY <1>4, SetOriginalPays, SetDeferredPays, EnterSetPays DEF CallSet
<1>5. CASE Prepare
  BY <1>5, PreparePays
<1>6. CASE Finish
  BY <1>6, CloseUnknownPays, CloseEndedPays, CloseJournalledPays, CloseChangedPays,
     CloseRefusedPays, StorePays, CompletePays DEF Finish
<1>7. ASSUME NEW s \in Sprites, CapCheck(s) \/ Save(s) \/ Load(s) \/ ForeignEvent(s) PROVE PaidInv'
  BY <1>7, QuietStepsPay, SavePays, LoadPays
<1>8. ASSUME NEW s \in Sprites, NEW eligible \in BOOLEAN, NEW word \in FreshWords,
             Create(s, eligible, word)
      PROVE  PaidInv'
  BY <1>8, CreatePays
<1>9. ASSUME NEW word \in DriftWords, Drift(word) PROVE PaidInv'
  BY <1>9, QuietStepsPay
<1>10. ASSUME NEW shape \in Shapes, Reshape(shape) PROVE PaidInv'
  BY <1>10, QuietStepsPay
<1>11. CASE EndSave
  BY <1>11, EndSavePays
<1>12. CASE Restart
  BY <1>12, RestartPays
<1> QED
  BY <1>1, <1>2, <1>3, <1>4, <1>5, <1>6, <1>7, <1>8, <1>9, <1>10, <1>11, <1>12 DEF BridgeNext

\* What the invariant says of effects and setter writes.
LEMMA PaidInvMeans == BridgeInv /\ PaidInv => ChangesCountOnce
<1> SUFFICES ASSUME BridgeInv, PaidInv PROVE ChangesCountOnce
  OBVIOUS
<1>1. EffectsPaidOnce
  <2> SUFFICES ASSUME NEW e \in Effects, effects[e].sprite # None
               PROVE  IF effects[e].done
                      THEN \/ effects[e].ran = 1
                           \/ effects[e].ran = 0 /\ \E b \in Bridges :
                                 uncertain[b][effects[e].sprite].effect = e
                      ELSE effects[e].ran = 0
    BY DEF EffectsPaidOnce
  <2>1. CASE effects[e].done /\ effects[e].ran # 1
    <3>1. PICK b \in Bridges :
            /\ effects[e].ran = 0
            /\ uncertain[b][effects[e].sprite] = [inc |-> actors[effects[e].sprite].inc, effect |-> e]
      BY <2>1, HeldParts DEF Paid
    <3>2. uncertain[b][effects[e].sprite].effect = e
      BY <3>1
    <3> QED
      BY <2>1, <3>1, <3>2
  <2>2. CASE ~effects[e].done \/ effects[e].ran = 1
    BY <2>2, HeldParts DEF Paid
  <2> QED
    BY <2>1, <2>2
<1>2. SettersAccounted
  <2>1. SetterCalls(calls) = {i \in DOMAIN calls : /\ calls[i].bridge = "write"
                                                   /\ calls[i].effect = None
                                                   /\ calls[i].answer # "stored"}
    BY BridgeParts DEF SetterCalls, Unstored
  <2> QED
    BY <2>1, HeldParts DEF SettersAccounted, Squared
<1>3. WaitsOnlyWhileOpen
  <2>1. DOMAIN deferred = 1..Len(deferred)
    BY BridgeParts, SeqFact
  <2> QED
    BY <2>1, HeldParts DEF WaitsOnlyWhileOpen, Waits
<1> QED
  BY <1>1, <1>2, <1>3 DEF ChangesCountOnce

\* However calls nest and fail, each listed effect runs once, or the record of an
\* unresolved journal names it, and each stat 44 write is stored once, still
\* waits behind an open change of its actor, is kept, or has ended with the actor
\* (CBMA_ApplyEffect, write_impl, CBMW_Settle).
THEOREM EachCountsOnce == BridgeSpec => []ChangesCountOnce
<1>1. PaidInv /\ BridgeInv /\ [BridgeNext]_bridgeVars => PaidInv'
  BY StepPays
<1> QED
  BY <1>1, InitPays, BridgeInvariant, PaidInvMeans, PTL DEF BridgeSpec
=============================================================================
