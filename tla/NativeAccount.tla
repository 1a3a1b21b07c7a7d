--------------------------- MODULE NativeAccount ---------------------------
(***************************************************************************)
(* The XP account of one actor (research/xp-banking/native_account.lua)    *)
(* as operators on records.  The engine's 32-bit base XP word is the only  *)
(* copy of ordinary XP; the account keeps the part that would have wrapped *)
(* (overflow), the XP frozen for a retired class (old), the campaign phase *)
(* and the floor captured when the actor was adopted.  A Lua assertion     *)
(* that refuses an operation is an operator named ...Fits: the caller      *)
(* publishes nothing when it is FALSE.                                     *)
(*                                                                         *)
(* A phase is its rank: 1..4 for BG1, SOD, SOA, TOB and 1..22 for CH1 to   *)
(* CH22.  An account without an old class has NoOld instead of nil.        *)
(***************************************************************************)
EXTENDS Integers, Sequences

CONSTANTS
    U32,          \* 4294967295: the largest base XP word
    ExactMax,     \* 9007199254740991: the largest integer Lua stores exactly
    MaxRevision   \* the last revision an account can have

ASSUME NativeAssumption ==
    /\ U32 \in Nat \ {0}
    /\ U32 % 2 = 1
    /\ ExactMax \in Nat
    /\ U32 <= ExactMax
    /\ MaxRevision \in Nat

S32 == U32 \div 2      \* 2147483647
Word == 0..U32
Exact == 0..ExactMax

Least(a, b) == IF a <= b THEN a ELSE b
Greatest(a, b) == IF a <= b THEN b ELSE a

\* checked(): the sum of two balances can be stored exactly.
Storable(a, b) == a + b <= ExactMax
-----------------------------------------------------------------------------
Policies == {"bg1_sod", "bg1_sod_soa", "chapter_caps"}
Kinds == {"single", "multi", "dual"}

ChapterCaps ==
    <<16000, 16000, 20000, 32000, 64000, 85000, 161000, 200000, 250000,
      350000, 420000, 500000, 500000, 1000000, 2500000, 2900000, 3250000,
      3500000, 3500000, 5000000, 8000000, 8900000>>

Phases(policy) == IF policy = "chapter_caps" THEN 1..22 ELSE 1..4

\* The cap of a policy in each campaign: the whole word when it has none.
CampaignCaps(policy) ==
    <<161000, 500000, IF policy = "bg1_sod_soa" THEN 2950000 ELSE U32, U32>>

OwnCap(policy, phase) ==
    IF policy = "chapter_caps" THEN ChapterCaps[phase]
    ELSE CampaignCaps(policy)[phase]

OldAccounts == [total : Exact, usable : Exact, preUsable : Exact, preBank : Exact]
NoOld == [total |-> 0, usable |-> 0, preUsable |-> 0, preBank |-> 0]

Accounts ==
    [policy : Policies, phase : 1..22, revision : 0..MaxRevision, floor : Word,
     overflow : Exact, kind : Kinds, old : OldAccounts]

\* valid()
Valid(s) ==
    /\ s \in Accounts
    /\ s.phase \in Phases(s.policy)
    /\ s.kind = "dual" =>
        /\ s.old.usable <= s.old.total
        /\ s.old.preUsable + s.old.preBank = s.old.total
        /\ s.old.usable >= s.old.preUsable
    /\ s.kind # "dual" => s.old = NoOld

Ceiling(s, native) ==
    Least(native, Greatest(OwnCap(s.policy, s.phase), s.floor))
-----------------------------------------------------------------------------
\* Inspect(): what the character may use of the base word and the overflow.
\* Without an old class NoOld makes the retired part of each sum zero.
ActiveTotal(s, base) == base + s.overflow

Room(s, native) == Greatest(0, Ceiling(s, native) - s.old.usable)

ActiveUsable(s, base, native) ==
    Least(Least(ActiveTotal(s, base), Room(s, native)), U32)

ActiveBank(s, base, native) == ActiveTotal(s, base) - ActiveUsable(s, base, native)

Usable(s, base, native) == s.old.usable + ActiveUsable(s, base, native)

\* Mutant: the released old XP is not charged against the shared cap.
Select_IgnoresDebit(s, base, native) == Least(base, Ceiling(s, native))

\* cap_hook.lua Select: the derived XP word the engine levels the actor with.
Select(s, base, native) ==
    Least(base, Greatest(0, Ceiling(s, native) - s.old.usable))
-----------------------------------------------------------------------------
Adopt(policy, phase, base, kind) ==
    [policy |-> policy, phase |-> phase, revision |-> 0, floor |-> base,
     overflow |-> 0, kind |-> kind, old |-> NoOld]

AdoptExistingDual(policy, phase, base, threshold) ==
    [policy |-> policy, phase |-> phase, revision |-> 0,
     floor |-> Least(U32, base + threshold), overflow |-> 0, kind |-> "dual",
     old |-> [total |-> threshold, usable |-> threshold,
              preUsable |-> threshold, preBank |-> 0]]

ReleasedOld(s, ceiling) ==
    Greatest(s.old.usable, Least(s.old.total, ceiling))

AdvanceFits(s, phase) ==
    /\ phase \in Phases(s.policy)
    /\ phase >= s.phase
    /\ phase # s.phase => s.revision < MaxRevision

\* Advance(): old awards came first, so their class is released first.
Moved(s, phase) ==
    [policy |-> s.policy, phase |-> phase, revision |-> s.revision + 1,
     floor |-> s.floor, overflow |-> s.overflow, kind |-> s.kind, old |-> s.old]

Advance(s, phase, native) ==
    LET ceiling == Ceiling(Moved(s, phase), native)
        released == [total |-> s.old.total, usable |-> ReleasedOld(s, ceiling),
                     preUsable |-> s.old.preUsable, preBank |-> s.old.preBank]
    IN IF phase = s.phase THEN s
       ELSE [policy |-> s.policy, phase |-> phase, revision |-> s.revision + 1,
             floor |-> s.floor, overflow |-> s.overflow, kind |-> s.kind,
             old |-> IF s.kind = "dual" THEN released ELSE s.old]
-----------------------------------------------------------------------------
\* The part of a positive award the word has room for; the rest would wrap.
Applied(preBase, amount) == Least(amount, U32 - preBase)
Remainder(preBase, amount) == amount - Applied(preBase, amount)

AwardFits(s, preBase, amount) ==
    /\ amount \in 1..S32
    /\ s.revision < MaxRevision
    /\ Storable(s.overflow, Remainder(preBase, amount))
    /\ Storable(preBase + Applied(preBase, amount),
                s.overflow + Remainder(preBase, amount))
    /\ s.kind = "dual" =>
        Storable(s.old.total, preBase + amount + s.overflow)

\* Mutant: the wrapped part replaces what earlier awards had left over.
Banked_Replaces(s, preBase, amount) == Remainder(preBase, amount)

Banked(s, preBase, amount) == s.overflow + Remainder(preBase, amount)

\* CompleteAward()
CompleteAward(s, preBase, amount) ==
    [policy |-> s.policy, phase |-> s.phase, revision |-> s.revision + 1,
     floor |-> s.floor, overflow |-> Banked(s, preBase, amount),
     kind |-> s.kind, old |-> s.old]
-----------------------------------------------------------------------------
\* A write is an addition of the signed 32-bit value ("add"), a replacement
\* ("set"), a percentage of the word ("percent") or a recruitment catch-up
\* ("catchup"), which never lowers the total.
Modes == {"add", "set", "percent", "catchup"}
Loss(raw) == U32 + 1 - raw

WriteTotal(s, base, mode, raw) ==
    CASE mode = "add" /\ raw <= S32 -> ActiveTotal(s, base) + raw
      [] mode = "add" /\ raw > S32 -> ActiveTotal(s, base) - Loss(raw)
      [] mode = "percent" -> ((base * raw) % (U32 + 1)) \div 100
      [] mode = "catchup" -> Greatest(ActiveTotal(s, base), raw)
      [] mode = "set" -> raw

\* Mutant: a loss larger than the balance is not refused.
WriteFits_AnyLoss(s, base, mode, raw) ==
    /\ s.revision < MaxRevision
    /\ Storable(base, s.overflow)
    /\ mode = "percent" => s.overflow = 0
    /\ Storable(0, WriteTotal(s, base, mode, raw))
    /\ s.kind = "dual" => Storable(s.old.total, WriteTotal(s, base, mode, raw))

WriteFits(s, base, mode, raw) ==
    /\ s.revision < MaxRevision
    /\ Storable(base, s.overflow)
    /\ mode = "percent" => s.overflow = 0
    /\ mode = "add" /\ raw > S32 => Loss(raw) <= ActiveTotal(s, base)
    /\ Storable(0, WriteTotal(s, base, mode, raw))
    /\ s.kind = "dual" => Storable(s.old.total, WriteTotal(s, base, mode, raw))

\* PrepareWrite(): the word to store and the account that goes with it.
Target(s, base, mode, raw) == Least(U32, WriteTotal(s, base, mode, raw))

PrepareWrite(s, base, mode, raw) ==
    [policy |-> s.policy, phase |-> s.phase, revision |-> s.revision + 1,
     floor |-> s.floor,
     overflow |-> WriteTotal(s, base, mode, raw) - Target(s, base, mode, raw),
     kind |-> s.kind, old |-> s.old]
-----------------------------------------------------------------------------
\* Mutant: a character who already has a retired class is accepted.
DualFits_AnyKind(s, base, native, threshold) ==
    /\ s.revision < MaxRevision
    /\ Storable(base, s.overflow)
    /\ threshold <= ActiveUsable(s, base, native)

DualFits(s, base, native, threshold) ==
    /\ s.kind = "single"
    /\ s.revision < MaxRevision
    /\ Storable(base, s.overflow)
    /\ threshold <= ActiveUsable(s, base, native)

\* Mutant: the retired class keeps only its level's threshold, bank or not.
OldUsable_Threshold(s, base, native, threshold) == threshold

\* Without a bank the old class keeps its level's threshold, as in the
\* original game; a bank protects exactly what was usable before the reset.
OldUsable(s, base, native, threshold) ==
    IF ActiveBank(s, base, native) > 0 THEN ActiveUsable(s, base, native)
    ELSE threshold

PrepareDual(s, base, native, threshold) ==
    LET usable == OldUsable(s, base, native, threshold)
        bank == ActiveBank(s, base, native)
    IN [policy |-> s.policy, phase |-> s.phase, revision |-> s.revision + 1,
        floor |-> s.floor, overflow |-> 0, kind |-> "dual",
        old |-> [total |-> usable + bank, usable |-> usable,
                 preUsable |-> usable, preBank |-> bank]]
=============================================================================
