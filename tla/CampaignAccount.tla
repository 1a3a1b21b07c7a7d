-------------------------- MODULE CampaignAccount --------------------------
(***************************************************************************)
(* The life of one banked account: adopted, awarded, written, dual-classed,*)
(* advanced from campaign to campaign, and carried into a new run by a     *)
(* character export (bank_runtime.lua).  Every step here is a change the   *)
(* bank took completely; the steps it can be interrupted between are in    *)
(* XpBridge.                                                               *)
(***************************************************************************)
EXTENDS NativeAccount

CONSTANTS
    NativeCap,    \* what the engine's GetXPCap returns for this actor
    Amounts,      \* positive awards the game gives
    Writes,       \* the game's other XP writes: pairs of a mode and an operand
    Baselines     \* base words and retired thresholds at adoption

ASSUME CampaignAssumption ==
    /\ NativeCap \in Word
    /\ Amounts \subseteq 1..S32
    /\ Writes \subseteq Modes \X Word
    /\ Baselines \subseteq Word

VARIABLES
    account,    \* the saved account
    base,       \* m_baseStats.m_xp
    earned,     \* history: the exact XP of the active class
    imported    \* history: carried into a new run since the phase last changed

vars == <<account, base, earned, imported>>

Init ==
    \E policy \in Policies, b \in Baselines, threshold \in Baselines :
    \E phase \in Phases(policy) :
        /\ base = b
        /\ earned = b
        /\ imported = FALSE
        /\ \/ \E kind \in {"single", "multi"} :
                account = Adopt(policy, phase, b, kind)
           \/ /\ Storable(b, threshold)
              /\ account = AdoptExistingDual(policy, phase, b, threshold)

\* R.CompleteAward after the narrowed native award has stored.
Award(amount) ==
    /\ AwardFits(account, base, amount)
    /\ account' = CompleteAward(account, base, amount)
    /\ base' = base + Applied(base, amount)
    /\ earned' = earned + amount
    /\ UNCHANGED imported

\* What the engine's own arithmetic, without a 32-bit limit, makes of a write.
Intended(mode, raw) ==
    CASE mode = "add" /\ raw <= S32 -> earned + raw
      [] mode = "add" /\ raw > S32 -> earned - Loss(raw)
      [] mode = "percent" -> ((earned * raw) % (U32 + 1)) \div 100
      [] mode = "catchup" -> Greatest(earned, raw)
      [] mode = "set" -> raw

\* R.CompleteWrite after the planned word has been stored.
Write(mode, raw) ==
    /\ WriteFits(account, base, mode, raw)
    /\ account' = PrepareWrite(account, base, mode, raw)
    /\ base' = Target(account, base, mode, raw)
    /\ earned' = Intended(mode, raw)
    /\ UNCHANGED imported

\* R.CompleteDual after the native reset has cleared the word.
Dual(threshold) ==
    /\ DualFits(account, base, NativeCap, threshold)
    /\ account' = PrepareDual(account, base, NativeCap, threshold)
    /\ base' = 0
    /\ earned' = 0
    /\ UNCHANGED imported

\* R.Snapshot in a later campaign.
EnterPhase(phase) ==
    /\ phase # account.phase
    /\ AdvanceFits(account, phase)
    /\ account' = Advance(account, phase, NativeCap)
    /\ imported' = FALSE
    /\ UNCHANGED <<base, earned>>

\* Mutant: the high-water mark of the old run is kept as the new floor.
ImportFloor_Old(s, b) == s.floor

\* The CHR entitlement receipt names the usable XP at export.
ImportFloor(s, b) == Usable(s, b, NativeCap)

\* R.ReconcileCHR: the new run's phase and floor; balances are carried over.
NewRun(phase) ==
    /\ account.revision < MaxRevision
    /\ Usable(account, base, NativeCap) <= U32
    /\ account' = [policy |-> account.policy, phase |-> phase,
                   revision |-> account.revision + 1,
                   floor |-> ImportFloor(account, base),
                   overflow |-> account.overflow, kind |-> account.kind,
                   old |-> account.old]
    /\ imported' = TRUE
    /\ UNCHANGED <<base, earned>>

Next ==
    \/ \E amount \in Amounts : Award(amount)
    \/ \E write \in Writes : Write(write[1], write[2])
    \/ \E threshold \in Baselines : Dual(threshold)
    \/ \E phase \in Phases(account.policy) : EnterPhase(phase)
    \/ \E phase \in Phases(account.policy) : NewRun(phase)

Spec == Init /\ [][Next]_vars
-----------------------------------------------------------------------------
\* The account stays one that valid() accepts, and the word a word.
TypeOK ==
    /\ Valid(account)
    /\ base \in Word
    /\ earned \in Nat
    /\ imported \in BOOLEAN

\* The word and the overflow together are the exact XP of the active class:
\* neither an award that would wrap, nor a loss, nor a replacement, nor a
\* class change creates or drops a point.
ExactTotal == ActiveTotal(account, base) = earned

\* The engine levels the actor with exactly the XP the account reports as
\* usable: the hook reads only the word, the account the word and the
\* overflow, and the two never disagree.
HookAgrees ==
    Select(account, base, NativeCap) = ActiveUsable(account, base, NativeCap)

\* Old awards came first: while part of the old class's bank is still held
\* back, none of the new class's XP is usable.  A run the character was
\* imported into is exempt until its phase changes.
OldReleasedFirst ==
    ~imported /\ account.old.usable < account.old.total
        => ActiveUsable(account, base, NativeCap) = 0

\* "When a later campaign permits progression, both balances become usable
\* within the shared cap": the old bank is out once the ceiling holds it.
BothBalancesUsable ==
    account.old.total <= Ceiling(account, NativeCap)
        => account.old.usable = account.old.total

\* The XP of the old class is frozen by the dual: its total never changes and
\* a released point is never taken back.
EntitlementKept ==
    [][account.kind = "dual" =>
        /\ account'.old.total = account.old.total
        /\ account'.old.usable >= account.old.usable]_vars

\* An award, a later campaign or a new run never takes usable XP away from
\* either class; only a loss, a replacement or the class change itself does.
UsableNeverTaken ==
    [][(earned' >= earned /\ account'.kind = account.kind /\ ~imported) =>
        /\ account'.old.usable >= account.old.usable
        /\ ActiveUsable(account', base', NativeCap)
            >= ActiveUsable(account, base, NativeCap)]_vars
=============================================================================
