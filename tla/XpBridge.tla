------------------------------ MODULE XpBridge ------------------------------
(***************************************************************************)
(* The native bridges between the engine's base XP word and the account    *)
(* (award_native.cpp, writer_native.cpp, identity_native.cpp and the       *)
(* before/complete/uncertain callbacks of bank_runtime.lua).  The engine   *)
(* gives XP by resolving an effect or by calling the stat 44 setter; each  *)
(* is one call on the game's thread that asks Lua to prepare, stores one   *)
(* word and asks Lua to publish.  Between those steps the bank's callbacks *)
(* run: the actor, its word, the effect or the registry may change, other  *)
(* calls may nest, and another thread may create or destroy an actor.      *)
(*                                                                         *)
(* A record of an open change is its frame in calls; the maps keep only    *)
(* the uncertain records, which outlive their call.  Where an allocation   *)
(* or a Lua callback can fail the model chooses.  Calls from another       *)
(* thread, pending adoptions and the dual transaction are not modelled.    *)
(***************************************************************************)
EXTENDS NativeAccount, FiniteSets, SequencesExt

CONSTANTS
    Sprites,       \* actor addresses
    Effects,       \* effect addresses
    None,          \* no actor, no effect
    Shapes,        \* what an effect may read: a change, or NoChange
    Setters,       \* changes the stat 44 setter is called with
    FreshWords,    \* base words of new actors
    DriftWords,    \* words an open preparation may find instead of its own
    RetryLimit,    \* 64: entries of the retry table
    ForeignSlots,  \* 64: addresses of other threads' events that are kept
    MaxInc,        \* the last incarnation the registry can give
    MaxDepth,      \* bound on nested calls
    MaxChanges,    \* bound on effects listed and setter calls
    MaxEvents      \* bound on other threads' events, lost actors and crashes

NoChange == [mode |-> "none", raw |-> 0]

ASSUME BridgeAssumption ==
    /\ None \notin Sprites \cup Effects
    /\ Setters \subseteq [mode : {"add", "set", "catchup"}, raw : Word]
    /\ Shapes \subseteq [mode : {"add", "set", "percent"}, raw : Word] \cup {NoChange}
    /\ FreshWords \subseteq Word /\ DriftWords \subseteq Word
    /\ {RetryLimit, ForeignSlots, MaxDepth, MaxChanges, MaxEvents} \subseteq Nat
    /\ IsFiniteSet(Sprites)
    /\ MaxInc \in Nat /\ Cardinality(Sprites) <= MaxInc

VARIABLES
    actors,     \* per address: the registry's entry, the word, the XP owed
    aux,        \* per address: the saved account, its binding, its journal
    disk,       \* per address: what the last save wrote
    effects,    \* per address: the effect listed there
    calls,      \* the open calls and saves, innermost last
    uncertain,  \* per bridge and actor: the record of an unfinished change
    retries,    \* per effect: the lifetime it has been deferred once in
    deferred,   \* setter writes waiting for a change to close, or kept
    foreign,    \* addresses of other threads' lifetime events
    nextInc,    \* next_incarnation
    tally       \* history: setter calls, those stored, those ended; events

bridgeVars == <<actors, aux, disk, effects, calls, uncertain, retries, deferred,
          foreign, nextInc, tally>>

Bridges == {"award", "write"}
Blank == Adopt("bg1_sod", 1, 0, "single")
NoJournal == [stage |-> "none", inc |-> 0, target |-> 0, after |-> Blank,
              later |-> FALSE]
NoCarrier == [present |-> FALSE, excluded |-> FALSE, bound |-> 0,
              account |-> Blank, journal |-> NoJournal]
NoRecord == [inc |-> 0, effect |-> None]
NoRetry == [sprite |-> None, inc |-> 0]
Free == [sprite |-> None, shape |-> NoChange,
         done |-> FALSE, ran |-> 0]
-----------------------------------------------------------------------------
\* What the engine's own code stores, and what a change is worth exactly.
Native(word, c) ==
    CASE c.mode = "add" -> (word + c.raw) % (U32 + 1)
      [] c.mode = "percent" -> ((word * c.raw) % (U32 + 1)) \div 100
      [] c.mode = "none" -> word
      [] OTHER -> c.raw

Signed(raw) == IF raw <= S32 THEN raw ELSE 0 - Loss(raw)

\* Mutant: only a SET or a percentage is taken to replace the word.
Replaces_SetsOnly(word, c) == c.mode \notin {"add", "none"}

\* A store outside the bank that leaves the word and the overflow inexact.
Replaces(word, c) ==
    \/ c.mode \notin {"add", "none"}
    \/ c.mode = "add" /\ word + Signed(c.raw) \notin Word

\* The XP owed after the engine's own store: moved by the exact amount if the
\* word moved by it, otherwise whatever the word now says.
OwedByWord(a, c, word) ==
    IF c.mode \in {"add", "none"} /\ word - a.word = Signed(c.raw)
    THEN a.owed + Signed(c.raw) ELSE word

\* The engine's own store, noted for the bank where it replaces.
OwnStore(a, c) ==
    [a EXCEPT !.word = Native(a.word, c),
              !.replaced = @ \/ (a.inc # 0 /\ Replaces(a.word, c)),
              !.owed = OwedByWord(a, c, Native(a.word, c))]

\* The XP an actor is owed after a change the bank takes.
Owed(owed, word, c) ==
    CASE c.mode = "add" -> owed + Signed(c.raw)
      [] c.mode = "catchup" -> Greatest(owed, c.raw)
      [] OTHER -> Native(word, c)
-----------------------------------------------------------------------------
ForeignAt(s) == s \in foreign \/ Cardinality(foreign) > ForeignSlots

\* CBMI_Query, CBMI_Lifetime and CBMI_CanMutate.
Known(s) == foreign = {} /\ actors[s].inc # 0

Lifetime(s, inc) ==
    IF actors[s].inc # inc THEN -1 ELSE IF ForeignAt(s) THEN 0 ELSE 1

\* Any open save excludes every change: the marshal scratch is shared.
Saving(s) == \E i \in DOMAIN calls : calls[i].bridge = "save"

\* Mutant: an account may change while an actor is saved.
CanMutate_WhileSaved(s, inc) ==
    Known(s) /\ actors[s].eligible /\ actors[s].inc = inc

CanMutate(s, inc) ==
    Known(s) /\ actors[s].eligible /\ actors[s].inc = inc /\ ~Saving(s)

Open(frames, s) ==
    \E i \in DOMAIN frames : frames[i].bridge # "save" /\ frames[i].sprite = s

Unresolved(s) ==
    \E b \in Bridges : uncertain[b][s] # NoRecord /\ uncertain[b][s].inc = actors[s].inc

Top == Last(calls)
CallOpen == calls # <<>> /\ Top.bridge # "save"
CanEnter == Len(calls) < MaxDepth
-----------------------------------------------------------------------------
(* Lua: the callbacks of bank_runtime.lua on one actor's saved account.    *)

Pending(cr) == cr.journal.stage # "none"

\* currentAux: a new lifetime does not inherit the account at its address.
Inherited(s) == IF aux[s].bound = actors[s].inc THEN aux[s] ELSE NoCarrier

Adopted(s) ==
    [present |-> TRUE, excluded |-> FALSE, bound |-> actors[s].inc,
     account |-> Adopt("bg1_sod", 1, actors[s].word, "single"),
     journal |-> NoJournal]

\* settled: a replaced word makes the retained overflow obsolete.
Outdated(cr, a) ==
    a.replaced /\ ~cr.excluded /\ ~Pending(cr) /\ cr.account.overflow > 0

Settled(cr, a) ==
    IF Outdated(cr, a)
    THEN [cr EXCEPT !.account.overflow = 0, !.account.revision = @ + 1]
    ELSE cr

SettledFits(cr, a) == Outdated(cr, a) => cr.account.revision < MaxRevision

\* Mutant: an unresolved journal does not stop the bank.
Refreshable_AnyJournal(s, cr) ==
    /\ CanMutate(s, actors[s].inc)
    /\ cr.present => cr.bound = actors[s].inc /\ ~cr.excluded
    /\ SettledFits(cr, actors[s])

\* R.Adopt and R.Snapshot, where the bank may change: the account adopted if
\* there is none, and matched with a replaced word.
Refreshable(s, cr) ==
    /\ CanMutate(s, actors[s].inc)
    /\ cr.present => cr.bound = actors[s].inc /\ ~cr.excluded
    /\ ~Pending(cr)
    /\ SettledFits(cr, actors[s])

Refreshed(s, cr) ==
    Settled(IF cr.present THEN cr ELSE Adopted(s), actors[s])

Noted(s) == [actors EXCEPT ![s].replaced = FALSE]

\* The account and the word that a bridge's change leads to.
Fits(b, account, word, c) ==
    IF b = "award" THEN AwardFits(account, word, c.raw)
    ELSE WriteFits(account, word, c.mode, c.raw)

After(b, account, word, c) ==
    IF b = "award" THEN CompleteAward(account, word, c.raw)
    ELSE PrepareWrite(account, word, c.mode, c.raw)

Planned(b, account, word, c) ==
    IF b = "award" THEN word + Applied(word, c.raw)
    ELSE Target(account, word, c.mode, c.raw)

Journal(f, account) ==
    [stage |-> "prepared", inc |-> f.inc,
     target |-> Planned(f.bridge, account, f.pre, f.change),
     after |-> After(f.bridge, account, f.pre, f.change), later |-> FALSE]

\* UncertainAward, UncertainWrite: the journal is kept for reconciliation,
\* unless the callback cannot identify the actor or fails.
Retained(f) ==
    {aux[f.sprite]} \cup
    IF Known(f.sprite) /\ actors[f.sprite].inc = f.inc
        /\ aux[f.sprite].bound = f.inc /\ Pending(aux[f.sprite])
    THEN {[aux[f.sprite] EXCEPT !.journal.stage = "uncertain"]} ELSE {}

\* The prepared journal of this very change, unchanged since.
Matching(f) ==
    /\ CanMutate(f.sprite, f.inc)
    /\ aux[f.sprite].bound = f.inc
    /\ aux[f.sprite].journal.stage = "prepared"
    /\ aux[f.sprite].journal.inc = f.inc
    /\ aux[f.sprite].journal.after = After(f.bridge, aux[f.sprite].account, f.pre, f.change)

\* R.Export.  Without an identity the account is set aside, out of banking.
Export(s) ==
    IF ~aux[s].present \/ (Known(s) /\ aux[s].bound # actors[s].inc) THEN NoCarrier
    ELSE IF ~Known(s) \/ ~actors[s].eligible THEN [aux[s] EXCEPT !.excluded = TRUE]
    ELSE IF ~actors[s].replaced \/ aux[s].excluded THEN aux[s]
    ELSE IF Pending(aux[s]) THEN [aux[s] EXCEPT !.journal.later = TRUE]
    ELSE IF SettledFits(aux[s], actors[s]) THEN Settled(aux[s], actors[s])
    ELSE NoCarrier
-----------------------------------------------------------------------------
(* Entering a change.                                                      *)

IsAward(c) == c.mode = "add" /\ c.raw \in 1..S32
BridgeOf(c) == IF IsAward(c) THEN "award" ELSE "write"

InFlight(b, e) ==
    \E i \in DOMAIN calls : calls[i].bridge = b /\ calls[i].effect = e

\* What becomes of a change of actor s, before the bank is asked.
Route(s, b, e) ==
    IF ~Known(s) THEN "original"
    ELSE IF ~actors[s].eligible THEN "original"
    ELSE IF ~CanMutate(s, actors[s].inc) THEN "saving"
    ELSE IF Open(calls, s) THEN "open"
    ELSE IF Unresolved(s) THEN "original"
    ELSE IF e # None /\ InFlight(b, e) THEN "open"
    ELSE "enter"

Ended(x, b) ==
    uncertain[b][x] # NoRecord /\ Lifetime(x, uncertain[b][x].inc) < 0

\* Receipts of lifetimes that provably ended go; a setter drops only its own.
Swept(s, b, e) ==
    [uncertain EXCEPT ![b] = [x \in Sprites |->
        IF Ended(x, b) /\ (x = s \/ e # None) THEN NoRecord ELSE @[x]]]

Enter(s, b, e, c) ==
    /\ CanEnter
    /\ calls' = Append(calls, [bridge |-> b, sprite |-> s, effect |-> e,
                               inc |-> actors[s].inc, change |-> c,
                               pre |-> actors[s].word, answer |-> "running"])
    /\ uncertain' = Swept(s, b, e)

\* The effect's own leaf: done and repass, and the store it now describes.
Ran(e) == [effects EXCEPT ![e].done = TRUE, ![e].ran = @ + 1]
Leaf(s, e) == OwnStore(actors[s], effects[e].shape)

\* The call that resolves this very effect is open: it is not freed, and the
\* list is not resolved from inside it, unless its actor has ended.
Resolving(e) ==
    \E i \in DOMAIN calls : /\ calls[i].effect = e
                            /\ calls[i].sprite = effects[e].sprite
                            /\ calls[i].inc = actors[effects[e].sprite].inc

Listed(e) == effects[e].sprite # None /\ ~effects[e].done
Forgotten(e) == IF e = None THEN retries ELSE [retries EXCEPT ![e] = NoRetry]

AddEffect(s, e, shape) ==
    /\ tally.issued < MaxChanges
    /\ effects[e] = Free \/ (effects[e].done /\ ~Resolving(e))
    /\ effects' = [effects EXCEPT ![e] = [sprite |-> s, shape |-> shape,
                                          done |-> FALSE, ran |-> 0]]
    /\ tally' = [tally EXCEPT !.issued = @ + 1]
    /\ UNCHANGED <<actors, aux, disk, calls, uncertain, retries, deferred, foreign, nextInc>>

\* CGameEffectList resolves an effect whose change the bank does not take.
ResolveOriginal(e) ==
    LET s == effects[e].sprite  c == effects[e].shape IN
    /\ Listed(e) /\ ~Resolving(e)
    /\ \/ c.mode = "none"
       \/ Route(s, BridgeOf(c), e) = "original"
       \/ Route(s, BridgeOf(c), e) = "enter"    \* no memory for a record
    /\ actors' = [actors EXCEPT ![s] = Leaf(s, e)]
    /\ effects' = Ran(e)
    /\ retries' = Forgotten(e)
    /\ UNCHANGED <<aux, disk, calls, uncertain, deferred, foreign, nextInc, tally>>

\* Neither done nor repass: the list goes on and meets the effect again.
DeferEffect(e) ==
    /\ Listed(e) /\ ~Resolving(e)
    /\ effects[e].shape.mode # "none"
    /\ Route(effects[e].sprite, BridgeOf(effects[e].shape), e) \in {"saving", "open"}
    /\ UNCHANGED bridgeVars

EnterEffect(e) ==
    LET s == effects[e].sprite  c == effects[e].shape IN
    /\ Listed(e) /\ ~Resolving(e)
    /\ c.mode # "none"
    /\ Route(s, BridgeOf(c), e) = "enter"
    /\ Enter(s, BridgeOf(c), e, c)
    /\ UNCHANGED <<actors, aux, disk, effects, retries, deferred, foreign, nextInc, tally>>

\* The stat 44 setter: never dropped.  Unidentified, ineligible, saved or
\* unresolved actors get the game's own store.
SetOriginal(s, c) ==
    /\ tally.issued < MaxChanges
    /\ Route(s, "write", None) \in {"original", "saving", "enter"}
    /\ actors' = [actors EXCEPT ![s] = OwnStore(@, c)]
    /\ tally' = [tally EXCEPT !.issued = @ + 1, !.sets = @ + 1, !.stored = @ + 1]
    /\ UNCHANGED <<aux, disk, effects, calls, uncertain, retries, deferred, foreign, nextInc>>

\* Behind an open change of its actor the write waits until that closes.
SetDeferred(s, c) ==
    /\ tally.issued < MaxChanges
    /\ Route(s, "write", None) = "open"
    /\ deferred' = Append(deferred, [sprite |-> s, inc |-> actors[s].inc,
                                     change |-> c, kept |-> FALSE])
    /\ tally' = [tally EXCEPT !.issued = @ + 1, !.sets = @ + 1]
    /\ UNCHANGED <<actors, aux, disk, effects, calls, uncertain, retries, foreign, nextInc>>

EnterSet(s, c) ==
    /\ tally.issued < MaxChanges
    /\ Route(s, "write", None) = "enter"
    /\ Enter(s, "write", None, c)
    /\ tally' = [tally EXCEPT !.issued = @ + 1, !.sets = @ + 1]
    /\ UNCHANGED <<actors, aux, disk, effects, retries, deferred, foreign, nextInc>>
-----------------------------------------------------------------------------
(* R.BeforeAward, R.BeforeWrite: the answer of the callback.               *)

Answer(answer) ==
    calls' = [calls EXCEPT ![Len(calls)].answer = answer]

\* Any Lua error, before or after the account has been refreshed.
Refuse ==
    LET s == Top.sprite IN
    /\ CallOpen /\ Top.answer = "running"
    /\ \/ UNCHANGED <<aux, actors>>
       \/ /\ CanMutate(s, actors[s].inc)
          /\ aux' = [aux EXCEPT ![s] = Inherited(s)]
          /\ UNCHANGED actors
       \/ /\ actors[s].inc = Top.inc
          /\ Refreshable(s, Inherited(s))
          /\ aux' = [aux EXCEPT ![s] = Refreshed(s, Inherited(s))]
          /\ actors' = Noted(s)
    /\ Answer("refused")
    /\ UNCHANGED <<disk, effects, uncertain, retries, deferred, foreign, nextInc, tally>>

\* Not an actor of the bank: a copy, set aside, or not of the party.
PassOn ==
    LET s == Top.sprite IN
    /\ CallOpen /\ Top.answer = "running"
    /\ Known(s)
    /\ \/ ~actors[s].eligible /\ UNCHANGED aux
       \/ /\ CanMutate(s, actors[s].inc)
          /\ Inherited(s).excluded \/ ~Inherited(s).present
          /\ aux' = [aux EXCEPT ![s] = Inherited(s)]
    /\ Answer("passed")
    /\ UNCHANGED <<actors, disk, effects, uncertain, retries, deferred, foreign, nextInc, tally>>

\* The change fits: its journal is published before anything is stored.
Track ==
    LET s == Top.sprite  cr == Refreshed(s, Inherited(s)) IN
    /\ CallOpen /\ Top.answer = "running"
    /\ actors[s].inc = Top.inc
    /\ actors[s].word = Top.pre
    /\ Refreshable(s, Inherited(s))
    /\ Fits(Top.bridge, cr.account, Top.pre, Top.change)
    /\ aux' = [aux EXCEPT ![s] = [cr EXCEPT !.journal = Journal(Top, cr.account)]]
    /\ actors' = Noted(s)
    /\ Answer("tracked")
    /\ UNCHANGED <<disk, effects, uncertain, retries, deferred, foreign, nextInc, tally>>
-----------------------------------------------------------------------------
(* Closing a change, and the setter writes that waited for it.             *)

\* Mutant: a write whose actor has become unknown is forgotten.
Landed_Dropped(s, st, d) ==
    IF d.kept \/ d.sprite # s THEN [st EXCEPT !.waiting = Append(@, d)]
    ELSE IF Lifetime(s, d.inc) = 0 THEN st
    ELSE IF Lifetime(s, d.inc) < 0 THEN [st EXCEPT !.tally.ended = @ + 1]
    ELSE [st EXCEPT !.actor = OwnStore(@, d.change), !.tally.stored = @ + 1]

\* CBMW_Settle: one write that waited lands, is kept or has ended.
Landed(s, st, d) ==
    IF d.kept \/ d.sprite # s THEN [st EXCEPT !.waiting = Append(@, d)]
    ELSE IF Lifetime(s, d.inc) = 0
        THEN [st EXCEPT !.waiting = Append(@, [d EXCEPT !.kept = TRUE])]
    ELSE IF Lifetime(s, d.inc) < 0 THEN [st EXCEPT !.tally.ended = @ + 1]
    ELSE [st EXCEPT !.actor = OwnStore(@, d.change), !.tally.stored = @ + 1]

\* Each of the writes in turn, from an actor and a history.
Settling(s, a, writes, t) ==
    LET st[i \in 0..Len(writes)] ==
            IF i = 0 THEN [actor |-> a, waiting |-> <<>>, tally |-> t]
            ELSE Landed(s, st[i - 1], writes[i])
    IN  st

\* The call returns with this actor, these writes and this history.
Close(a, writes, t) ==
    LET s == Top.sprite
        st == IF Open(Front(calls), s) THEN [actor |-> a, waiting |-> writes, tally |-> t]
              ELSE Settling(s, a, writes, t)[Len(writes)]
    IN /\ calls' = Front(calls)
       /\ actors' = [actors EXCEPT ![s] = st.actor]
       /\ deferred' = st.waiting
       /\ tally' = st.tally

Stored(t) == [t EXCEPT !.stored = @ + 1]

\* The change ends as the engine's own: the effect's leaf or the own store.
CloseOriginal ==
    LET s == Top.sprite  e == Top.effect IN
    IF e = None
    THEN Close(OwnStore(actors[s], Top.change), deferred, Stored(tally))
         /\ UNCHANGED <<effects, retries>>
    ELSE Close(Leaf(s, e), deferred, tally) /\ effects' = Ran(e) /\ retries' = Forgotten(e)

\* The effect is done without XP: its journal holds the amount.
Completed(e) == [effects EXCEPT ![e].done = TRUE]

Record(f) ==
    [uncertain EXCEPT ![f.bridge][f.sprite] = [inc |-> f.inc, effect |-> f.effect]]

Asked == CallOpen /\ Top.answer \in {"refused", "passed", "tracked"}

\* Another thread made or destroyed an actor here meanwhile: nothing is
\* written, the Lua side is not called.
CloseUnknown ==
    LET s == Top.sprite  e == Top.effect IN
    /\ Asked
    /\ Lifetime(s, Top.inc) = 0
    /\ uncertain' = IF Top.answer = "tracked" THEN Record(Top) ELSE uncertain
    /\ IF e = None
       THEN /\ Close(actors[s], Append(deferred, [sprite |-> s, inc |-> Top.inc,
                                   change |-> Top.change, kept |-> TRUE]), tally)
            /\ UNCHANGED <<effects, retries>>
       ELSE /\ Close(actors[s], deferred, tally)
            /\ IF Top.answer = "tracked"
               THEN effects' = Completed(e) /\ retries' = Forgotten(e)
               ELSE UNCHANGED <<effects, retries>>
    /\ UNCHANGED <<aux, disk, foreign, nextInc>>

\* The preparation ended this lifetime: nothing is written.
CloseEnded ==
    LET s == Top.sprite  e == Top.effect IN
    /\ Asked
    /\ Lifetime(s, Top.inc) < 0
    /\ Close(actors[s], deferred,
             IF e = None THEN [tally EXCEPT !.ended = @ + 1] ELSE tally)
    /\ retries' = Forgotten(e)
    /\ UNCHANGED <<aux, disk, effects, uncertain, foreign, nextInc>>

\* The retry table: an entry leaves when its effect resolves, or when its
\* lifetime ended and the table is full.
Waiting(table) == {x \in Effects : table[x] # NoRetry}

Purged(e) ==
    IF retries[e] = NoRetry /\ Cardinality(Waiting(retries)) >= RetryLimit
    THEN [x \in Effects |->
            IF x \in Waiting(retries) /\ Lifetime(retries[x].sprite, retries[x].inc) < 0
            THEN NoRetry ELSE retries[x]]
    ELSE retries

\* Mutant: the table does not remember which effects it has deferred.
FirstChange_Always(f) == TRUE

\* CBMW_FirstChange: one more pass, if this lifetime has not had one yet.
FirstChange(f) ==
    /\ retries[f.effect] # [sprite |-> f.sprite, inc |-> f.inc]
    /\ \/ retries[f.effect] # NoRetry
       \/ Cardinality(Waiting(Purged(f.effect))) < RetryLimit

Changed(f) ==
    \/ ~CanMutate(f.sprite, f.inc)
    \/ actors[f.sprite].word # f.pre
    \/ f.effect # None /\ effects[f.effect].shape # f.change

\* What the preparation saw has changed, and its journal stays: the effect is
\* done without XP, the setter write is the game's own.
CloseJournalled ==
    LET s == Top.sprite  e == Top.effect IN
    /\ Asked
    /\ Lifetime(s, Top.inc) > 0 /\ Changed(Top)
    /\ Top.answer = "tracked"
    /\ uncertain' = Record(Top)
    /\ \E cr \in Retained(Top) : aux' = [aux EXCEPT ![s] = cr]
    /\ IF e = None
       THEN /\ Close(OwnStore(actors[s], Top.change), deferred, Stored(tally))
            /\ UNCHANGED <<effects, retries>>
       ELSE /\ Close(actors[s], deferred, tally)
            /\ effects' = Completed(e)
            /\ retries' = Forgotten(e)
    /\ UNCHANGED <<disk, foreign, nextInc>>

Withdrawn(f) == [aux[f.sprite] EXCEPT !.journal = NoJournal]

\* What it saw has changed, and no journal stays: an effect gets one more
\* pass, otherwise the change is the engine's own.
CloseChanged ==
    LET s == Top.sprite  e == Top.effect IN
    /\ Asked
    /\ Lifetime(s, Top.inc) > 0 /\ Changed(Top)
    /\ \/ Top.answer # "tracked" /\ UNCHANGED aux
       \/ /\ Top.answer = "tracked" /\ Matching(Top)
          /\ aux' = [aux EXCEPT ![s] = Withdrawn(Top)]
    /\ \/ /\ e = None
          /\ CloseOriginal
       \/ /\ e # None /\ FirstChange(Top)
          /\ Close(actors[s], deferred, tally)
          /\ retries' = [Purged(e) EXCEPT ![e] = [sprite |-> s, inc |-> Top.inc]]
          /\ UNCHANGED effects
       \/ /\ e # None /\ ~FirstChange(Top)
          /\ Close(Leaf(s, e), deferred, tally)
          /\ effects' = Ran(e)
          /\ retries' = [Purged(e) EXCEPT ![e] = NoRetry]
    /\ UNCHANGED <<disk, uncertain, foreign, nextInc>>

\* Refused or passed on, and nothing has changed.
CloseRefused ==
    /\ Asked
    /\ Lifetime(Top.sprite, Top.inc) > 0 /\ ~Changed(Top)
    /\ Top.answer # "tracked"
    /\ CloseOriginal
    /\ UNCHANGED <<aux, disk, uncertain, foreign, nextInc>>

\* The one store of a tracked change: the narrowed award or the planned word.
Store ==
    LET s == Top.sprite  e == Top.effect IN
    /\ Asked
    /\ Lifetime(s, Top.inc) > 0 /\ ~Changed(Top)
    /\ Top.answer = "tracked"
    /\ actors' = [actors EXCEPT ![s].word = aux[s].journal.target,
                                ![s].owed = Owed(@, Top.pre, Top.change)]
    /\ effects' = IF e = None THEN effects ELSE Ran(e)
    /\ tally' = IF e = None THEN Stored(tally) ELSE tally
    /\ Answer("stored")
    /\ UNCHANGED <<aux, disk, uncertain, retries, deferred, foreign, nextInc>>

\* R.CompleteAward, R.CompleteWrite: the account that goes with the word.
Complete ==
    LET s == Top.sprite IN
    /\ CallOpen /\ Top.answer = "stored"
    /\ Matching(Top)
    /\ actors[s].word = aux[s].journal.target
    /\ aux' = [aux EXCEPT ![s].account = aux[s].journal.after, ![s].journal = NoJournal]
    /\ Close(actors[s], deferred, tally)
    /\ retries' = Forgotten(Top.effect)
    /\ UNCHANGED <<disk, effects, uncertain, foreign, nextInc>>

\* The completion failed: the store is not undone and not done again.
CompleteFailed ==
    LET s == Top.sprite IN
    /\ CallOpen /\ Top.answer = "stored"
    /\ uncertain' = Record(Top)
    /\ \E cr \in Retained(Top) : aux' = [aux EXCEPT ![s] = cr]
    /\ Close(actors[s], deferred, tally)
    /\ retries' = Forgotten(Top.effect)
    /\ UNCHANGED <<disk, effects, foreign, nextInc>>
-----------------------------------------------------------------------------
(* The rest of the game.                                                   *)

\* A cap check (R.Snapshot) adopts an actor or matches a replaced word.
CapCheck(s) ==
    /\ Refreshable(s, aux[s])
    /\ aux' = [aux EXCEPT ![s] = Refreshed(s, aux[s])]
    /\ actors' = Noted(s)
    /\ UNCHANGED <<disk, effects, calls, uncertain, retries, deferred, foreign, nextInc, tally>>

\* While the bank prepares or completes, the word may drift.
Drift(word) ==
    LET s == Top.sprite IN
    /\ CallOpen
    /\ actors' = [actors EXCEPT ![s].word = word, ![s].owed = @ + (word - actors[s].word)]
    /\ UNCHANGED <<aux, disk, effects, calls, uncertain, retries, deferred, foreign, nextInc, tally>>

\* While the bank prepares, the effect may come to read something else.
Reshape(shape) ==
    /\ CallOpen /\ Top.answer # "stored"
    /\ Top.effect # None /\ Listed(Top.effect)
    /\ effects' = [effects EXCEPT ![Top.effect].shape = shape]
    /\ UNCHANGED <<actors, aux, disk, calls, uncertain, retries, deferred, foreign, nextInc, tally>>

\* CBMI_Marshal: the word and the exported account are written together.  The
\* bank's callbacks never save; changes do arrive while a save is open.
Save(s) ==
    /\ CanEnter /\ ~CallOpen
    /\ \A i \in DOMAIN calls : calls[i].sprite # s
    /\ calls' = Append(calls, [bridge |-> "save", sprite |-> s, effect |-> None, inc |-> 0,
                               change |-> Free.shape, pre |-> 0, answer |-> "running"])
    /\ disk' = [disk EXCEPT ![s] = [word |-> actors[s].word, owed |-> actors[s].owed,
                                    carrier |-> Export(s)]]
    /\ UNCHANGED <<actors, aux, effects, uncertain, retries, deferred, foreign, nextInc, tally>>

EndSave ==
    /\ calls # <<>> /\ Top.bridge = "save"
    /\ calls' = Front(calls)
    /\ UNCHANGED <<actors, aux, disk, effects, uncertain, retries, deferred, foreign, nextInc, tally>>

Actor(inc, eligible, word, owed) ==
    [inc |-> inc, eligible |-> eligible, replaced |-> FALSE, word |-> word, owed |-> owed]

\* R.Import: what was saved, bound to the new lifetime; set aside if another
\* thread's event leaves no identity to bind it to.
Imported(cr, inc) ==
    IF ~cr.present THEN NoCarrier
    ELSE IF foreign = {} THEN [cr EXCEPT !.bound = inc]
    ELSE [cr EXCEPT !.bound = 0, !.excluded = TRUE]

Unlisted(s) ==
    [e \in Effects |-> IF effects[e].sprite = s THEN Free ELSE effects[e]]

NextInc == Least(nextInc + 1, MaxInc)

\* CBMI_Destruct and CBMI_Construct: a fresh actor takes the address.  It has
\* no identity if the registry has no incarnation or no token left for it.
Create(s, eligible, word) ==
    /\ tally.events < MaxEvents /\ ~Saving(s)
    /\ \E inc \in {0} \cup (IF nextInc < MaxInc THEN {nextInc + 1} ELSE {}) :
        actors' = [actors EXCEPT ![s] = Actor(inc, eligible /\ inc # 0, word, word)]
    /\ nextInc' = NextInc
    /\ aux' \in {aux, [aux EXCEPT ![s] = NoCarrier]}
    /\ effects' = Unlisted(s)
    /\ tally' = [tally EXCEPT !.events = @ + 1]
    /\ UNCHANGED <<disk, calls, uncertain, retries, deferred, foreign>>

\* The same for an actor read back from its last save.
Load(s) ==
    /\ tally.events < MaxEvents /\ ~Saving(s)
    /\ nextInc < MaxInc
    /\ actors' = [actors EXCEPT ![s] =
                    Actor(nextInc + 1, TRUE, disk[s].word, disk[s].owed)]
    /\ nextInc' = NextInc
    /\ aux' = [aux EXCEPT ![s] = Imported(disk[s].carrier, nextInc + 1)]
    /\ effects' = Unlisted(s)
    /\ tally' = [tally EXCEPT !.events = @ + 1]
    /\ UNCHANGED <<disk, calls, uncertain, retries, deferred, foreign>>

\* Another thread creates or destroys an actor at s: the registry is not
\* told, and the actor there may now be another one.
ForeignEvent(s) ==
    /\ tally.events < MaxEvents
    /\ foreign' = foreign \cup {s}
    /\ \E word \in {actors[s].word} \cup FreshWords :
        actors' = [actors EXCEPT ![s].word = word, ![s].owed = word]
    /\ tally' = [tally EXCEPT !.events = @ + 1]
    /\ UNCHANGED <<aux, disk, effects, calls, uncertain, retries, deferred, nextInc>>

NoHistory == [issued |-> 0, sets |-> 0, stored |-> 0, ended |-> 0, events |-> 0]
Empty == /\ calls = <<>> /\ deferred = <<>> /\ foreign = {}
         /\ effects = [e \in Effects |-> Free]
         /\ uncertain = [b \in Bridges |-> [s \in Sprites |-> NoRecord]]
         /\ retries = [e \in Effects |-> NoRetry]

\* The process ends anywhere and the last saves are loaded into a new one:
\* nothing native survives, and the incarnations start again.
Restart ==
    /\ tally.events < MaxEvents
    /\ nextInc' = Cardinality(Sprites)
    /\ \E inc \in Bijection(Sprites, 1..Cardinality(Sprites)) :
        /\ actors' = [s \in Sprites |->
                        Actor(inc[s], TRUE, disk[s].word, disk[s].owed)]
        /\ aux' = [s \in Sprites |-> IF disk[s].carrier.present
                        THEN [disk[s].carrier EXCEPT !.bound = inc[s]] ELSE NoCarrier]
    /\ calls' = <<>> /\ deferred' = <<>> /\ foreign' = {}
    /\ effects' = [e \in Effects |-> Free]
    /\ uncertain' = [b \in Bridges |-> [s \in Sprites |-> NoRecord]]
    /\ retries' = [e \in Effects |-> NoRetry]
    /\ tally' = [NoHistory EXCEPT !.issued = tally.issued, !.events = tally.events + 1]
    /\ UNCHANGED disk

BridgeInit ==
    /\ Empty
    /\ \E inc \in Bijection(Sprites, 1..Cardinality(Sprites)), word \in FreshWords :
        /\ actors = [s \in Sprites |-> Actor(inc[s], TRUE, word, word)]
        /\ disk = [s \in Sprites |-> [word |-> word, owed |-> word, carrier |-> NoCarrier]]
    /\ aux = [s \in Sprites |-> NoCarrier]
    /\ nextInc = Cardinality(Sprites)
    /\ tally = NoHistory

Resolve(e) == ResolveOriginal(e) \/ DeferEffect(e) \/ EnterEffect(e)
CallSet(s, c) == SetOriginal(s, c) \/ SetDeferred(s, c) \/ EnterSet(s, c)
Prepare == Refuse \/ PassOn \/ Track
Finish == \/ CloseUnknown \/ CloseEnded \/ CloseJournalled \/ CloseChanged
          \/ CloseRefused \/ Store \/ Complete \/ CompleteFailed

BridgeNext ==
    \/ \E s \in Sprites, e \in Effects, shape \in Shapes : AddEffect(s, e, shape)
    \/ \E e \in Effects : Resolve(e)
    \/ \E s \in Sprites, c \in Setters : CallSet(s, c)
    \/ Prepare
    \/ Finish
    \/ \E s \in Sprites : CapCheck(s) \/ Save(s) \/ Load(s) \/ ForeignEvent(s)
    \/ \E s \in Sprites, eligible \in BOOLEAN, word \in FreshWords : Create(s, eligible, word)
    \/ \E word \in DriftWords : Drift(word)
    \/ \E shape \in Shapes : Reshape(shape)
    \/ EndSave
    \/ Restart

BridgeSpec == BridgeInit /\ [][BridgeNext]_bridgeVars

\* The game's thread resumes every open call and save, also one in which other
\* saves come again and again, and every pass over an actor's effects resolves
\* each one that is not done.
FairSpec ==
    /\ BridgeSpec
    /\ \A depth \in 1..MaxDepth :
          SF_bridgeVars(Len(calls) = depth /\ (Prepare \/ Finish \/ EndSave))
    /\ \A e \in Effects : SF_bridgeVars(Resolve(e))
-----------------------------------------------------------------------------
\* What the word and the account of an actor miss of the XP owed to it: what
\* its journal names, or nothing.  Once the engine has replaced the word, the
\* word alone is owed.
Balanced(word, owed, replaced, cr) ==
    IF replaced \/ cr.journal.later THEN owed = word
    ELSE owed - ActiveTotal(cr.account, word) \in {0} \cup
            (IF Pending(cr) THEN {cr.journal.after.overflow - cr.account.overflow} ELSE {})

ActorsKeepXp ==
    \A s \in Sprites :
        aux[s].bound = actors[s].inc /\ ~aux[s].excluded /\ ~ForeignAt(s) =>
            Balanced(actors[s].word, actors[s].owed, actors[s].replaced, aux[s])

SavesKeepXp ==
    \A s \in Sprites : disk[s].carrier.present /\ ~disk[s].carrier.excluded =>
        Balanced(disk[s].word, disk[s].owed, FALSE, disk[s].carrier)

\* Whatever fails, changes, nests or ends while a change is made, no XP of an
\* actor the bank knows is lost or created, nor of one that is loaded back: a
\* save never separates an account from the word it belongs to.
NoXpLost == ActorsKeepXp /\ SavesKeepXp

\* An effect is done by its own leaf, run once, or because the unresolved
\* journal of an uncertain record holds its amount; until then it has not run.
EffectsPaidOnce ==
    \A e \in Effects : effects[e].sprite # None =>
        IF effects[e].done
        THEN \/ effects[e].ran = 1
             \/ effects[e].ran = 0 /\ \E b \in Bridges :
                    uncertain[b][effects[e].sprite].effect = e
        ELSE effects[e].ran = 0

\* Every setter write is stored exactly once, or still waits, or is kept, or
\* is counted as ended with its actor.
SettersAccounted ==
    tally.sets = tally.stored + tally.ended + Len(deferred)
        + Cardinality({i \in DOMAIN calls : /\ calls[i].bridge = "write"
                                            /\ calls[i].effect = None
                                            /\ calls[i].answer # "stored"})

\* A setter write waits only while a change of its actor is open.
WaitsOnlyWhileOpen ==
    \A i \in DOMAIN deferred : ~deferred[i].kept => Open(calls, deferred[i].sprite)

\* Each change of XP counts once, however calls nest and fail
\* (CBMA_ApplyEffect, write_impl, CBMW_Settle): effects and setter writes.
ChangesCountOnce == EffectsPaidOnce /\ SettersAccounted /\ WaitsOnlyWhileOpen

\* A call never stores into an actor another thread may have replaced while
\* the bank prepared.
UnknownIsNotWritten(s) ==
    (CallOpen /\ Top.sprite = s /\ s \in foreign /\ Finish) => actors'[s].word = actors[s].word

\* An unresolved journal and its account stay exactly as they are, in this
\* process and after they are loaded: only the call that published the
\* journal touches them.
JournalFreezesAccount(s) ==
    (/\ Pending(aux[s]) /\ aux[s].bound = actors[s].inc
     /\ tally'.events = tally.events
     /\ ~(CallOpen /\ Top.sprite = s /\ Top.answer \in {"tracked", "stored"}))
        => aux'[s] = aux[s]

\* What no step may touch while the bank does not know how it stands: an actor
\* that may be another one, and the account under an unresolved journal
\* (CBMI_Lifetime, R.Refresh).
HandsOff == [][\A s \in Sprites : UnknownIsNotWritten(s) /\ JournalFreezesAccount(s)]_bridgeVars

\* While an actor is saved, no account of a living actor changes.
SaveIsQuiet ==
    [][\A s \in Sprites :
        (Saving(s) /\ Saving(s)' /\ actors'[s].inc = actors[s].inc)
            => aux'[s] = aux[s]]_bridgeVars

\* No change waits for good: again and again, each listed effect is done or its
\* actor is gone.
EffectsResolve ==
    \A e \in Effects : []<>(effects[e].done \/ effects[e].sprite = None)
=============================================================================
