------------------------- MODULE CombinedScreenProofs -------------------------
(***************************************************************************)
(* For any records a character starts with, any rolls and any bounds: each *)
(* level and hit point has its receipt or an unresolved journal, an        *)
(* outcome nobody knows stays open, no screen costs old-class pips, a      *)
(* cancel puts the records back, and the screen implements LevelScreen.    *)
(* What records hold is computed by folds over them; each fold is unrolled *)
(* once, entry by entry, and then used through the facts about it.         *)
(***************************************************************************)
EXTENDS CombinedScreen, FiniteSetTheorems, NaturalsInduction, WellFoundedInduction, TLAPS

Journal(j) == DOMAIN j = {"stage", "session", "inc", "hp"}
Character(a) ==
    /\ DOMAIN a = {"inc", "owned", "usable", "level", "effects", "native_hp", "journal",
                   "hp", "receipts", "receipt_hp", "earned"}
    /\ Journal(a.journal)
    /\ a.inc \in Nat /\ a.level \in Nat /\ a.receipts \in Nat
Screen(v) ==
    /\ DOMAIN v = {"phase", "session", "inc", "owner", "hp"}
    /\ v.inc \in Nat

Typed == Character(actor) /\ Character(saved) /\ Screen(view) /\ loads \in Nat

\* Until the choices are handed to the game the books balance; after that a
\* level may be there without its receipt, and only that one.
Balanced(a) == a.level = 1 + a.receipts /\ a.hp = a.receipt_hp
Ledger(a) ==
    IF a.journal.stage \in {"none", "preview"} THEN Balanced(a)
    ELSE a.level - a.receipts \in {1, 2}

\* A screen is never open for an incarnation that is yet to come, and the batch
\* of a screen that may commit holds what the game will give.
NotAhead == Open => view.inc <= actor.inc
BatchGiven == InPreview /\ view.hp = 1 => batch.total = actor.native_hp.total

IInv == Typed /\ Ledger(actor) /\ Ledger(saved) /\ NotAhead /\ BatchGiven
-----------------------------------------------------------------------------
\* What marking a journal leaves as it was.
LEMMA MarkedFact ==
    ASSUME NEW a, NEW v, Character(a), NEW b, b \in Marked(a, v)
    PROVE  /\ Character(b)
           /\ b.level = a.level /\ b.receipts = a.receipts
           /\ b.hp = a.hp /\ b.receipt_hp = a.receipt_hp
           /\ b.inc = a.inc /\ b.native_hp = a.native_hp /\ b.effects = a.effects
           /\ b.journal.stage \in {a.journal.stage, "uncertain"}
BY DEF Marked, Character, Journal

LEMMA MarkedLedger ==
    ASSUME NEW a, NEW v, Character(a), Ledger(a), NEW b, b \in Marked(a, v)
    PROVE  Ledger(b)
<1>1. /\ b.level = a.level /\ b.receipts = a.receipts
      /\ b.hp = a.hp /\ b.receipt_hp = a.receipt_hp
      /\ b.journal.stage \in {a.journal.stage, "uncertain"}
  BY MarkedFact
<1>2. a.level \in Nat /\ a.receipts \in Nat
  BY DEF Character
<1> QED
  BY <1>1, <1>2 DEF Ledger, Balanced

\* The end of a handler that leaves the screen uncertain.
LEMMA UncertainKeeps ==
    ASSUME NEW a, NEW v, Character(a), Ledger(a), Screen(v), v.inc <= a.inc, Uncertain(a, v)
    PROVE  /\ Character(actor') /\ Ledger(actor') /\ Screen(view')
           /\ NotAhead' /\ BatchGiven'
<1>1. view' = [v EXCEPT !.phase = "uncertain"] /\ actor' \in Marked(a, v)
  BY DEF Uncertain
<1>2. Character(actor') /\ actor'.inc = a.inc
  BY <1>1, MarkedFact
<1>3. Ledger(actor')
  BY <1>1, MarkedLedger
<1>4. Screen(view') /\ view'.inc = v.inc /\ view'.phase = "uncertain"
  BY <1>1 DEF Screen
<1> QED
  BY <1>2, <1>3, <1>4 DEF NotAhead, BatchGiven, InPreview

LEMMA InitIInv == Init => IInv
BY DEF Init, IInv, Typed, Character, Journal, Screen, Ledger, Balanced, NotAhead, BatchGiven,
       Open, InPreview, Same, NoJournal, NoView, NoBatch

\* The characters a handler makes of the one it finds.
LEMMA JournaledFact ==
    ASSUME IInv, JournalFree, NEW v
    PROVE  LET a == Journaled(v)
           IN  Character(a) /\ Ledger(a) /\ a.inc = actor.inc /\ a.journal.stage = "preview"
<1>1. Character(actor) /\ Balanced(actor)
  BY DEF IInv, Typed, Ledger, JournalFree
<1>2. Character(Journaled(v)) /\ Balanced(Journaled(v)) /\ Journaled(v).inc = actor.inc
  BY <1>1 DEF Journaled, Character, Journal, Balanced
<1>3. Journaled(v).journal.stage = "preview"
  BY <1>1 DEF Journaled, Character
<1> QED
  BY <1>2, <1>3 DEF Ledger

LEMMA PreparedFact ==
    ASSUME IInv, actor.journal.stage = "preview"
    PROVE  /\ Character(Prepared) /\ Ledger(Prepared) /\ Prepared.inc = actor.inc
           /\ Prepared.level = 1 + Prepared.receipts
           /\ Prepared.hp = Prepared.receipt_hp
           /\ Prepared.native_hp = actor.native_hp
           /\ Prepared.journal.stage = "committing" /\ Prepared.journal.hp = batch.total
<1>1. Character(actor) /\ Balanced(actor)
  BY DEF IInv, Typed, Ledger
<1>2. Character(Prepared) /\ Prepared.inc = actor.inc /\ Balanced(Prepared)
  BY <1>1 DEF Prepared, Character, Journal, Balanced
<1>3. /\ Prepared.journal.stage = "committing" /\ Prepared.journal.hp = batch.total
      /\ Prepared.native_hp = actor.native_hp
  BY <1>1 DEF Prepared, Character, Journal
<1>4. Prepared.level - Prepared.receipts = 1
  BY <1>2 DEF Character, Balanced
<1> QED
  BY <1>2, <1>3, <1>4 DEF Ledger, Balanced

LEMMA LevelledFact ==
    ASSUME IInv, actor.journal.stage = "preview"
    PROVE  LET a == Levelled(Prepared)
           IN  /\ Character(a) /\ Ledger(a) /\ a.inc = actor.inc
               /\ a.level = 2 + a.receipts
               /\ a.hp = a.receipt_hp + actor.native_hp.total
               /\ a.journal.stage = "committing" /\ a.journal.hp = batch.total
<1> DEFINE a == Levelled(Prepared)
<1>1. /\ Character(Prepared) /\ Prepared.inc = actor.inc
      /\ Prepared.level = 1 + Prepared.receipts /\ Prepared.hp = Prepared.receipt_hp
      /\ Prepared.native_hp = actor.native_hp
      /\ Prepared.journal.stage = "committing" /\ Prepared.journal.hp = batch.total
  BY PreparedFact
<1>2. /\ Character(a) /\ a.inc = actor.inc
      /\ a.level = Prepared.level + 1 /\ a.receipts = Prepared.receipts
      /\ a.hp = Prepared.hp + Prepared.native_hp.total
      /\ a.receipt_hp = Prepared.receipt_hp
      /\ a.journal = Prepared.journal
  BY <1>1 DEF Levelled, Character, Journal
<1>3. a.level = 2 + a.receipts /\ a.level - a.receipts = 2
  BY <1>1, <1>2 DEF Character
<1> QED
  BY <1>1, <1>2, <1>3 DEF Ledger
-----------------------------------------------------------------------------
(* Every handler keeps the invariant.                                       *)

\* A handler that runs nothing of the game's and leaves the screen uncertain.
LEMMA RefusedKeeps ==
    ASSUME IInv, Open, Uncertain(actor, view), UNCHANGED <<saved, loads>>
    PROVE  IInv'
<1>1. /\ Character(actor) /\ Ledger(actor) /\ Screen(view) /\ view.inc <= actor.inc
      /\ Character(saved) /\ Ledger(saved) /\ loads \in Nat
  BY DEF IInv, Typed, NotAhead
<1>2. /\ Character(actor') /\ Ledger(actor') /\ Screen(view')
      /\ NotAhead' /\ BatchGiven'
  BY <1>1, UncertainKeeps
<1> QED
  BY <1>1, <1>2 DEF IInv, Typed

LEMMA NewViewFact ==
    ASSUME IInv
    PROVE  /\ Screen(NewView) /\ NewView.inc = actor.inc
           /\ Screen([NewView EXCEPT !.owner = TRUE])
           /\ [NewView EXCEPT !.owner = TRUE].inc = actor.inc
           /\ actor.inc <= actor.inc
BY DEF IInv, Typed, Character, NewView, Screen

LEMMA ResetRefusedKeeps ==
    ASSUME IInv, ResetRefused
    PROVE  IInv'
<1> DEFINE w == [NewView EXCEPT !.owner = TRUE]
<1>1. /\ Screen(NewView) /\ NewView.inc = actor.inc /\ Screen(w) /\ w.inc = actor.inc
      /\ actor.inc <= actor.inc
  BY NewViewFact
<1>2. /\ Character(actor) /\ Ledger(actor) /\ Character(saved) /\ Ledger(saved)
      /\ loads \in Nat /\ saved' = saved /\ loads' = loads
  BY DEF IInv, Typed, ResetRefused
<1>3. /\ Character(actor') /\ Ledger(actor') /\ Screen(view')
      /\ NotAhead' /\ BatchGiven'
  <2>1. CASE Uncertain(actor, NewView)
    BY <1>1, <1>2, <2>1, UncertainKeeps
  <2>2. CASE JournalFree /\ Uncertain(Journaled(NewView), w)
    <3>1. /\ Character(Journaled(NewView)) /\ Ledger(Journaled(NewView))
          /\ Journaled(NewView).inc = actor.inc
      BY <2>2, JournaledFact
    <3>2. w.inc <= Journaled(NewView).inc
      BY <1>1, <3>1
    <3> HIDE DEF w
    <3> QED
      BY <1>1, <2>2, <3>1, <3>2, UncertainKeeps
  <2> QED
    BY <2>1, <2>2 DEF ResetRefused
<1> QED
  BY <1>2, <1>3 DEF IInv, Typed

\* The batch of an accepted reset is what the game has for the level.
LEMMA HitPointsFact ==
    ASSUME NEW b, HitPoints(b), b.status = 1
    PROVE  NativeRoll(b).total = b.total
<1>1. CASE actor.native_hp.level = Target
  <2>1. b = IF CacheMatches THEN cache[actor.inc] ELSE [NoBatch EXCEPT !.status = 2]
    BY <1>1 DEF HitPoints
  <2>2. CacheMatches
    BY <2>1 DEF NoBatch
  <2> QED
    BY <1>1, <2>1, <2>2 DEF CacheMatches, NativeRoll
<1>2. CASE actor.native_hp.level # Target
  BY <1>2 DEF NativeRoll
<1> QED
  BY <1>1, <1>2

LEMMA ResetOwnedKeeps ==
    ASSUME IInv, NEW rows, NEW react, NEW made, NEW added, NEW b,
           ResetOwned(rows, react, made, added, b)
    PROVE  IInv'
<1> DEFINE v == [NewView EXCEPT !.owner = TRUE, !.hp = b.status]
           p == Selected(rows)
           merge == p.bound /\ react
           r == IF merge THEN ApplyPreview(actor.effects, rows, made, added)
                ELSE IF p.bound THEN BeginActive(actor.effects)
                ELSE Result("ok", actor.effects, NoTx)
           j == Journaled(v)
           a == [j EXCEPT !.effects = r.list, !.native_hp = NativeRoll(b),
                          !.usable = actor.usable \/ (merge /\ r.outcome = "ok")]
<1>1. /\ JournalFree /\ HitPoints(b) /\ batch' = b /\ saved' = saved /\ loads' = loads
      /\ \/ view' = v /\ actor' = a
         \/ Uncertain(a, v)
  BY DEF ResetOwned
<1>2. Screen(v) /\ v.inc = actor.inc /\ v.hp = b.status
  BY DEF IInv, Typed, Character, Screen, NewView
<1>3. Character(j) /\ Ledger(j) /\ j.inc = actor.inc /\ j.journal.stage = "preview"
  BY <1>1, JournaledFact
<1> HIDE DEF v, r, j, merge
<1>4. /\ Character(a) /\ a.inc = actor.inc /\ a.native_hp = NativeRoll(b)
      /\ a.level = j.level /\ a.receipts = j.receipts /\ a.hp = j.hp
      /\ a.receipt_hp = j.receipt_hp /\ a.journal = j.journal
  BY <1>3 DEF Character
<1>5. Ledger(a)
  BY <1>3, <1>4 DEF Ledger, Balanced
<1>6. v.inc <= a.inc
  BY <1>2, <1>4 DEF Character
<1> HIDE DEF a
<1>7. Character(actor') /\ Ledger(actor') /\ Screen(view') /\ NotAhead' /\ BatchGiven'
  <2>1. CASE Uncertain(a, v)
    BY <1>2, <1>4, <1>5, <1>6, <2>1, UncertainKeeps
  <2>2. CASE view' = v /\ actor' = a
    <3>1. b.status = 1 => NativeRoll(b).total = b.total
      BY <1>1, HitPointsFact
    <3>2. BatchGiven'
      BY <1>1, <1>2, <1>4, <2>2, <3>1 DEF BatchGiven
    <3> QED
      BY <1>2, <1>4, <1>5, <1>6, <2>2, <3>2 DEF NotAhead
  <2> QED
    BY <1>1, <2>1, <2>2
<1> QED
  BY <1>1, <1>7 DEF IInv, Typed

\* A handler that touches the character's records and nothing the ledger reads.
LEMMA RecordsOnly ==
    ASSUME IInv, NEW list, actor' = [actor EXCEPT !.effects = list],
           UNCHANGED <<saved, view, batch, loads>>
    PROVE  IInv'
<1>1. Character(actor) /\ Ledger(actor)
  BY DEF IInv, Typed
<1>2. /\ Character(actor') /\ actor'.journal = actor.journal /\ actor'.inc = actor.inc
      /\ actor'.level = actor.level /\ actor'.receipts = actor.receipts
      /\ actor'.hp = actor.hp /\ actor'.receipt_hp = actor.receipt_hp
      /\ actor'.native_hp = actor.native_hp
  BY <1>1 DEF Character
<1>3. Ledger(actor')
  BY <1>1, <1>2 DEF Ledger, Balanced
<1>4. NotAhead' /\ BatchGiven'
  BY <1>2 DEF IInv, NotAhead, BatchGiven, Open, InPreview, Same
<1> QED
  BY <1>2, <1>3, <1>4 DEF IInv, Typed

LEMMA OpenFacts ==
    ASSUME IInv
    PROVE  /\ Character(actor) /\ Ledger(actor) /\ Screen(view)
           /\ Character(saved) /\ Ledger(saved) /\ loads \in Nat
           /\ InPreview => Open /\ view.inc <= actor.inc
           /\ Cancellable => Open /\ view.inc <= actor.inc
           /\ Committable => InPreview /\ batch.total = actor.native_hp.total
BY DEF IInv, Typed, NotAhead, BatchGiven, InPreview, Same, Cancellable, Committable

LEMMA PrepareFailsKeeps ==
    ASSUME IInv, PrepareFails
    PROVE  IInv'
<1>1. CASE Uncertain(actor, view)
  BY <1>1, RefusedKeeps, OpenFacts DEF PrepareFails
<1>2. CASE actor.journal.stage = "preview" /\ Uncertain(Prepared, view)
  <2>1. Character(Prepared) /\ Ledger(Prepared) /\ Prepared.inc = actor.inc
    BY <1>2, PreparedFact
  <2>2. Screen(view) /\ view.inc <= Prepared.inc
    BY <2>1, OpenFacts DEF PrepareFails
  <2>3. Character(actor') /\ Ledger(actor') /\ Screen(view') /\ NotAhead' /\ BatchGiven'
    BY <1>2, <2>1, <2>2, UncertainKeeps
  <2> QED
    BY <2>3 DEF PrepareFails, IInv, Typed
<1> QED
  BY <1>1, <1>2 DEF PrepareFails

LEMMA CommitThrowsKeeps ==
    ASSUME IInv, CommitThrows
    PROVE  IInv'
<1>1. actor.journal.stage = "preview" /\ Committable /\ saved' = saved /\ loads' = loads
  BY DEF CommitThrows
<1>2. Screen(view) /\ view.inc <= actor.inc
  BY <1>1, OpenFacts
<1>3. \E a : Character(a) /\ Ledger(a) /\ a.inc = actor.inc /\ Uncertain(a, view)
  <2>1. CASE Uncertain(Prepared, view)
    BY <1>1, <2>1, PreparedFact
  <2>2. CASE Uncertain(Levelled(Prepared), view)
    BY <1>1, <2>2, LevelledFact
  <2> QED
    BY <2>1, <2>2 DEF CommitThrows
<1>4. PICK a : Character(a) /\ Ledger(a) /\ a.inc = actor.inc /\ Uncertain(a, view)
  BY <1>3
<1>5. Character(actor') /\ Ledger(actor') /\ Screen(view') /\ NotAhead' /\ BatchGiven'
  BY <1>2, <1>4, UncertainKeeps
<1> QED
  BY <1>1, <1>5 DEF IInv, Typed

LEMMA CommitKeeps ==
    ASSUME IInv, NEW replaced, NEW made, NEW added, NEW completes,
           Commit(replaced, made, added, completes)
    PROVE  IInv'
<1> DEFINE list == IF replaced \in DOMAIN actor.effects
                   THEN Replaced(actor.effects, replaced) ELSE actor.effects
           r == AfterCommit(list, made, added)
           l == Levelled(Prepared)
           a == [l EXCEPT !.effects = r.list]
           done == r.outcome = "ok" /\ completes
           given == IF done THEN Receipted(a) ELSE a
<1>1. /\ actor.journal.stage = "preview" /\ Committable /\ Settle(done, given)
      /\ saved' = saved /\ batch' = batch /\ loads' = loads
  BY DEF Commit, observers
<1> HIDE DEF r, done
<1>2. /\ Character(l) /\ Ledger(l) /\ l.inc = actor.inc /\ l.level = 2 + l.receipts
      /\ l.hp = l.receipt_hp + actor.native_hp.total
      /\ l.journal.stage = "committing" /\ l.journal.hp = batch.total
  BY <1>1, LevelledFact
<1> HIDE DEF l
<1>3. /\ Character(a) /\ a.inc = actor.inc /\ a.level = l.level /\ a.receipts = l.receipts
      /\ a.hp = l.hp /\ a.receipt_hp = l.receipt_hp /\ a.journal = l.journal
  BY <1>2 DEF Character
<1>4. Ledger(a)
  BY <1>2, <1>3 DEF Ledger, Balanced
<1> HIDE DEF a
<1>5. /\ Character(Receipted(a)) /\ Receipted(a).inc = actor.inc
      /\ Receipted(a).level = a.level /\ Receipted(a).receipts = a.receipts + 1
      /\ Receipted(a).hp = a.hp /\ Receipted(a).receipt_hp = a.receipt_hp + a.journal.hp
      /\ Receipted(a).journal.stage = "none"
  BY <1>3 DEF Receipted, Character, Journal, NoJournal
<1>6. batch.total = actor.native_hp.total /\ Screen(view) /\ view.inc <= actor.inc
  BY <1>1, OpenFacts
<1>7. Ledger(Receipted(a))
  <2>1. Receipted(a).level = 1 + Receipted(a).receipts
    BY <1>2, <1>3, <1>5 DEF Character
  <2>2. Receipted(a).hp = Receipted(a).receipt_hp
    BY <1>2, <1>3, <1>5, <1>6
  <2> QED
    BY <1>5, <2>1, <2>2 DEF Ledger, Balanced
<1>8. Character(actor') /\ Ledger(actor') /\ Screen(view') /\ NotAhead' /\ BatchGiven'
  <2>1. CASE done
    <3>1. view' = [view EXCEPT !.phase = "closed"] /\ actor' = Receipted(a)
      BY <1>1, <2>1 DEF Settle
    <3> QED
      BY <1>5, <1>6, <1>7, <3>1 DEF Screen, NotAhead, BatchGiven, Open, InPreview, Same
  <2>2. CASE ~done
    BY <1>1, <1>3, <1>4, <1>6, <2>2, UncertainKeeps DEF Settle
  <2> QED
    BY <2>1, <2>2
<1> QED
  BY <1>1, <1>8, OpenFacts DEF IInv, Typed

LEMMA CancelKeeps ==
    ASSUME IInv, NEW pips, NEW cancels, Cancel(pips, cancels)
    PROVE  IInv'
<1>1. \E list, usable, done :
         LET a == [actor EXCEPT !.effects = list, !.usable = usable,
                                !.journal = IF done THEN NoJournal ELSE @]
         IN  Settle(done, a) /\ (done => actor.journal.stage = "preview")
  BY DEF Cancel
<1>2. PICK list, usable, done :
         LET a == [actor EXCEPT !.effects = list, !.usable = usable,
                                !.journal = IF done THEN NoJournal ELSE @]
         IN  Settle(done, a) /\ (done => actor.journal.stage = "preview")
  BY <1>1
<1> DEFINE a == [actor EXCEPT !.effects = list, !.usable = usable,
                              !.journal = IF done THEN NoJournal ELSE @]
<1>3. /\ Character(actor) /\ Ledger(actor) /\ Screen(view) /\ view.inc <= actor.inc
      /\ saved' = saved /\ batch' = batch /\ loads' = loads
  BY OpenFacts DEF Cancel, observers
<1>4. /\ Character(a) /\ a.inc = actor.inc
      /\ a.level = actor.level /\ a.receipts = actor.receipts
      /\ a.hp = actor.hp /\ a.receipt_hp = actor.receipt_hp
      /\ a.journal = IF done THEN NoJournal ELSE actor.journal
  BY <1>3 DEF Character, Journal, NoJournal
<1>5. Ledger(a)
  BY <1>2, <1>3, <1>4 DEF Ledger, Balanced, NoJournal
<1>6. Settle(done, a)
  BY <1>2
<1> HIDE DEF a
<1>7. Character(actor') /\ Ledger(actor') /\ Screen(view') /\ NotAhead' /\ BatchGiven'
  <2>1. CASE done
    <3>1. view' = [view EXCEPT !.phase = "closed"] /\ actor' = a
      BY <1>6, <2>1 DEF Settle
    <3> QED
      BY <1>3, <1>4, <1>5, <3>1 DEF Screen, NotAhead, BatchGiven, Open, InPreview, Same
  <2>2. CASE ~done
    BY <1>3, <1>4, <1>5, <1>6, <2>2, UncertainKeeps DEF Settle
  <2> QED
    BY <2>1, <2>2
<1> QED
  BY <1>3, <1>7, OpenFacts DEF IInv, Typed

LEMMA LoadedFact ==
    ASSUME IInv, NEW STATE n, n \in Nat,
           actor' = [saved EXCEPT !.inc = n, !.native_hp = NoBatch]
    PROVE  Character(actor') /\ Ledger(actor') /\ actor'.inc = n
<1>1. Character(saved) /\ Ledger(saved)
  BY DEF IInv, Typed
<1>2. /\ Character(actor') /\ actor'.inc = n /\ actor'.journal = saved.journal
      /\ actor'.level = saved.level /\ actor'.receipts = saved.receipts
      /\ actor'.hp = saved.hp /\ actor'.receipt_hp = saved.receipt_hp
  BY <1>1 DEF Character
<1> QED
  BY <1>1, <1>2 DEF Ledger, Balanced

LEMMA LoadKeeps ==
    ASSUME IInv, Load
    PROVE  IInv'
<1>1. /\ actor.inc \in Nat /\ loads \in Nat /\ Screen(view)
      /\ loads' = loads + 1 /\ view' = view /\ saved' = saved /\ batch' = batch
      /\ actor' = [saved EXCEPT !.inc = actor.inc + 1, !.native_hp = NoBatch]
  BY DEF IInv, Typed, Character, Load, Reload, observers
<1>2. Character(actor') /\ Ledger(actor') /\ actor'.inc = actor.inc + 1
  <2>1. actor.inc + 1 \in Nat
    BY <1>1
  <2> QED
    BY <1>1, <2>1, LoadedFact, Zenon
\* No screen is for the incarnation that was loaded.
<1>3. Open => view.inc < actor'.inc
  BY <1>1, <1>2 DEF IInv, NotAhead, Screen
<1>4. NotAhead' /\ BatchGiven'
  BY <1>1, <1>2, <1>3 DEF NotAhead, BatchGiven, Open, InPreview, Same, Screen
<1> QED
  BY <1>1, <1>2, <1>4 DEF IInv, Typed

LEMMA RestartKeeps ==
    ASSUME IInv, Restart
    PROVE  IInv'
<1>1. /\ loads \in Nat /\ loads' = loads + 1 /\ view' = NoView /\ saved' = saved
      /\ actor' = [saved EXCEPT !.inc = 1, !.native_hp = NoBatch]
  BY DEF IInv, Typed, Restart, Reload
<1>2. Character(actor') /\ Ledger(actor')
  BY <1>1, LoadedFact
<1>3. Screen(view') /\ NotAhead' /\ BatchGiven'
  BY <1>1 DEF NoView, Screen, NotAhead, BatchGiven, Open, InPreview, Same
<1> QED
  BY <1>1, <1>2, <1>3 DEF IInv, Typed

\* The character a button of a stuck screen makes.
LEMMA TouchedFact ==
    ASSUME Character(actor), NEW list
    PROVE  LET a == [actor EXCEPT !.effects = list]
           IN  /\ Character(a) /\ a.effects = list
               /\ a.level = actor.level /\ a.receipts = actor.receipts /\ a.earned = actor.earned
               /\ a.hp = actor.hp /\ a.receipt_hp = actor.receipt_hp
               /\ a.inc = actor.inc /\ a.journal = actor.journal /\ a.usable = actor.usable
BY DEF Character

LEMMA UntrackedKeeps ==
    ASSUME IInv, NEW stat, NEW pips, ChooseUntracked(stat, pips)
    PROVE  IInv'
<1> DEFINE a == [actor EXCEPT !.effects = NativeSet(actor.effects, stat, pips)]
<1>1. Uncertain(a, view) /\ UNCHANGED <<saved, loads>>
  BY DEF ChooseUntracked
<1>2. Character(actor) /\ Ledger(actor) /\ Screen(view) /\ view.inc <= actor.inc
  BY DEF ChooseUntracked, IInv, Typed, NotAhead
<1>3. /\ Character(a) /\ a.level = actor.level /\ a.receipts = actor.receipts
      /\ a.hp = actor.hp /\ a.receipt_hp = actor.receipt_hp
      /\ a.inc = actor.inc /\ a.journal = actor.journal
  BY <1>2, TouchedFact
<1> HIDE DEF a
<1>4. Ledger(a)
  BY <1>2, <1>3 DEF Ledger, Balanced
<1>5. Character(actor') /\ Ledger(actor') /\ Screen(view') /\ NotAhead' /\ BatchGiven'
  BY <1>1, <1>2, <1>3, <1>4, UncertainKeeps
<1> QED
  BY <1>1, <1>5 DEF IInv, Typed

LEMMA NextIInv == IInv /\ [Next]_vars => IInv'
<1> SUFFICES ASSUME IInv, [Next]_vars PROVE IInv'
  OBVIOUS
<1>1. CASE ResetWhileOpen \/ OtherCharacter \/ CommitRefused \/ CancelRefused \/ CancelThrows
  <2>1. Open /\ Uncertain(actor, view) /\ UNCHANGED <<saved, loads>>
    BY <1>1 DEF ResetWhileOpen, OtherCharacter, CommitRefused, CancelRefused, CancelThrows,
                Cancellable, Same
  <2> QED
    BY <2>1, RefusedKeeps
<1>2. CASE ResetOrdinary
  BY <1>2 DEF ResetOrdinary, IInv, Typed, Screen, NoView, NotAhead, BatchGiven, Open,
              InPreview, Same
<1>3. CASE EndOrdinary
  BY <1>3 DEF EndOrdinary, observers, IInv, Typed, NotAhead, BatchGiven, Open, InPreview, Same
<1>4. CASE ResetRefused
  BY <1>4, ResetRefusedKeeps
<1>5. ASSUME NEW rows \in Rows, NEW react \in BOOLEAN, NEW made \in BOOLEAN,
             NEW added \in SUBSET Stats, NEW b \in Batches,
             ResetOwned(rows, react, made, added, b)
      PROVE  IInv'
  BY <1>5, ResetOwnedKeeps
<1>6. ASSUME NEW s \in Stats, NEW pips \in Pips, NEW added \in SUBSET Stats,
             Choose(s, pips, added)
      PROVE  IInv'
  <2>1. /\ \E list : actor' = [actor EXCEPT !.effects = list]
        /\ UNCHANGED <<saved, view, batch, loads>>
    BY <1>6 DEF Choose
  <2> QED
    BY <2>1, RecordsOnly
<1>7. CASE Recalculate
  <2>1. /\ \E list : actor' = [actor EXCEPT !.effects = list]
        /\ UNCHANGED <<saved, view, batch, loads>>
    BY <1>7 DEF Recalculate, observers
  <2> QED
    BY <2>1, RecordsOnly
<1>8. CASE PrepareFails
  BY <1>8, PrepareFailsKeeps
<1>9. CASE CommitThrows
  BY <1>9, CommitThrowsKeeps
<1>10. ASSUME NEW i \in 0..Len(actor.effects), NEW made \in BOOLEAN,
              NEW completes \in BOOLEAN, NEW added \in SUBSET Stats,
              Commit(i, made, added, completes)
       PROVE  IInv'
  BY <1>10, CommitKeeps
<1>11. ASSUME NEW pips \in [Stats -> Pips], NEW cancels \in BOOLEAN, Cancel(pips, cancels)
       PROVE  IInv'
  BY <1>11, CancelKeeps
<1>12. CASE Save
  BY <1>12 DEF Save, observers, IInv, Typed, NotAhead, BatchGiven, Open, InPreview, Same
<1>13. CASE Load
  BY <1>13, LoadKeeps
<1>14. CASE Restart
  BY <1>14, RestartKeeps
<1>15. ASSUME NEW s \in Stats, NEW pips \in Pips, ChooseUntracked(s, pips)
       PROVE  IInv'
  BY <1>15, UntrackedKeeps
<1>16. CASE UNCHANGED vars
  BY <1>16 DEF vars, observers, IInv, Typed, NotAhead, BatchGiven, Open, InPreview, Same
<1> QED
  BY <1>1, <1>2, <1>3, <1>4, <1>5, <1>6, <1>7, <1>8, <1>9, <1>10, <1>11, <1>12, <1>13,
     <1>14, <1>15, <1>16 DEF Next
-----------------------------------------------------------------------------
LEMMA Inductive == Spec => []IInv
BY InitIInv, NextIInv, PTL DEF Spec

\* Every level and every hit point the character gained on a tracked screen has
\* its receipt, or an unresolved journal says that one level may not
\* (CBMDS_Commit, PrepareCommit, Complete, matchCache).
THEOREM GainsHaveReceipts == Spec => []GainsAccounted
<1>1. IInv => GainsAccounted
  <2> SUFFICES ASSUME IInv PROVE GainsAccounted
    OBVIOUS
  <2>1. Ledger(actor) /\ actor.level \in Nat /\ actor.receipts \in Nat
    BY DEF IInv, Typed, Character
  <2> QED
    BY <2>1 DEF Ledger, Balanced, GainsAccounted
<1> QED
  BY <1>1, Inductive, PTL
-----------------------------------------------------------------------------
\* A record the game replaces has the same content.
LEMMA ReplacedContent ==
    ASSUME NEW list, NEW i
    PROVE  Content(Replaced(list, i)) = Content(list)
<1>1. \E n : Replaced(list, i) = [list EXCEPT ![i].node = n]
  BY DEF Replaced
<1>2. PICK n : Replaced(list, i) = [list EXCEPT ![i].node = n]
  BY <1>1
<1>3. ASSUME NEW j \in DOMAIN list
      PROVE  [[list EXCEPT ![i].node = n][j] EXCEPT !.node = 0] = [list[j] EXCEPT !.node = 0]
  <2>1. CASE j # i
    BY <2>1
  <2>2. CASE j = i
    <3>1. [list EXCEPT ![i].node = n][j] = [list[j] EXCEPT !.node = n]
      BY <2>2
    <3> QED
      BY <3>1
  <2> QED
    BY <2>1, <2>2
<1> QED
  BY <1>2, <1>3 DEF Content

\* What UnresolvedIsFinal asks of a step.
Final ==
    /\ view.phase = "uncertain" => view'.phase = "uncertain"
    /\ actor'.level = actor.level
    /\ actor.journal.stage # "none" => actor'.journal.stage \in {actor.journal.stage, "uncertain"}
    /\ Inactive(actor'.effects) = Inactive(actor.effects)
    /\ ~Open => Content(actor'.effects) = Content(actor.effects)

\* Records of the same content are the same but for their nodes.
LEMMA SameParts ==
    ASSUME NEW list, NEW other, Content(list) = Content(other)
    PROVE  Inactive(list) = Inactive(other) /\ ActivePips(list) = ActivePips(other)
<1>1. DOMAIN list = DOMAIN Content(list) /\ DOMAIN other = DOMAIN Content(other)
  BY DEF Content
<1>2. DOMAIN list = DOMAIN other
  BY <1>1
<1> QED
  BY <1>2 DEF Inactive, ActivePips

\* The game's own setter writes active pips and nothing else.
LEMMA OnlyActivePips ==
    ASSUME NEW list, NEW stat, NEW pips
    PROVE  Inactive(NativeSet(list, stat, pips)) = Inactive(list)
<1> DEFINE new == NativeSet(list, stat, pips)
<1>1. DOMAIN new = DOMAIN list
  BY DEF NativeSet
<1>2. ASSUME NEW i \in DOMAIN list
      PROVE  [Content(new)[i] EXCEPT !.act = 0] = [Content(list)[i] EXCEPT !.act = 0]
  <2>1. /\ Content(new)[i] = [new[i] EXCEPT !.node = 0]
        /\ Content(list)[i] = [list[i] EXCEPT !.node = 0]
    BY <1>1 DEF Content
  <2>2. new[i] = [list[i] EXCEPT !.act = pips] \/ new[i] = list[i]
    BY DEF NativeSet
  <2> HIDE DEF new
  <2>3. CASE new[i] = list[i]
    BY <2>1, <2>3
  <2>4. CASE new[i] = [list[i] EXCEPT !.act = pips]
    <3> DEFINE e == list[i]
    <3>1. [[[e EXCEPT !.act = pips] EXCEPT !.node = 0] EXCEPT !.act = 0]
            = [[e EXCEPT !.node = 0] EXCEPT !.act = 0]
      <4> HIDE DEF e
      <4> QED OBVIOUS
    <3> QED
      BY <2>1, <2>4, <3>1
  <2> QED
    BY <2>2, <2>3, <2>4
<1> HIDE DEF new
<1>3. Inactive(new) = Inactive(list)
  BY <1>1, <1>2 DEF Inactive
<1> QED
  BY <1>3 DEF new

LEMMA UncertainIsFinal ==
    ASSUME IInv, NEW v, Screen(v), Uncertain(actor, v)
    PROVE  Final
<1>1. actor' \in Marked(actor, v) /\ view'.phase = "uncertain"
  BY DEF Uncertain, Screen
<1>2. Character(actor)
  BY DEF IInv, Typed
<1> QED
  BY <1>1, <1>2, MarkedFact DEF Final

LEMMA UntrackedIsFinal ==
    ASSUME IInv, NEW stat, NEW pips, ChooseUntracked(stat, pips)
    PROVE  Final
<1> DEFINE list == NativeSet(actor.effects, stat, pips)
           a == [actor EXCEPT !.effects = list]
<1>1. Open /\ Screen(view) /\ Character(actor) /\ Uncertain(a, view)
  BY DEF IInv, Typed, ChooseUntracked
<1>2. /\ Character(a) /\ a.effects = list /\ a.level = actor.level /\ a.journal = actor.journal
  <2> HIDE DEF list
  <2> QED BY <1>1, TouchedFact
<1>3. Inactive(list) = Inactive(actor.effects)
  BY OnlyActivePips
<1> HIDE DEF a, list
<1>4. actor' \in Marked(a, view) /\ view'.phase = "uncertain"
  BY <1>1 DEF Uncertain, Screen
<1>5. /\ actor'.effects = list /\ actor'.level = actor.level
      /\ actor'.journal.stage \in {actor.journal.stage, "uncertain"}
  BY <1>2, <1>4, MarkedFact
<1> QED
  BY <1>1, <1>3, <1>4, <1>5 DEF Final

LEMMA NextFinal == IInv /\ [Next]_vars => (Unresolved /\ loads' = loads => Final)
<1> SUFFICES ASSUME IInv, [Next]_vars, Unresolved, loads' = loads PROVE Final
  OBVIOUS
<1>1. CASE ResetWhileOpen \/ OtherCharacter \/ CommitRefused \/ CancelRefused \/ CancelThrows
  <2>1. Uncertain(actor, view)
    BY <1>1 DEF ResetWhileOpen, OtherCharacter, CommitRefused, CancelRefused, CancelThrows
  <2> QED
    BY <2>1, UncertainIsFinal, OpenFacts
<1>2. CASE ResetOrdinary \/ EndOrdinary \/ Save
  <2>1. actor' = actor /\ (view.phase = "uncertain" => view' = view)
    BY <1>2 DEF ResetOrdinary, StartSession, CanOpen, Open, EndOrdinary, Save
  <2> QED
    BY <2>1 DEF Final
<1>3. CASE ResetRefused
  <2>1. ~Open
    BY <1>3 DEF ResetRefused, StartSession, CanOpen
  <2>2. ~JournalFree
    BY <2>1 DEF Unresolved, Open, JournalFree
  <2>3. Uncertain(actor, NewView)
    BY <1>3, <2>2 DEF ResetRefused
  <2> QED
    BY <2>3, NewViewFact, UncertainIsFinal
<1>4. ASSUME NEW rows \in Rows, NEW react \in BOOLEAN, NEW made \in BOOLEAN,
             NEW added \in SUBSET Stats, NEW b \in Batches,
             ResetOwned(rows, react, made, added, b)
      PROVE  Final
  BY <1>4 DEF ResetOwned, StartSession, CanOpen, JournalFree, Unresolved, Open
<1>5. ASSUME NEW s \in Stats, NEW pips \in Pips, NEW added \in SUBSET Stats,
             Choose(s, pips, added)
      PROVE  Final
  BY <1>5 DEF Choose, InPreview, Same, Open, Unresolved
<1>6. CASE Recalculate
  <2>1. PICK i : actor' = [actor EXCEPT !.effects = Replaced(actor.effects, i)]
    BY <1>6 DEF Recalculate
  <2>2. /\ actor'.effects = Replaced(actor.effects, i)
        /\ actor'.level = actor.level /\ actor'.journal = actor.journal
    BY <2>1 DEF IInv, Typed, Character
  <2>3. Content(actor'.effects) = Content(actor.effects)
    BY <2>2, ReplacedContent
  <2>4. Inactive(actor'.effects) = Inactive(actor.effects)
    BY <2>3, SameParts
  <2> QED
    BY <1>6, <2>2, <2>3, <2>4 DEF Recalculate, Final
<1>7. CASE PrepareFails \/ CommitThrows
  BY <1>7 DEF PrepareFails, CommitThrows, Committable, InPreview, Same, Open, Unresolved
<1>8. ASSUME NEW i \in 0..Len(actor.effects), NEW made \in BOOLEAN,
             NEW completes \in BOOLEAN, NEW added \in SUBSET Stats,
             Commit(i, made, added, completes)
      PROVE  Final
  BY <1>8 DEF Commit, Committable, InPreview, Same, Open, Unresolved
<1>9. ASSUME NEW pips \in [Stats -> Pips], NEW cancels \in BOOLEAN, Cancel(pips, cancels)
      PROVE  Final
  BY <1>9 DEF Cancel, Cancellable, Same, Open, Unresolved
<1>10. CASE Load \/ Restart
  BY <1>10 DEF Load, Restart, Reload, IInv, Typed
<1>11. ASSUME NEW s \in Stats, NEW pips \in Pips, ChooseUntracked(s, pips)
       PROVE  Final
  BY <1>11, UntrackedIsFinal
<1>12. CASE UNCHANGED vars
  BY <1>12 DEF vars, Final
<1> QED
  BY <1>1, <1>2, <1>3, <1>4, <1>5, <1>6, <1>7, <1>8, <1>9, <1>10, <1>11, <1>12 DEF Next

\* An outcome nobody knows stays open: an uncertain screen never closes, and a
\* character whose journal is unresolved gains no level and keeps its journal,
\* whatever screen is tried next (CBMDS_Reset, Begin).  Of its records only active
\* pips still change, and only while the stuck screen is there (CBMDL_SetActive).
THEOREM UnknownStaysOpen == Spec => UnresolvedIsFinal
<1>1. IInv /\ [Next]_vars =>
        [Unresolved /\ loads' = loads =>
           /\ view.phase = "uncertain" => view'.phase = "uncertain"
           /\ actor'.level = actor.level
           /\ actor.journal.stage # "none" => actor'.journal.stage \in {actor.journal.stage, "uncertain"}
           /\ Inactive(actor'.effects) = Inactive(actor.effects)
           /\ ~Open => Content(actor'.effects) = Content(actor.effects)]_vars
  BY NextFinal DEF Final
<1> QED
  BY <1>1, Inductive, PTL DEF Spec, UnresolvedIsFinal
-----------------------------------------------------------------------------
(* Folds over a list of records, unrolled entry by entry.                   *)

LEMMA BelowIsWellFounded ==
    \E R : IsWellFoundedOn(R, Nat) /\ \A x, y \in Nat : x < y => <<x, y>> \in R
<1>1. \A x, y \in Nat : x < y => <<x, y>> \in OpToRel(<, Nat)
  BY DEF OpToRel
<1> QED
  BY <1>1, NatLessThanWellFounded

\* Induction, for a set of numbers.
LEMMA CountingUp ==
    ASSUME NEW T, 0 \in T, \A n \in Nat : n \in T => n + 1 \in T
    PROVE  \A n \in Nat : n \in T
<1> SUFFICES ASSUME Nat \ T # {} PROVE FALSE
  OBVIOUS
<1>1. PICK R : IsWellFoundedOn(R, Nat) /\ \A x, y \in Nat : x < y => <<x, y>> \in R
  BY BelowIsWellFounded
<1>2. Nat \ T \subseteq Nat
  OBVIOUS
<1>3. PICK x \in Nat \ T : \A y \in Nat \ T : ~(<<y, x>> \in R)
  BY <1>1, <1>2, WFMin
<1>4. x # 0 /\ x \in Nat
  BY <1>3
<1>5. x - 1 \in Nat /\ x - 1 < x
  BY <1>4
<1>6. x - 1 \notin T
  BY <1>3, <1>5
<1>7. <<x - 1, x>> \in R
  BY <1>1, <1>4, <1>5
<1> QED
  BY <1>3, <1>5, <1>6, <1>7

LEMMA MaxFact ==
    ASSUME NEW N \in Nat, NEW U \in SUBSET (1..N), U # {}
    PROVE  Max(U) \in U /\ \A y \in U : Max(U) >= y
<1> DEFINE T == {n \in Nat : \A W \in SUBSET (1..n) : W # {} => \E x \in W : \A y \in W : x >= y}
<1>1. 0 \in T
  <2>1. \A W \in SUBSET (1..0) : W = {}
    OBVIOUS
  <2> QED
    BY <2>1
<1>2. ASSUME NEW n \in Nat, n \in T PROVE n + 1 \in T
  <2> SUFFICES ASSUME NEW W \in SUBSET (1..(n + 1)), W # {} PROVE \E x \in W : \A y \in W : x >= y
    OBVIOUS
  <2>1. CASE n + 1 \in W
    BY <2>1
  <2>2. CASE n + 1 \notin W
    <3>1. W \in SUBSET (1..n)
      BY <2>2
    <3> QED
      BY <1>2, <3>1
  <2> QED
    BY <2>1, <2>2
<1>3. \A n \in Nat : n \in T
  <2> HIDE DEF T
  <2> QED BY <1>1, <1>2, CountingUp
<1>4. \E x \in U : \A y \in U : x >= y
  BY <1>3
<1> QED
  BY <1>4 DEF Max

LEMMA MaxOfRange ==
    ASSUME NEW n \in Nat \ {0}
    PROVE  Max(1..n) = n /\ (1..n) \ {n} = 1..(n - 1)
<1> DEFINE U == 1..n
<1>1. Max(U) \in U /\ \A y \in U : Max(U) >= y
  <2>1. n \in Nat /\ U \in SUBSET (1..n) /\ U # {}
    OBVIOUS
  <2> HIDE DEF U
  <2> QED
    BY <2>1, MaxFact
<1>2. n \in 1..n
  OBVIOUS
<1> QED
  BY <1>1, <1>2

\* What a fold from the left over N entries does with a set of their places:
\* it takes the entry at the last place after all the others.
Rest(U) == U \ {Max(U)}
Folded(iter, step, v0, U) == IF U = {} THEN v0 ELSE step[<<Max(U), iter[Rest(U)]>>]

StepsOf(N, V) == [(1..N) \X V -> V]
Folding(iter, N, V, v0, step) ==
    /\ iter \in [SUBSET (1..N) -> V]
    /\ iter = [U \in SUBSET (1..N) |-> Folded(iter, step, v0, U)]

LEMMA FoldDefined ==
    ASSUME NEW N \in Nat, NEW V, NEW v0 \in V, NEW step \in StepsOf(N, V)
    PROVE  \E iter : Folding(iter, N, V, v0, step)
<1> DEFINE D(n) == {U \in SUBSET (1..N) : U \subseteq 1..n}
           T == {n \in Nat : \E iter \in [D(n) -> V] :
                     iter = [U \in D(n) |-> Folded(iter, step, v0, U)]}
<1>1. \A n \in Nat : \A U \in D(n + 1) : U # {} => Rest(U) \in D(n) /\ Max(U) \in 1..N
  <2> SUFFICES ASSUME NEW n \in Nat, NEW U \in D(n + 1), U # {}
               PROVE  Rest(U) \in D(n) /\ Max(U) \in 1..N
    OBVIOUS
  <2>0. U \in SUBSET (1..N) /\ U \subseteq 1..(n + 1)
    OBVIOUS
  <2>1. Max(U) \in U /\ \A y \in U : Max(U) >= y
    BY <2>0, MaxFact
  <2>2. Max(U) \in 1..N /\ Max(U) <= n + 1
    <3> \A x : x \in U => x \in 1..N /\ x \in 1..(n + 1)
      BY <2>0
    <3> \A x : x \in 1..N /\ x \in 1..(n + 1) => x <= n + 1
      OBVIOUS
    <3> QED
      BY <2>1, Zenon
  <2>3. ASSUME NEW y \in Rest(U) PROVE y \in 1..N /\ y \in 1..n
    <3>1. y \in U /\ y # Max(U) /\ y \in 1..N /\ y \in 1..(n + 1)
      BY <2>0 DEF Rest
    <3>2. y <= Max(U)
      BY <2>1, <3>1
    <3>3. y <= n
      BY <2>2, <3>1, <3>2
    <3> QED
      BY <3>1, <3>3
  <2>4. Rest(U) \subseteq 1..N /\ Rest(U) \subseteq 1..n
    BY <2>3
  <2> QED
    BY <2>2, <2>4
<1>2. 0 \in T
  <2> DEFINE zero == [U \in D(0) |-> v0]
  <2>1. \A U \in D(0) : U = {}
    OBVIOUS
  <2>2. \A U \in D(0) : Folded(zero, step, v0, U) = v0
    <3> HIDE DEF D, zero
    <3> QED BY <2>1 DEF Folded
  <2>3. zero \in [D(0) -> V] /\ zero = [U \in D(0) |-> Folded(zero, step, v0, U)]
    <3> HIDE DEF D
    <3> QED BY <2>2
  <2> HIDE DEF D, zero
  <2> QED
    BY <2>3
<1>3. ASSUME NEW n \in Nat, n \in T PROVE n + 1 \in T
  <2>1. PICK iter \in [D(n) -> V] : iter = [U \in D(n) |-> Folded(iter, step, v0, U)]
    BY <1>3
  <2> DEFINE new == [U \in D(n + 1) |-> Folded(iter, step, v0, U)]
  <2>2. \A U \in D(n) : U \in D(n + 1)
    OBVIOUS
  <2>3. \A U \in D(n) : new[U] = iter[U]
    <3> HIDE DEF D
    <3> QED BY <2>1, <2>2
  <2>4. ASSUME NEW U \in D(n + 1)
        PROVE  Folded(new, step, v0, U) = Folded(iter, step, v0, U) /\ Folded(iter, step, v0, U) \in V
    <3>1. CASE U = {}
      BY <3>1 DEF Folded
    <3>2. CASE U # {}
      <4>1. Rest(U) \in D(n) /\ Max(U) \in 1..N
        <5> HIDE DEF D
        <5> QED BY <1>1, <3>2
      <4>2. new[Rest(U)] = iter[Rest(U)] /\ iter[Rest(U)] \in V
        <5> HIDE DEF new, D
        <5> QED BY <2>1, <2>3, <4>1
      <4> HIDE DEF new, D
      <4> QED BY <3>2, <4>1, <4>2 DEF Folded, StepsOf
    <3> QED
      BY <3>1, <3>2
  <2>5. new \in [D(n + 1) -> V] /\ new = [U \in D(n + 1) |-> Folded(new, step, v0, U)]
    <3> HIDE DEF D
    <3> QED BY <2>4
  <2> HIDE DEF D, new
  <2> QED
    BY <2>5
<1>4. N \in T
  <2> HIDE DEF T
  <2> QED BY <1>2, <1>3, CountingUp
<1>5. D(N) = SUBSET (1..N)
  OBVIOUS
<1> HIDE DEF D
<1> QED
  BY <1>4, <1>5 DEF Folding

\* The fold as a walk along the list: its value after each entry.
Walk(f, N, V, v0, step) ==
    /\ f \in [0..N -> V] /\ f[0] = v0
    /\ \A n \in 1..N : f[n] = step[<<n, f[n - 1]>>]

\* A fold that takes a typed step for a typed value is such a walk.
Steps(iter, N, V, v0, step) ==
    /\ iter[{}] = v0
    /\ \A n \in 1..N : iter[1..(n - 1)] \in V => iter[1..n] = step[<<n, iter[1..(n - 1)]>>]

LEMMA FoldWalks ==
    ASSUME NEW N \in Nat, NEW V, NEW v0 \in V, NEW step \in StepsOf(N, V), NEW iter,
           Steps(iter, N, V, v0, step)
    PROVE  \E f : Walk(f, N, V, v0, step) /\ f[N] = iter[1..N]
<1> DEFINE f == [n \in 0..N |-> iter[1..n]]
           T == {n \in Nat : n <= N => iter[1..n] \in V}
<1>1. 0 \in T
  <2>1. 1..0 = {}
    OBVIOUS
  <2> QED
    BY <2>1 DEF Steps
<1>2. ASSUME NEW n \in Nat, n \in T PROVE n + 1 \in T
  <2> SUFFICES ASSUME n + 1 <= N PROVE iter[1..(n + 1)] \in V
    OBVIOUS
  <2>1. n + 1 \in 1..N /\ (n + 1) - 1 = n /\ iter[1..n] \in V
    BY <1>2
  <2>2. iter[1..(n + 1)] = step[<<n + 1, iter[1..n]>>]
    BY <2>1 DEF Steps
  <2> QED
    BY <2>1, <2>2 DEF StepsOf
<1>3. \A n \in Nat : n \in T
  <2> HIDE DEF T
  <2> QED BY <1>1, <1>2, CountingUp
<1>4. \A n \in 0..N : iter[1..n] \in V
  BY <1>3
<1>5. ASSUME NEW n \in 1..N PROVE f[n] = step[<<n, f[n - 1]>>]
  <2>1. n \in 0..N /\ n - 1 \in 0..N
    OBVIOUS
  <2>2. iter[1..n] = step[<<n, iter[1..(n - 1)]>>]
    BY <1>4, <2>1 DEF Steps
  <2> QED
    BY <2>1, <2>2
<1>6. f[0] = v0
  <2>1. 1..0 = {} /\ 0 \in 0..N
    OBVIOUS
  <2> QED
    BY <2>1 DEF Steps
<1>7. f \in [0..N -> V]
  BY <1>4
<1>8. Walk(f, N, V, v0, step)
  <2> HIDE DEF f
  <2> QED
    BY <1>5, <1>6, <1>7 DEF Walk
<1>9. f[N] = iter[1..N]
  OBVIOUS
<1> HIDE DEF f
<1> QED
  BY <1>8, <1>9
-----------------------------------------------------------------------------
(* What the operators on lists of records do.                               *)

\* A list is a function on an interval.
LEMMA ListFact ==
    ASSUME NEW list \in Seq(Entries)
    PROVE  /\ Len(list) \in Nat /\ DOMAIN list = 1..Len(list)
           /\ list \in [1..Len(list) -> Entries]
           /\ \A i \in 1..Len(list) : list[i] \in Entries
OBVIOUS

\* The pips one record carries for a stat.
Held(e, s) == IF e.kind = "carrier" /\ e.stat = s THEN e.old ELSE 0

LEMMA HeldFact == ASSUME NEW e \in Entries, NEW s PROVE Held(e, s) \in Nat
BY DEF Entries, Held

\* The carried pips are the sum along the list.
Sums(f, list, s) ==
    /\ f \in [0..Len(list) -> Nat] /\ f[0] = 0
    /\ \A n \in 1..Len(list) : f[n] = f[n - 1] + Held(list[n], s)

LEMMA CarriedSums ==
    ASSUME NEW list \in Seq(Entries), NEW s
    PROVE  \E f : Sums(f, list, s) /\ f[Len(list)] = Carried(list, s)
<1> DEFINE N == Len(list)
           step == [x \in (1..N) \X Nat |-> x[2] + Held(list[x[1]], s)]
           Body(iter) == [S \in SUBSET (DOMAIN list) |->
                            IF S = {} THEN 0
                            ELSE IF list[Max(S)].kind = "carrier" /\ list[Max(S)].stat = s
                                 THEN iter[S \ {Max(S)}] + list[Max(S)].old
                                 ELSE iter[S \ {Max(S)}]]
           C == CHOOSE iter : iter = Body(iter)
<1>1. Carried(list, s) = C[DOMAIN list]
  BY Zenon DEF Carried, FoldLeft, MapThenFoldSet
<1>2. N \in Nat /\ DOMAIN list = 1..N /\ \A n \in 1..N : Held(list[n], s) \in Nat
  BY ListFact, HeldFact
<1>3. step \in StepsOf(N, Nat)
  BY <1>2 DEF StepsOf
<1>4. \A n \in 1..N, v \in Nat : step[<<n, v>>] = v + Held(list[n], s)
  OBVIOUS
<1>5. ASSUME NEW n \in 1..N, NEW v \in Nat
      PROVE  step[<<n, v>>] = IF list[n].kind = "carrier" /\ list[n].stat = s
                              THEN v + list[n].old ELSE v
  <2> HIDE DEF N, step
  <2>1. CASE list[n].kind = "carrier" /\ list[n].stat = s
    <3>1. Held(list[n], s) = list[n].old
      BY <2>1 DEF Held
    <3> QED
      BY <1>4, <2>1, <3>1
  <2>2. CASE ~(list[n].kind = "carrier" /\ list[n].stat = s)
    <3>1. Held(list[n], s) = 0
      BY <2>2 DEF Held
    <3> QED
      BY <1>4, <2>2, <3>1
  <2> QED
    BY <2>1, <2>2
<1> HIDE DEF N, step
<1>6. PICK iter : Folding(iter, N, Nat, 0, step)
  BY <1>2, <1>3, FoldDefined
<1>7. \A U \in SUBSET (1..N) : U # {} => Max(U) \in 1..N /\ iter[U \ {Max(U)}] \in Nat
  BY <1>2, <1>6, MaxFact DEF Folding
<1>8. \A U \in SUBSET (1..N) : Folded(iter, step, 0, U) = Body(iter)[U]
  BY <1>2, <1>5, <1>7 DEF Folded, Rest
<1>9. iter = Body(iter)
  BY <1>2, <1>6, <1>8 DEF Folding
<1>10. C = Body(C)
  BY <1>9
<1> HIDE DEF C
<1>11. ASSUME NEW n \in 1..N, C[1..(n - 1)] \in Nat PROVE C[1..n] = step[<<n, C[1..(n - 1)]>>]
  <2>0. n \in Nat \ {0} /\ n <= N /\ n \in 1..n /\ N \in Nat
    BY <1>2
  <2>1. n \in Nat \ {0} /\ 1..n \in SUBSET (DOMAIN list) /\ 1..n # {}
    <3>1. \A i \in 1..n : i \in 1..N
      BY <2>0
    <3> QED
      BY <1>2, <2>0, <3>1
  <2>2. Max(1..n) = n /\ (1..n) \ {n} = 1..(n - 1)
    BY <2>1, MaxOfRange
  <2>3. C[1..n] = IF list[n].kind = "carrier" /\ list[n].stat = s
                  THEN C[1..(n - 1)] + list[n].old ELSE C[1..(n - 1)]
    BY <1>10, <2>1, <2>2
  <2> QED
    BY <1>5, <1>11, <2>3
<1>12. Steps(C, N, Nat, 0, step)
  BY <1>10, <1>11 DEF Steps
<1>13. PICK f : Walk(f, N, Nat, 0, step) /\ f[N] = C[1..N]
  BY <1>2, <1>3, <1>12, FoldWalks
<1>14. Sums(f, list, s)
  <2>1. \A n \in 1..N : f[n] = f[n - 1] + Held(list[n], s)
    <3>1. \A n \in 1..N : n - 1 \in 0..N
      BY <1>2
    <3> QED
      BY <1>4, <1>13, <3>1 DEF Walk
  <2> QED
    BY <1>13, <2>1 DEF Walk, Sums, N
<1> QED
  BY <1>1, <1>2, <1>13, <1>14 DEF N

LEMMA CarriedFact ==
    ASSUME NEW list \in Seq(Entries), NEW s
    PROVE  Carried(list, s) \in Nat
<1>1. PICK f : Sums(f, list, s) /\ f[Len(list)] = Carried(list, s)
  BY CarriedSums
<1> QED
  BY <1>1, ListFact DEF Sums

\* Records that carry the same, place by place, sum to the same.
LEMMA SumsAgree ==
    ASSUME NEW l \in Seq(Entries), NEW m \in Seq(Entries), NEW s, NEW f, NEW g,
           Sums(f, l, s), Sums(g, m, s), NEW k \in Nat, k <= Len(l), k <= Len(m),
           \A i \in 1..k : Held(l[i], s) = Held(m[i], s)
    PROVE  f[k] = g[k]
<1> DEFINE T == {n \in Nat : n <= k => f[n] = g[n]}
<1>1. 0 \in T
  BY DEF Sums
<1>2. ASSUME NEW n \in Nat, n \in T PROVE n + 1 \in T
  <2> SUFFICES ASSUME n + 1 <= k PROVE f[n + 1] = g[n + 1]
    OBVIOUS
  <2>1. Len(l) \in Nat /\ Len(m) \in Nat
    BY ListFact
  <2>2. n + 1 \in 1..Len(l) /\ n + 1 \in 1..Len(m) /\ (n + 1) - 1 = n /\ n + 1 \in 1..k /\ f[n] = g[n]
    BY <1>2, <2>1
  <2>3. f[n + 1] = f[n] + Held(l[n + 1], s) /\ g[n + 1] = g[n] + Held(m[n + 1], s)
    BY <2>2 DEF Sums
  <2> QED
    BY <2>2, <2>3
<1>3. \A n \in Nat : n \in T
  <2> HIDE DEF T
  <2> QED BY <1>1, <1>2, CountingUp
<1> QED
  BY <1>3

LEMMA CarriedAlike ==
    ASSUME NEW l \in Seq(Entries), NEW m \in Seq(Entries), NEW s, Len(l) = Len(m),
           \A i \in 1..Len(l) : Held(l[i], s) = Held(m[i], s)
    PROVE  Carried(l, s) = Carried(m, s)
<1>1. PICK f : Sums(f, l, s) /\ f[Len(l)] = Carried(l, s)
  BY CarriedSums
<1>2. PICK g : Sums(g, m, s) /\ g[Len(m)] = Carried(m, s)
  BY CarriedSums
<1>3. Len(l) \in Nat /\ Len(l) <= Len(l) /\ Len(l) <= Len(m)
  BY ListFact
<1>4. f[Len(l)] = g[Len(l)]
  BY <1>1, <1>2, <1>3, SumsAgree
<1> QED
  BY <1>1, <1>2, <1>4

LEMMA AppendFact ==
    ASSUME NEW l \in Seq(Entries), NEW e \in Entries
    PROVE  /\ Append(l, e) \in Seq(Entries) /\ Len(Append(l, e)) = Len(l) + 1
           /\ \A i \in 1..Len(l) : Append(l, e)[i] = l[i]
           /\ Append(l, e)[Len(l) + 1] = e
           /\ DOMAIN Append(l, e) = 1..(Len(l) + 1)
OBVIOUS

LEMMA CarriedAppend ==
    ASSUME NEW l \in Seq(Entries), NEW e \in Entries, NEW s
    PROVE  Carried(Append(l, e), s) = Carried(l, s) + Held(e, s)
<1> DEFINE m == Append(l, e)
<1>1. /\ m \in Seq(Entries) /\ Len(m) = Len(l) + 1 /\ Len(l) \in Nat
      /\ \A i \in 1..Len(l) : m[i] = l[i]
      /\ m[Len(l) + 1] = e
  BY AppendFact, ListFact
<1> HIDE DEF m
<1>2. PICK f : Sums(f, l, s) /\ f[Len(l)] = Carried(l, s)
  BY CarriedSums
<1>3. PICK g : Sums(g, m, s) /\ g[Len(m)] = Carried(m, s)
  BY <1>1, CarriedSums
<1>4. Len(l) <= Len(l) /\ Len(l) <= Len(m) /\ \A i \in 1..Len(l) : Held(l[i], s) = Held(m[i], s)
  BY <1>1
<1>5. f[Len(l)] = g[Len(l)]
  BY <1>1, <1>2, <1>3, <1>4, SumsAgree
<1>6. Len(m) \in 1..Len(m) /\ Len(m) - 1 = Len(l)
  BY <1>1
<1>7. g[Len(m)] = g[Len(m) - 1] + Held(m[Len(m)], s)
  BY <1>3, <1>6 DEF Sums
<1> QED
  BY <1>1, <1>2, <1>3, <1>5, <1>6, <1>7 DEF m

\* The last class record of a stat.
IsSet(e, s) == e.kind = "set" /\ e.stat = s
LEMMA LastFact ==
    ASSUME NEW l \in Seq(Entries), NEW s, Sets(l, s) # {}
    PROVE  /\ Max(Sets(l, s)) \in Sets(l, s)
           /\ Max(Sets(l, s)) \in 1..Len(l)
           /\ \A i \in Sets(l, s) : i <= Max(Sets(l, s))
           /\ LastSet(l, s) = l[Max(Sets(l, s))]
           /\ LastSet(l, s) \in Entries /\ IsSet(LastSet(l, s), s)
<1> DEFINE U == Sets(l, s)
<1>1. Len(l) \in Nat /\ U \in SUBSET (1..Len(l)) /\ U # {}
  BY ListFact DEF Sets
<1>2. Max(U) \in U /\ \A y \in U : Max(U) >= y
  <2> HIDE DEF U
  <2> QED
    BY <1>1, MaxFact
<1>3. \A i \in U : i <= Max(U)
  <2> \A i \in U : i \in Int
    BY <1>1
  <2> QED
    BY <1>2
<1>4. Max(U) \in 1..Len(l)
  BY <1>1, <1>2
<1>5. l[Max(U)] \in Entries /\ IsSet(l[Max(U)], s)
  BY <1>2, <1>4, ListFact DEF Sets, IsSet
<1> QED
  BY <1>2, <1>3, <1>4, <1>5 DEF LastSet

LEMMA ReadFact ==
    ASSUME NEW l \in Seq(Entries), NEW s
    PROVE  /\ ReadActive(l, s) \in Nat /\ BaseOld(l, s) \in Nat /\ ReadOld(l, s) \in Nat
<1>1. Sets(l, s) # {} => LastSet(l, s) \in Entries
  BY LastFact
<1>2. ReadActive(l, s) \in Nat /\ BaseOld(l, s) \in Nat
  BY <1>1 DEF ReadActive, BaseOld, Entries
<1>3. Carried(l, s) \in Nat
  BY CarriedFact
<1> QED
  BY <1>2, <1>3, PipAssumption DEF ReadOld, Unreadable

\* What is read of an allocation that can be read.
LEMMA ReadableFact ==
    ASSUME NEW l \in Seq(Entries), NEW s
    PROVE  ReadOld(l, s) <= MaxPips <=>
             ~Unknown(l) /\ BaseOld(l, s) + Carried(l, s) <= MaxPips
<1>1. Carried(l, s) \in Nat /\ BaseOld(l, s) \in Nat
  BY CarriedFact, ReadFact
<1> QED
  BY <1>1, PipAssumption DEF ReadOld, Unreadable

\* A record at the tail is the one that is read, if it is of the stat.
LEMMA SetsAppend ==
    ASSUME NEW l \in Seq(Entries), NEW e \in Entries, NEW s
    PROVE  Sets(Append(l, e), s) = IF IsSet(e, s) THEN Sets(l, s) \cup {Len(l) + 1} ELSE Sets(l, s)
<1> DEFINE m == Append(l, e)
<1>1. /\ DOMAIN m = 1..(Len(l) + 1) /\ DOMAIN l = 1..Len(l) /\ Len(l) \in Nat
      /\ \A i \in 1..Len(l) : m[i] = l[i]
      /\ m[Len(l) + 1] = e
  BY AppendFact, ListFact
<1> HIDE DEF m
<1>2. \A i : i \in 1..(Len(l) + 1) <=> i \in 1..Len(l) \/ i = Len(l) + 1
  BY <1>1
<1>3. \A i : i \in Sets(m, s) <=> i \in Sets(l, s) \/ (i = Len(l) + 1 /\ IsSet(e, s))
  BY <1>1, <1>2 DEF Sets, IsSet
<1> QED
  BY <1>3 DEF m

LEMMA ReadAppend ==
    ASSUME NEW l \in Seq(Entries), NEW e \in Entries, NEW s
    PROVE  /\ ReadActive(Append(l, e), s) = IF IsSet(e, s) THEN e.act ELSE ReadActive(l, s)
           /\ BaseOld(Append(l, e), s) = IF IsSet(e, s) THEN e.old ELSE BaseOld(l, s)
           /\ Unknown(Append(l, e)) <=> Unknown(l) \/ e.kind = "alien"
<1> DEFINE m == Append(l, e)
<1>1. /\ m \in Seq(Entries) /\ DOMAIN m = 1..(Len(l) + 1) /\ DOMAIN l = 1..Len(l) /\ Len(l) \in Nat
      /\ \A i \in 1..Len(l) : m[i] = l[i]
      /\ m[Len(l) + 1] = e
  BY AppendFact, ListFact
<1>2. Sets(m, s) = IF IsSet(e, s) THEN Sets(l, s) \cup {Len(l) + 1} ELSE Sets(l, s)
  BY SetsAppend
<1> HIDE DEF m
<1>3. ASSUME IsSet(e, s) PROVE ReadActive(m, s) = e.act /\ BaseOld(m, s) = e.old
  <2>1. Sets(m, s) # {} /\ Len(l) + 1 \in Sets(m, s)
    BY <1>2, <1>3
  <2>2. /\ Max(Sets(m, s)) \in Sets(m, s)
        /\ \A i \in Sets(m, s) : i <= Max(Sets(m, s))
        /\ LastSet(m, s) = m[Max(Sets(m, s))]
    BY <1>1, <2>1, LastFact
  <2>3. \A i \in Sets(m, s) : i \in Nat /\ i <= Len(l) + 1
    BY <1>1 DEF Sets
  <2>4. Max(Sets(m, s)) = Len(l) + 1
    <3>1. Len(l) + 1 <= Max(Sets(m, s))
      BY <2>1, <2>2
    <3>2. Max(Sets(m, s)) \in Nat /\ Max(Sets(m, s)) <= Len(l) + 1
      BY <2>2, <2>3
    <3> QED
      BY <1>1, <3>1, <3>2
  <2> QED
    BY <1>1, <1>3, <2>1, <2>2, <2>4 DEF ReadActive, BaseOld
<1>4. ASSUME ~IsSet(e, s)
      PROVE  ReadActive(m, s) = ReadActive(l, s) /\ BaseOld(m, s) = BaseOld(l, s)
  <2>1. Sets(m, s) = Sets(l, s)
    BY <1>2, <1>4
  <2>2. CASE Sets(l, s) = {}
    BY <1>4, <2>1, <2>2 DEF ReadActive, BaseOld
  <2>3. CASE Sets(l, s) # {}
    <3>1. Max(Sets(l, s)) \in 1..Len(l)
      BY <2>3, LastFact
    <3>2. LastSet(m, s) = LastSet(l, s)
      BY <1>1, <2>1, <3>1 DEF LastSet
    <3> QED
      BY <1>4, <2>1, <2>3, <3>2 DEF ReadActive, BaseOld
  <2> QED
    BY <2>2, <2>3
<1>5. Unknown(m) <=> Unknown(l) \/ e.kind = "alien"
  <2>1. \A i : i \in 1..(Len(l) + 1) <=> i \in 1..Len(l) \/ i = Len(l) + 1
    BY <1>1
  <2> QED
    BY <1>1, <2>1 DEF Unknown
<1>6. /\ ReadActive(m, s) = IF IsSet(e, s) THEN e.act ELSE ReadActive(l, s)
      /\ BaseOld(m, s) = IF IsSet(e, s) THEN e.old ELSE BaseOld(l, s)
  <2> HIDE DEF IsSet
  <2> QED
    BY <1>3, <1>4
<1> QED
  BY <1>5, <1>6 DEF m

\* Lists whose records differ in nothing the old class reads.
OldAlike(l, m) ==
    /\ Len(l) = Len(m)
    /\ \A i \in 1..Len(l) : l[i].kind = m[i].kind /\ l[i].stat = m[i].stat /\ l[i].old = m[i].old
ActAlike(l, m) == \A i \in 1..Len(l) : l[i].act = m[i].act

LEMMA AlikeFact ==
    ASSUME NEW l \in Seq(Entries), NEW m \in Seq(Entries), NEW s, OldAlike(l, m)
    PROVE  /\ Sets(l, s) = Sets(m, s) /\ BaseOld(l, s) = BaseOld(m, s)
           /\ Carried(l, s) = Carried(m, s) /\ (Unknown(l) <=> Unknown(m))
           /\ ReadOld(l, s) = ReadOld(m, s)
           /\ ActAlike(l, m) => ReadActive(l, s) = ReadActive(m, s)
<1>1. DOMAIN l = 1..Len(l) /\ DOMAIN m = 1..Len(l)
  BY ListFact DEF OldAlike
<1>2. Sets(l, s) = Sets(m, s)
  BY <1>1 DEF Sets, OldAlike
<1>3. Sets(l, s) # {} => Max(Sets(l, s)) \in 1..Len(l)
  BY LastFact
<1>4. BaseOld(l, s) = BaseOld(m, s)
  BY <1>2, <1>3 DEF BaseOld, LastSet, OldAlike
<1>5. ActAlike(l, m) => ReadActive(l, s) = ReadActive(m, s)
  BY <1>2, <1>3 DEF ReadActive, LastSet, ActAlike
<1>6. Unknown(l) <=> Unknown(m)
  BY <1>1 DEF Unknown, OldAlike
<1>7. Len(l) = Len(m) /\ \A i \in 1..Len(l) : Held(l[i], s) = Held(m[i], s)
  BY DEF OldAlike, Held
<1>8. Carried(l, s) = Carried(m, s)
  BY <1>7, CarriedAlike
<1>9. ReadOld(l, s) = ReadOld(m, s)
  BY <1>4, <1>6, <1>8 DEF ReadOld
<1> QED
  BY <1>2, <1>4, <1>5, <1>6, <1>8, <1>9
-----------------------------------------------------------------------------
(* Nodes: a new record has one of its own.                                  *)

LEMMA FreeNumber ==
    ASSUME NEW S, IsFiniteSet(S), NEW n \in Nat, Cardinality(S) <= n
    PROVE  \E k \in 1..(n + 1) : k \notin S
<1> SUFFICES ASSUME 1..(n + 1) \in SUBSET S PROVE FALSE
  OBVIOUS
<1>1. Cardinality(1..(n + 1)) <= Cardinality(S)
  BY FS_Subset
<1>2. Cardinality(1..(n + 1)) = n + 1
  <2>1. 1 \in Int /\ n + 1 \in Int /\ ~(1 > n + 1) /\ (n + 1) - 1 + 1 = n + 1
    OBVIOUS
  <2> QED
    BY <2>1, FS_Interval
<1>3. Cardinality(S) \in Nat
  BY FS_CardinalityType
<1> QED
  BY <1>1, <1>2, <1>3

LEMMA NodesFinite ==
    ASSUME NEW l \in Seq(Entries)
    PROVE  IsFiniteSet(Nodes(l)) /\ Cardinality(Nodes(l)) <= Len(l)
<1> DEFINE f == [i \in 1..Len(l) |-> l[i].node]
<1>1. Len(l) \in Nat /\ DOMAIN l = 1..Len(l)
  BY ListFact
<1>2. f \in Surjection(1..Len(l), Nodes(l))
  BY <1>1 DEF Surjection, Nodes
<1>3. IsFiniteSet(1..Len(l))
  BY <1>1, FS_Interval
<1>4. IsFiniteSet(Nodes(l))
  BY <1>2, <1>3, FS_Surjection
<1>5. Cardinality(Nodes(l)) <= Len(l)
  <2>1. ExistsSurjection(1..Len(l), Nodes(l))
    BY <1>2 DEF ExistsSurjection
  <2> QED
    BY <1>1, <2>1, FS_SurjCardinalityBound
<1> QED
  BY <1>4, <1>5

LEMMA FreshFact ==
    ASSUME NEW l \in Seq(Entries)
    PROVE  FreshNode(l) \in Nat /\ FreshNode(l) \notin Nodes(l)
<1>1. Len(l) \in Nat
  BY ListFact
<1>2. \E k \in 1..(Len(l) + 1) : k \notin Nodes(l)
  BY <1>1, NodesFinite, FreeNumber
<1>3. FreshNode(l) \in 1..(Len(l) + 1) /\ FreshNode(l) \notin Nodes(l)
  BY <1>2 DEF FreshNode
<1> QED
  BY <1>1, <1>3

LEMMA ListsFact ==
    ASSUME NEW l \in Lists
    PROVE  /\ l \in Seq(Entries)
           /\ \A i, j \in 1..Len(l) : l[i].node = l[j].node => i = j
BY ListFact DEF Lists

LEMMA ListsIntro ==
    ASSUME NEW l \in Seq(Entries), \A i, j \in 1..Len(l) : l[i].node = l[j].node => i = j
    PROVE  l \in Lists
BY ListFact DEF Lists

LEMMA NodesFact ==
    ASSUME NEW l \in Seq(Entries)
    PROVE  \A k : k \in Nodes(l) <=> \E i \in 1..Len(l) : l[i].node = k
BY ListFact DEF Nodes

LEMMA AppendDistinct ==
    ASSUME NEW l \in Lists, NEW e \in Entries, e.node \notin Nodes(l)
    PROVE  Append(l, e) \in Lists
<1> DEFINE m == Append(l, e)
<1>1. l \in Seq(Entries) /\ Len(l) \in Nat
  BY ListsFact, ListFact
<1>2. /\ m \in Seq(Entries) /\ Len(m) = Len(l) + 1
      /\ \A i \in 1..Len(l) : m[i] = l[i]
      /\ m[Len(l) + 1] = e
  BY <1>1, AppendFact
<1> HIDE DEF m
<1>3. \A i \in 1..Len(m) : i \in 1..Len(l) \/ i = Len(l) + 1
  BY <1>1, <1>2
<1>4. \A i \in 1..Len(l) : m[i].node # e.node
  BY <1>1, <1>2, NodesFact
<1>5. \A i, j \in 1..Len(m) : m[i].node = m[j].node => i = j
  BY <1>2, <1>3, <1>4, ListsFact
<1> QED
  BY <1>2, <1>5, ListsIntro DEF m

\* A record the game recalculates keeps what it holds and gets a node that
\* neither the list nor the transaction has seen.
LEMMA ReplacedFact ==
    ASSUME NEW l \in Lists, NEW i \in 1..Len(l), IsFiniteSet(tx.recs)
    PROVE  LET m == Replaced(l, i)
           IN  /\ m \in Lists /\ OldAlike(l, m) /\ ActAlike(l, m)
               /\ \A j \in 1..Len(l) : j # i => m[j] = l[j]
               /\ m[i].node \notin Nodes(l)
               /\ \A r \in tx.recs : r.node # m[i].node
<1> DEFINE N == {r.node : r \in tx.recs}
           seen == Nodes(l) \cup N
           new == CHOOSE n \in 1..(Cardinality(seen) + 1) : n \notin seen
           e == [l[i] EXCEPT !.node = new]
           m == Replaced(l, i)
<1>1. l \in Seq(Entries) /\ Len(l) \in Nat /\ DOMAIN l = 1..Len(l) /\ l[i] \in Entries
  BY ListsFact, ListFact
<1>2. IsFiniteSet(N)
  <2> DEFINE f == [r \in tx.recs |-> r.node]
  <2>1. f \in Surjection(tx.recs, N)
    BY DEF Surjection
  <2> QED
    BY <2>1, FS_Surjection
<1>3. IsFiniteSet(seen) /\ Cardinality(seen) \in Nat
  BY <1>1, <1>2, NodesFinite, FS_Union, FS_CardinalityType
<1> HIDE DEF N
<1>4. \E n \in 1..(Cardinality(seen) + 1) : n \notin seen
  <2> HIDE DEF seen
  <2>1. Cardinality(seen) <= Cardinality(seen)
    BY <1>3
  <2> QED
    BY <1>3, <2>1, FreeNumber
<1>5. new \in Nat /\ new \notin seen
  <2> HIDE DEF seen
  <2>1. new \in 1..(Cardinality(seen) + 1) /\ new \notin seen
    BY <1>4
  <2> QED
    BY <1>3, <2>1
<1>6. m = [l EXCEPT ![i] = e]
  BY DEF Replaced, N
<1> HIDE DEF new, m
<1>7. /\ e \in Entries /\ e.node = new /\ e.kind = l[i].kind /\ e.stat = l[i].stat
      /\ e.act = l[i].act /\ e.old = l[i].old
  BY <1>1, <1>5 DEF Entries
<1> HIDE DEF e
<1>8. /\ m \in Seq(Entries) /\ Len(m) = Len(l)
      /\ m[i] = e /\ \A j \in 1..Len(l) : j # i => m[j] = l[j]
  BY <1>1, <1>6, <1>7
<1>9. OldAlike(l, m) /\ ActAlike(l, m)
  BY <1>7, <1>8 DEF OldAlike, ActAlike
<1>10. m[i].node \notin Nodes(l) /\ \A r \in tx.recs : r.node # m[i].node
  BY <1>5, <1>7, <1>8 DEF N
<1>11. \A j \in 1..Len(l) : l[j].node # m[i].node
  BY <1>1, <1>10, NodesFact
<1>12. \A j, k \in 1..Len(m) : m[j].node = m[k].node => j = k
  BY <1>8, <1>11, ListsFact
<1>13. m \in Lists
  BY <1>8, <1>12, ListsIntro
<1> QED
  BY <1>8, <1>9, <1>10, <1>13 DEF m
-----------------------------------------------------------------------------
(* Records that leave a list.                                               *)

Dropped(e, gone) == \E r \in gone : r.node = e.node
Keeps(f, list, gone) ==
    /\ f \in [0..Len(list) -> Seq(Entries)] /\ f[0] = <<>>
    /\ \A n \in 1..Len(list) :
         /\ Dropped(list[n], gone) => f[n] = f[n - 1]
         /\ ~Dropped(list[n], gone) => f[n] = Append(f[n - 1], list[n])

LEMMA WithoutKeeps ==
    ASSUME NEW list \in Seq(Entries), NEW gone
    PROVE  \E f : Keeps(f, list, gone) /\ f[Len(list)] = Without(list, gone)
<1> DEFINE N == Len(list)
           V == Seq(Entries)
           step == [x \in (1..N) \X V |->
                      IF Dropped(list[x[1]], gone) THEN x[2] ELSE Append(x[2], list[x[1]])]
           Body(iter) == [S \in SUBSET (DOMAIN list) |->
                            IF S = {} THEN <<>>
                            ELSE IF \E r \in gone : r.node = list[Max(S)].node
                                 THEN iter[S \ {Max(S)}]
                                 ELSE Append(iter[S \ {Max(S)}], list[Max(S)])]
           C == CHOOSE iter : iter = Body(iter)
<1>1. Without(list, gone) = C[DOMAIN list]
  BY Zenon DEF Without, FoldLeft, MapThenFoldSet
<1>2. N \in Nat /\ DOMAIN list = 1..N /\ \A n \in 1..N : list[n] \in Entries
  BY ListFact
<1>3. step \in StepsOf(N, V)
  BY <1>2 DEF StepsOf
<1>4. \A n \in 1..N, v \in V :
         step[<<n, v>>] = IF Dropped(list[n], gone) THEN v ELSE Append(v, list[n])
  OBVIOUS
<1> HIDE DEF N, step, V
<1>5. <<>> \in V
  BY DEF V
<1>6. PICK iter : Folding(iter, N, V, <<>>, step)
  BY <1>2, <1>3, <1>5, FoldDefined
<1>7. \A U \in SUBSET (1..N) : U # {} => Max(U) \in 1..N /\ iter[U \ {Max(U)}] \in V
  BY <1>2, <1>6, MaxFact DEF Folding
<1>8. \A U \in SUBSET (1..N) : Folded(iter, step, <<>>, U) = Body(iter)[U]
  BY <1>2, <1>4, <1>7 DEF Folded, Rest, Dropped
<1>9. iter = Body(iter)
  BY <1>2, <1>6, <1>8 DEF Folding
<1>10. C = Body(C)
  BY <1>9
<1> HIDE DEF C
<1>11. ASSUME NEW n \in 1..N, C[1..(n - 1)] \in V PROVE C[1..n] = step[<<n, C[1..(n - 1)]>>]
  <2>0. n \in Nat \ {0} /\ n <= N /\ n \in 1..n /\ N \in Nat
    BY <1>2
  <2>1. n \in Nat \ {0} /\ 1..n \in SUBSET (DOMAIN list) /\ 1..n # {}
    <3>1. \A i \in 1..n : i \in 1..N
      BY <2>0
    <3> QED
      BY <1>2, <2>0, <3>1
  <2>2. Max(1..n) = n /\ (1..n) \ {n} = 1..(n - 1)
    BY <2>1, MaxOfRange
  <2>3. C[1..n] = IF \E r \in gone : r.node = list[n].node
                  THEN C[1..(n - 1)] ELSE Append(C[1..(n - 1)], list[n])
    BY <1>10, <2>1, <2>2
  <2> QED
    BY <1>4, <1>11, <2>3 DEF Dropped
<1>12. Steps(C, N, V, <<>>, step)
  BY <1>10, <1>11 DEF Steps
<1>13. PICK f : Walk(f, N, V, <<>>, step) /\ f[N] = C[1..N]
  BY <1>2, <1>3, <1>5, <1>12, FoldWalks
<1>14. Keeps(f, list, gone)
  <2>1. \A n \in 1..N : f[n] = IF Dropped(list[n], gone) THEN f[n - 1] ELSE Append(f[n - 1], list[n])
    <3>1. \A n \in 1..N : n - 1 \in 0..N
      BY <1>2
    <3> QED
      BY <1>4, <1>13, <3>1 DEF Walk
  <2> QED
    BY <1>13, <2>1 DEF Walk, Keeps, N, V
<1> QED
  BY <1>1, <1>2, <1>13, <1>14 DEF N

\* Records at the tail leave, and the others are the list.
LEMMA WithoutTail ==
    ASSUME NEW list \in Seq(Entries), NEW gone, NEW k \in Nat, k <= Len(list),
           \A i \in 1..Len(list) : Dropped(list[i], gone) <=> i > k
    PROVE  LET m == Without(list, gone)
           IN  m \in Seq(Entries) /\ Len(m) = k /\ \A i \in 1..k : m[i] = list[i]
<1>1. PICK f : Keeps(f, list, gone) /\ f[Len(list)] = Without(list, gone)
  BY WithoutKeeps
<1>2. Len(list) \in Nat /\ \A i \in 1..Len(list) : list[i] \in Entries
  BY ListFact
<1> DEFINE Up(n) == IF n <= k THEN n ELSE k
           T == {n \in Nat : n <= Len(list) =>
                    Len(f[n]) = Up(n) /\ \A i \in 1..Up(n) : f[n][i] = list[i]}
<1>3. 0 \in T
  BY <1>1 DEF Keeps
<1>4. ASSUME NEW n \in Nat, n \in T PROVE n + 1 \in T
  <2> SUFFICES ASSUME n + 1 <= Len(list)
               PROVE  /\ Len(f[n + 1]) = Up(n + 1)
                      /\ \A i \in 1..Up(n + 1) : f[n + 1][i] = list[i]
    OBVIOUS
  <2>1. /\ n + 1 \in 1..Len(list) /\ (n + 1) - 1 = n /\ n \in 0..Len(list)
        /\ Len(f[n]) = Up(n) /\ \A i \in 1..Up(n) : f[n][i] = list[i]
    BY <1>2, <1>4
  <2>2. f[n] \in Seq(Entries) /\ list[n + 1] \in Entries
    BY <1>1, <1>2, <2>1 DEF Keeps
  <2>3. CASE n + 1 > k
    <3>1. f[n + 1] = f[n] /\ Up(n + 1) = Up(n)
      BY <1>1, <2>1, <2>3 DEF Keeps
    <3> QED
      BY <2>1, <3>1
  <2>4. CASE n + 1 <= k
    <3>1. f[n + 1] = Append(f[n], list[n + 1])
      BY <1>1, <2>1, <2>4 DEF Keeps
    <3>2. Len(f[n]) = n /\ \A i \in 1..n : f[n][i] = list[i]
      BY <2>1, <2>4
    <3>3. /\ Len(f[n + 1]) = n + 1 /\ f[n + 1][n + 1] = list[n + 1]
          /\ \A i \in 1..n : f[n + 1][i] = f[n][i]
      BY <2>2, <3>1, <3>2, AppendFact
    <3>4. \A i \in 1..(n + 1) : i \in 1..n \/ i = n + 1
      OBVIOUS
    <3> QED
      BY <2>4, <3>2, <3>3, <3>4
  <2> QED
    BY <2>3, <2>4
<1>5. \A n \in Nat : n \in T
  <2> HIDE DEF T
  <2> QED BY <1>3, <1>4, CountingUp
<1>6. Up(Len(list)) = k
  BY <1>2
<1>7. f[Len(list)] \in Seq(Entries)
  BY <1>1, <1>2 DEF Keeps
<1> QED
  BY <1>1, <1>2, <1>5, <1>6, <1>7

Upto(list, n) == [i \in 1..n |-> list[i]]
LEMMA UptoFact ==
    ASSUME NEW list \in Seq(Entries), NEW n \in 0..Len(list)
    PROVE  /\ Upto(list, n) \in Seq(Entries)
           /\ n = 0 => Upto(list, n) = <<>>
           /\ n = Len(list) => Upto(list, n) = list
           /\ n # 0 => Upto(list, n) = Append(Upto(list, n - 1), list[n])
<1>1. Len(list) \in Nat /\ n \in Nat /\ \A i \in 1..n : list[i] \in Entries
  BY ListFact
<1>2. Upto(list, n) \in Seq(Entries)
  BY <1>1 DEF Upto
<1>3. n = 0 => Upto(list, n) = <<>>
  <2>1. 1..0 = {}
    OBVIOUS
  <2> QED
    BY <2>1 DEF Upto
<1>4. n = Len(list) => Upto(list, n) = list
  BY DEF Upto
<1>5. ASSUME n # 0 PROVE Upto(list, n) = Append(Upto(list, n - 1), list[n])
  <2>1. n - 1 \in Nat /\ \A i \in 1..(n - 1) : list[i] \in Entries
    BY <1>1, <1>5
  <2>2. Upto(list, n - 1) \in Seq(Entries) /\ Len(Upto(list, n - 1)) = n - 1 /\ list[n] \in Entries
    BY <1>1, <1>5, <2>1 DEF Upto
  <2> QED
    BY <1>1, <1>2, <1>5, <2>1, <2>2 DEF Upto
<1> QED
  BY <1>2, <1>3, <1>4, <1>5

\* Records that are not class records leave the active pips as they are.
LEMMA WithoutReads ==
    ASSUME NEW list \in Lists, NEW gone, NEW s,
           \A i \in 1..Len(list) : Dropped(list[i], gone) => list[i].kind # "set"
    PROVE  LET m == Without(list, gone)
           IN  m \in Lists /\ ReadActive(m, s) = ReadActive(list, s)
<1>0. list \in Seq(Entries)
  BY ListsFact
<1>1. PICK f : Keeps(f, list, gone) /\ f[Len(list)] = Without(list, gone)
  BY <1>0, WithoutKeeps
<1>2. Len(list) \in Nat /\ \A i \in 1..Len(list) : list[i] \in Entries
  BY <1>0, ListFact
<1> DEFINE T == {n \in Nat : n <= Len(list) =>
                    /\ f[n] \in Lists
                    /\ \A k \in Nodes(f[n]) : \E j \in 1..n : list[j].node = k
                    /\ ReadActive(f[n], s) = ReadActive(Upto(list, n), s)}
<1>3. 0 \in T
  <2>1. f[0] = <<>> /\ Upto(list, 0) = <<>>
    BY <1>0, <1>1, <1>2, UptoFact DEF Keeps
  <2>2. <<>> \in Lists /\ Nodes(<<>>) = {}
    BY DEF Lists, Nodes
  <2> QED
    BY <2>1, <2>2
<1>4. ASSUME NEW n \in Nat, n \in T PROVE n + 1 \in T
  <2> SUFFICES ASSUME n + 1 <= Len(list)
               PROVE  /\ f[n + 1] \in Lists
                      /\ \A k \in Nodes(f[n + 1]) : \E j \in 1..(n + 1) : list[j].node = k
                      /\ ReadActive(f[n + 1], s) = ReadActive(Upto(list, n + 1), s)
    OBVIOUS
  <2>1. /\ n + 1 \in 1..Len(list) /\ (n + 1) - 1 = n /\ n \in 0..Len(list) /\ n + 1 \in 0..Len(list)
        /\ f[n] \in Lists /\ \A k \in Nodes(f[n]) : \E j \in 1..n : list[j].node = k
        /\ ReadActive(f[n], s) = ReadActive(Upto(list, n), s)
    BY <1>2, <1>4
  <2>2. f[n] \in Seq(Entries) /\ list[n + 1] \in Entries
    BY <1>2, <2>1, ListsFact
  <2>3. /\ Upto(list, n) \in Seq(Entries)
        /\ Upto(list, n + 1) = Append(Upto(list, n), list[n + 1])
    BY <1>0, <2>1, UptoFact
  <2>4. ReadActive(Upto(list, n + 1), s) =
          IF IsSet(list[n + 1], s) THEN list[n + 1].act ELSE ReadActive(Upto(list, n), s)
    <3> DEFINE l == Upto(list, n)
               e == list[n + 1]
    <3>1. l \in Seq(Entries) /\ e \in Entries /\ Upto(list, n + 1) = Append(l, e)
      BY <2>2, <2>3
    <3> HIDE DEF l, e
    <3>2. ReadActive(Append(l, e), s) = IF IsSet(e, s) THEN e.act ELSE ReadActive(l, s)
      BY <3>1, ReadAppend, Zenon
    <3> QED
      BY <3>1, <3>2, Zenon DEF l, e
  <2>5. CASE Dropped(list[n + 1], gone)
    <3>1. f[n + 1] = f[n]
      BY <1>1, <2>1, <2>5 DEF Keeps
    <3>2. ~IsSet(list[n + 1], s)
      BY <2>1, <2>5 DEF IsSet
    <3>3. \A j \in 1..n : j \in 1..(n + 1)
      OBVIOUS
    <3> QED
      BY <2>1, <2>4, <3>1, <3>2, <3>3
  <2>6. CASE ~Dropped(list[n + 1], gone)
    <3>1. f[n + 1] = Append(f[n], list[n + 1])
      BY <1>1, <2>1, <2>6 DEF Keeps
    <3>2. \A j \in 1..n : j \in 1..Len(list) /\ j # n + 1 /\ j \in 1..(n + 1)
      BY <2>1
    <3>3. list[n + 1].node \notin Nodes(f[n])
      BY <2>1, <3>2, ListsFact
    <3>4. f[n + 1] \in Lists
      BY <2>1, <2>2, <3>1, <3>3, AppendDistinct
    <3>5. ReadActive(f[n + 1], s) = IF IsSet(list[n + 1], s) THEN list[n + 1].act ELSE ReadActive(f[n], s)
      BY <2>2, <3>1, ReadAppend
    <3>6. ASSUME NEW k \in Nodes(f[n + 1]) PROVE \E j \in 1..(n + 1) : list[j].node = k
      <4>1. /\ Len(f[n]) \in Nat /\ Len(f[n + 1]) = Len(f[n]) + 1 /\ f[n + 1] \in Seq(Entries)
            /\ f[n + 1][Len(f[n]) + 1] = list[n + 1]
            /\ \A i \in 1..Len(f[n]) : f[n + 1][i] = f[n][i]
        BY <2>2, <3>1, AppendFact, ListFact
      <4>2. PICK i \in 1..Len(f[n + 1]) : f[n + 1][i].node = k
        BY <4>1, NodesFact
      <4>3. CASE i = Len(f[n]) + 1
        BY <2>1, <4>1, <4>2, <4>3
      <4>4. CASE i \in 1..Len(f[n])
        <5>1. k \in Nodes(f[n])
          BY <2>2, <4>1, <4>2, <4>4, NodesFact
        <5> QED
          BY <2>1, <3>2, <5>1
      <4> QED
        BY <4>1, <4>3, <4>4
    <3> QED
      BY <2>1, <2>4, <3>4, <3>5, <3>6
  <2> QED
    BY <2>5, <2>6
<1>5. \A n \in Nat : n \in T
  <2> HIDE DEF T
  <2> QED BY <1>3, <1>4, CountingUp
<1>6. Upto(list, Len(list)) = list
  <2>1. Len(list) \in 0..Len(list)
    BY <1>2
  <2> QED
    BY <1>0, <2>1, UptoFact
<1> QED
  BY <1>1, <1>2, <1>5, <1>6
-----------------------------------------------------------------------------
(* Records that join a list, one for each stat of a set.                    *)

Order(q, S) ==
    /\ Cardinality(S) \in Nat /\ DOMAIN q = 1..Cardinality(S)
    /\ \A i \in 1..Cardinality(S) : q[i] \in S
    /\ \A i, j \in 1..Cardinality(S) : q[i] = q[j] => i = j
    /\ \A s \in S : \E i \in 1..Cardinality(S) : q[i] = s
LEMMA OrderFact ==
    ASSUME NEW S, IsFiniteSet(S)
    PROVE  Order(SetToSeq(S), S)
<1> DEFINE N == Cardinality(S)
           q == SetToSeq(S)
<1>1. N \in Nat /\ ExistsBijection(1..N, S)
  BY FS_CardinalityType
<1>2. PICK g \in [1..N -> S] : \A i, j \in 1..N : g[i] = g[j] => i = j
  BY <1>1 DEF ExistsBijection, Bijection, Injection, IsInjective
<1>3. IsInjective(g)
  BY <1>2 DEF IsInjective
<1>4. q \in [1..N -> S] /\ IsInjective(q)
  BY <1>2, <1>3 DEF SetToSeq
<1> HIDE DEF q
<1>5. \A i, j \in 1..N : q[i] = q[j] => i = j
  BY <1>4 DEF IsInjective
<1>6. q \in Injection(1..N, S)
  BY <1>4, <1>5 DEF Injection
<1>7. Cardinality(1..N) = Cardinality(S)
  <2>1. 1 \in Int /\ N \in Int
    BY <1>1
  <2>2. Cardinality(1..N) = IF 1 > N THEN 0 ELSE N - 1 + 1
    BY <2>1, FS_Interval
  <2> QED
    BY <1>1, <2>2
<1>8. q \in Surjection(1..N, S)
  BY <1>6, <1>7, FS_Injection
<1>9. \A s \in S : \E i \in 1..N : q[i] = s
  BY <1>8 DEF Surjection
<1> QED
  BY <1>1, <1>4, <1>5, <1>9 DEF Order, q

IsCarrier(e, s, pips) == e.kind = "carrier" /\ e.stat = s /\ e.old = pips
LEMMA NewCarrierFact ==
    ASSUME NEW l \in Lists, NEW s \in Stats, NEW pips \in Nat
    PROVE  LET e == NewCarrier(l, s, pips)
           IN  e \in Entries /\ IsCarrier(e, s, pips) /\ Append(l, e) \in Lists
<1>1. FreshNode(l) \in Nat /\ FreshNode(l) \notin Nodes(l)
  BY ListsFact, FreshFact
<1>2. LET e == NewCarrier(l, s, pips)
      IN  e \in Entries /\ IsCarrier(e, s, pips) /\ e.node \notin Nodes(l)
  BY <1>1 DEF NewCarrier, Entries, IsCarrier
<1> QED
  BY <1>2, AppendDistinct

LEMMA NewSetFact ==
    ASSUME NEW l \in Lists, NEW s \in Stats, NEW pips \in Nat
    PROVE  LET e == NewSet(l, s, pips)
           IN  /\ e \in Entries /\ IsSet(e, s) /\ e.act = pips /\ e.old = 0
               /\ e.node \notin Nodes(l)
               /\ Append(l, e) \in Lists
<1>1. FreshNode(l) \in Nat /\ FreshNode(l) \notin Nodes(l)
  BY ListsFact, FreshFact
<1>2. LET e == NewSet(l, s, pips)
      IN  e \in Entries /\ IsSet(e, s) /\ e.act = pips /\ e.old = 0 /\ e.node \notin Nodes(l)
  BY <1>1 DEF NewSet, Entries, IsSet
<1> QED
  BY <1>2, AppendDistinct

\* The walk of AddCarriers.
Carries(f, list, rows, q, N) ==
    /\ f \in [0..N -> Lists] /\ f[0] = list
    /\ \A n \in 1..N : f[n] = Append(f[n - 1], NewCarrier(f[n - 1], q[n], rows[q[n]]))

LEMMA AddCarriersWalk ==
    ASSUME NEW list \in Lists, NEW rows \in [Stats -> Nat], NEW stats \in SUBSET Stats
    PROVE  LET q == SetToSeq(stats)
               N == Cardinality(stats)
           IN  Order(q, stats) /\ \E f : Carries(f, list, rows, q, N) /\ f[N] = AddCarriers(list, rows, stats)
<1> DEFINE q == SetToSeq(stats)
           N == Cardinality(stats)
           V == Lists
           step == [x \in (1..N) \X V |-> Append(x[2], NewCarrier(x[2], q[x[1]], rows[q[x[1]]]))]
           Body(iter) == [S \in SUBSET (DOMAIN q) |->
                            IF S = {} THEN list
                            ELSE Append(iter[S \ {Max(S)}],
                                        NewCarrier(iter[S \ {Max(S)}], q[Max(S)], rows[q[Max(S)]]))]
           C == CHOOSE iter : iter = Body(iter)
<1>1. AddCarriers(list, rows, stats) = C[DOMAIN q]
  BY Zenon DEF AddCarriers, FoldLeft, MapThenFoldSet
<1>2. Order(q, stats)
  BY OrderFact, FS_Subset, PipAssumption
<1> HIDE DEF q
<1>3. N \in Nat /\ DOMAIN q = 1..N /\ \A n \in 1..N : q[n] \in Stats /\ rows[q[n]] \in Nat
  BY <1>2 DEF Order
<1>4. step \in StepsOf(N, V)
  BY <1>3, NewCarrierFact DEF StepsOf
<1>5. \A n \in 1..N, v \in V : step[<<n, v>>] = Append(v, NewCarrier(v, q[n], rows[q[n]]))
  OBVIOUS
<1> HIDE DEF N, step
<1>6. PICK iter : Folding(iter, N, V, list, step)
  BY <1>3, <1>4, FoldDefined
<1>7. \A U \in SUBSET (1..N) : U # {} => Max(U) \in 1..N /\ iter[U \ {Max(U)}] \in V
  BY <1>3, <1>6, MaxFact DEF Folding
<1> HIDE DEF V
<1>8. \A U \in SUBSET (1..N) : Folded(iter, step, list, U) = Body(iter)[U]
  BY <1>3, <1>5, <1>7 DEF Folded, Rest
<1>9. iter = Body(iter)
  BY <1>3, <1>6, <1>8 DEF Folding
<1>10. C = Body(C)
  BY <1>9
<1> HIDE DEF C
<1>11. ASSUME NEW n \in 1..N, C[1..(n - 1)] \in V PROVE C[1..n] = step[<<n, C[1..(n - 1)]>>]
  <2>0. n \in Nat \ {0} /\ n <= N /\ n \in 1..n /\ N \in Nat
    BY <1>3
  <2>1. n \in Nat \ {0} /\ 1..n \in SUBSET (DOMAIN q) /\ 1..n # {}
    <3>1. \A i \in 1..n : i \in 1..N
      BY <2>0
    <3> QED
      BY <1>3, <2>0, <3>1
  <2>2. Max(1..n) = n /\ (1..n) \ {n} = 1..(n - 1)
    BY <2>1, MaxOfRange
  <2>3. C[1..n] = Append(C[1..(n - 1)], NewCarrier(C[1..(n - 1)], q[n], rows[q[n]]))
    BY <1>10, <2>1, <2>2
  <2> QED
    BY <1>5, <1>11, <2>3
<1>12. Steps(C, N, V, list, step)
  BY <1>10, <1>11 DEF Steps
<1>13. PICK f : Walk(f, N, V, list, step) /\ f[N] = C[1..N]
  BY <1>3, <1>4, <1>12, FoldWalks DEF V
<1>14. Carries(f, list, rows, q, N)
  <2>1. \A n \in 1..N : f[n] = Append(f[n - 1], NewCarrier(f[n - 1], q[n], rows[q[n]]))
    <3>1. \A n \in 1..N : n - 1 \in 0..N
      BY <1>3
    <3> QED
      BY <1>5, <1>13, <3>1 DEF Walk
  <2> QED
    BY <1>13, <2>1 DEF Walk, Carries, V
<1> QED
  BY <1>1, <1>2, <1>3, <1>13, <1>14 DEF N, q

\* The walk of AddSets.
SetsOut(f, list, rows, q, N) ==
    /\ f \in [0..N -> Lists] /\ f[0] = list
    /\ \A n \in 1..N : f[n] = Append(f[n - 1], NewSet(f[n - 1], q[n], Delta(list, rows, q[n])))

LEMMA DeltaFact ==
    ASSUME NEW list \in Seq(Entries), NEW rows \in [Stats -> Nat], NEW s \in Stats
    PROVE  Delta(list, rows, s) \in Nat
BY CarriedFact DEF Delta

LEMMA AddSetsWalk ==
    ASSUME NEW list \in Lists, NEW rows \in [Stats -> Nat], NEW stats \in SUBSET Stats
    PROVE  LET q == SetToSeq(stats)
               N == Cardinality(stats)
           IN  Order(q, stats) /\ \E f : SetsOut(f, list, rows, q, N) /\ f[N] = AddSets(list, rows, stats)
<1> DEFINE q == SetToSeq(stats)
           N == Cardinality(stats)
           V == Lists
           step == [x \in (1..N) \X V |-> Append(x[2], NewSet(x[2], q[x[1]], Delta(list, rows, q[x[1]])))]
           Body(iter) == [S \in SUBSET (DOMAIN q) |->
                            IF S = {} THEN list
                            ELSE Append(iter[S \ {Max(S)}],
                                        NewSet(iter[S \ {Max(S)}], q[Max(S)],
                                               Delta(list, rows, q[Max(S)])))]
           C == CHOOSE iter : iter = Body(iter)
<1>1. AddSets(list, rows, stats) = C[DOMAIN q]
  BY Zenon DEF AddSets, FoldLeft, MapThenFoldSet
<1>2. Order(q, stats)
  BY OrderFact, FS_Subset, PipAssumption
<1> HIDE DEF q
<1>3. N \in Nat /\ DOMAIN q = 1..N /\ \A n \in 1..N : q[n] \in Stats
  BY <1>2 DEF Order
<1>4. step \in StepsOf(N, V)
  BY <1>3, NewSetFact, DeltaFact, ListsFact DEF StepsOf
<1>5. \A n \in 1..N, v \in V : step[<<n, v>>] = Append(v, NewSet(v, q[n], Delta(list, rows, q[n])))
  OBVIOUS
<1> HIDE DEF N, step
<1>6. PICK iter : Folding(iter, N, V, list, step)
  BY <1>3, <1>4, FoldDefined
<1>7. \A U \in SUBSET (1..N) : U # {} => Max(U) \in 1..N /\ iter[U \ {Max(U)}] \in V
  BY <1>3, <1>6, MaxFact DEF Folding
<1> HIDE DEF V
<1>8. \A U \in SUBSET (1..N) : Folded(iter, step, list, U) = Body(iter)[U]
  BY <1>3, <1>5, <1>7 DEF Folded, Rest
<1>9. iter = Body(iter)
  BY <1>3, <1>6, <1>8 DEF Folding
<1>10. C = Body(C)
  BY <1>9
<1> HIDE DEF C
<1>11. ASSUME NEW n \in 1..N, C[1..(n - 1)] \in V PROVE C[1..n] = step[<<n, C[1..(n - 1)]>>]
  <2>0. n \in Nat \ {0} /\ n <= N /\ n \in 1..n /\ N \in Nat
    BY <1>3
  <2>1. n \in Nat \ {0} /\ 1..n \in SUBSET (DOMAIN q) /\ 1..n # {}
    <3>1. \A i \in 1..n : i \in 1..N
      BY <2>0
    <3> QED
      BY <1>3, <2>0, <3>1
  <2>2. Max(1..n) = n /\ (1..n) \ {n} = 1..(n - 1)
    BY <2>1, MaxOfRange
  <2>3. C[1..n] = Append(C[1..(n - 1)], NewSet(C[1..(n - 1)], q[n], Delta(list, rows, q[n])))
    BY <1>10, <2>1, <2>2
  <2> QED
    BY <1>5, <1>11, <2>3
<1>12. Steps(C, N, V, list, step)
  BY <1>10, <1>11 DEF Steps
<1>13. PICK f : Walk(f, N, V, list, step) /\ f[N] = C[1..N]
  BY <1>3, <1>4, <1>12, FoldWalks DEF V
<1>14. SetsOut(f, list, rows, q, N)
  <2>1. \A n \in 1..N : f[n] = Append(f[n - 1], NewSet(f[n - 1], q[n], Delta(list, rows, q[n])))
    <3>1. \A n \in 1..N : n - 1 \in 0..N
      BY <1>3
    <3> QED
      BY <1>5, <1>13, <3>1 DEF Walk
  <2> QED
    BY <1>13, <2>1 DEF Walk, SetsOut, V
<1> QED
  BY <1>1, <1>2, <1>3, <1>13, <1>14 DEF N, q

LEMMA AddCarriersLists ==
    ASSUME NEW list \in Lists, NEW rows \in [Stats -> Nat], NEW stats \in SUBSET Stats
    PROVE  AddCarriers(list, rows, stats) \in Lists
<1> DEFINE q == SetToSeq(stats)
           N == Cardinality(stats)
<1>1. PICK f : Carries(f, list, rows, q, N) /\ f[N] = AddCarriers(list, rows, stats)
  BY AddCarriersWalk
<1>2. Order(q, stats)
  BY AddCarriersWalk
<1> HIDE DEF q
<1>3. N \in 0..N
  BY <1>2 DEF Order
<1> QED
  BY <1>1, <1>3 DEF Carries

\* What the carriers added for a set of stats add to the old class's pips.
LEMMA AddCarriersFact ==
    ASSUME NEW list \in Lists, NEW rows \in [Stats -> Nat], NEW stats \in SUBSET Stats, NEW s \in Stats
    PROVE  LET m == AddCarriers(list, rows, stats)
           IN  /\ m \in Lists /\ BaseOld(m, s) = BaseOld(list, s) /\ (Unknown(m) <=> Unknown(list))
               /\ Carried(m, s) = Carried(list, s) + IF s \in stats THEN rows[s] ELSE 0
<1> DEFINE q == SetToSeq(stats)
           N == Cardinality(stats)
<1>1. PICK f : Carries(f, list, rows, q, N) /\ f[N] = AddCarriers(list, rows, stats)
  BY AddCarriersWalk
<1>2. Order(q, stats)
  BY AddCarriersWalk
<1>3. Carried(list, s) \in Nat /\ rows[s] \in Nat
  BY ListsFact, CarriedFact
<1> HIDE DEF q
<1>4. N \in Nat /\ \A n \in 1..N : q[n] \in Stats /\ rows[q[n]] \in Nat
  BY <1>2 DEF Order
<1> HIDE DEF N
<1> DEFINE Gain(n) == IF \E j \in 1..n : q[j] = s THEN rows[s] ELSE 0
           Grown(l, n) ==
             /\ BaseOld(l, s) = BaseOld(list, s) /\ (Unknown(l) <=> Unknown(list))
             /\ Carried(l, s) = Carried(list, s) + Gain(n)
           T == {n \in Nat : n <= N => Grown(f[n], n)}
<1>5. 0 \in T
  <2>1. Gain(0) = 0 /\ f[0] = list
    BY <1>1 DEF Carries
  <2> HIDE DEF Gain
  <2> QED
    BY <1>3, <2>1
<1>6. ASSUME NEW n \in Nat, n \in T PROVE n + 1 \in T
  <2> SUFFICES ASSUME n + 1 <= N PROVE Grown(f[n + 1], n + 1)
    OBVIOUS
  <2> DEFINE e == NewCarrier(f[n], q[n + 1], rows[q[n + 1]])
  <2>1. n + 1 \in 1..N /\ (n + 1) - 1 = n /\ n \in 0..N /\ Grown(f[n], n)
    BY <1>4, <1>6
  <2>2. f[n] \in Lists /\ f[n] \in Seq(Entries) /\ f[n + 1] = Append(f[n], e)
    BY <1>1, <2>1, ListsFact DEF Carries
  <2>3. q[n + 1] \in Stats /\ rows[q[n + 1]] \in Nat
    BY <1>4, <2>1
  <2>4. e \in Entries /\ IsCarrier(e, q[n + 1], rows[q[n + 1]])
    <3>1. \A l \in Lists, t \in Stats, p \in Nat :
             LET c == NewCarrier(l, t, p)
             IN  c \in Entries /\ IsCarrier(c, t, p)
      BY NewCarrierFact
    <3>2. f[n] \in Lists
      BY <2>2
    <3> QED
      BY <2>3, <3>1, <3>2, Zenon
  <2> HIDE DEF e
  <2>5. ~IsSet(e, s) /\ e.kind # "alien" /\ Held(e, s) = IF q[n + 1] = s THEN rows[s] ELSE 0
    BY <2>4 DEF IsSet, Held, IsCarrier
  <2>6. BaseOld(f[n + 1], s) = BaseOld(list, s) /\ (Unknown(f[n + 1]) <=> Unknown(list))
    BY <2>1, <2>2, <2>4, <2>5, ReadAppend
  <2>7. Carried(f[n + 1], s) = Carried(f[n], s) + Held(e, s)
    BY <2>2, <2>4, CarriedAppend
  <2>8. Gain(n + 1) = Gain(n) + Held(e, s)
    <3>1. \A j \in 1..(n + 1) : j \in 1..n \/ j = n + 1
      OBVIOUS
    <3>2. \A j \in 1..n : j \in 1..(n + 1) /\ j \in 1..N /\ j # n + 1
      BY <1>4, <2>1
    <3>0. n + 1 \in 1..(n + 1)
      OBVIOUS
    <3>3. CASE q[n + 1] = s
      <4>1. \A j \in 1..n : q[j] # s
        BY <1>2, <2>1, <3>2, <3>3 DEF Order, N
      <4> QED
        BY <1>3, <2>5, <3>0, <3>3, <4>1
    <3>4. CASE q[n + 1] # s
      <4>1. (\E j \in 1..(n + 1) : q[j] = s) <=> (\E j \in 1..n : q[j] = s)
        BY <3>1, <3>2, <3>4
      <4>2. Gain(n + 1) = Gain(n) /\ Gain(n) \in Nat
        BY <1>3, <4>1
      <4> QED
        BY <2>5, <3>4, <4>2
    <3> QED
      BY <3>3, <3>4
  <2>9. Gain(n) \in Nat /\ Held(e, s) \in Nat
    BY <1>3, <2>4, HeldFact
  <2> HIDE DEF Gain
  <2> QED
    BY <1>3, <2>1, <2>6, <2>7, <2>8, <2>9
<1>7. \A n \in Nat : n \in T
  <2> HIDE DEF T
  <2> QED BY <1>5, <1>6, CountingUp
<1>8. Gain(N) = IF s \in stats THEN rows[s] ELSE 0
  BY <1>2 DEF Order, N
<1>9. N \in 0..N
  BY <1>4
<1>10. f[N] \in Lists
  BY <1>1, <1>9 DEF Carries
<1> HIDE DEF Gain
<1>11. Grown(f[N], N)
  BY <1>4, <1>7
<1> QED
  BY <1>1, <1>8, <1>10, <1>11

\* What the class records added for a set of stats give the active class.
LEMMA AddSetsFact ==
    ASSUME NEW list \in Lists, NEW rows \in [Stats -> Nat], NEW stats \in SUBSET Stats, NEW s
    PROVE  LET m == AddSets(list, rows, stats)
           IN  /\ m \in Lists /\ Len(list) <= Len(m)
               /\ \A i \in 1..Len(list) : m[i] = list[i]
               /\ ReadActive(m, s) = IF s \in stats THEN Delta(list, rows, s) ELSE ReadActive(list, s)
<1> DEFINE q == SetToSeq(stats)
           N == Cardinality(stats)
<1>1. PICK f : SetsOut(f, list, rows, q, N) /\ f[N] = AddSets(list, rows, stats)
  BY AddSetsWalk
<1>2. Order(q, stats)
  BY AddSetsWalk
<1> HIDE DEF q
<1>3. Len(list) \in Nat /\ list \in Seq(Entries)
  BY ListsFact, ListFact
<1>4. N \in Nat /\ \A n \in 1..N : q[n] \in Stats /\ Delta(list, rows, q[n]) \in Nat
  BY <1>2, <1>3, DeltaFact DEF Order
<1> HIDE DEF N
<1> DEFINE Read(n) == IF \E j \in 1..n : q[j] = s THEN Delta(list, rows, s) ELSE ReadActive(list, s)
           Grown(l, n) ==
             /\ Len(list) <= Len(l) /\ \A i \in 1..Len(list) : l[i] = list[i]
             /\ ReadActive(l, s) = Read(n)
           T == {n \in Nat : n <= N => Grown(f[n], n)}
<1>5. 0 \in T
  <2>1. Read(0) = ReadActive(list, s) /\ f[0] = list
    BY <1>1 DEF SetsOut
  <2> HIDE DEF Read
  <2> QED
    BY <1>3, <2>1
<1>6. ASSUME NEW n \in Nat, n \in T PROVE n + 1 \in T
  <2> SUFFICES ASSUME n + 1 <= N PROVE Grown(f[n + 1], n + 1)
    OBVIOUS
  <2> DEFINE e == NewSet(f[n], q[n + 1], Delta(list, rows, q[n + 1]))
  <2>1. n + 1 \in 1..N /\ (n + 1) - 1 = n /\ n \in 0..N /\ Grown(f[n], n)
    BY <1>4, <1>6
  <2>2. f[n] \in Lists /\ f[n] \in Seq(Entries) /\ f[n + 1] = Append(f[n], e) /\ Len(f[n]) \in Nat
    BY <1>1, <2>1, ListsFact, ListFact DEF SetsOut
  <2>3. q[n + 1] \in Stats /\ Delta(list, rows, q[n + 1]) \in Nat
    BY <1>4, <2>1
  <2>4. e \in Entries /\ IsSet(e, q[n + 1]) /\ e.act = Delta(list, rows, q[n + 1])
    <3>1. \A l \in Lists, t \in Stats, p \in Nat :
             LET c == NewSet(l, t, p)
             IN  c \in Entries /\ IsSet(c, t) /\ c.act = p
      BY NewSetFact
    <3>2. f[n] \in Lists
      BY <2>2
    <3> QED
      BY <2>3, <3>1, <3>2, Zenon
  <2> HIDE DEF e
  <2>5. IsSet(e, s) <=> q[n + 1] = s
    BY <2>4 DEF IsSet
  <2>6. ReadActive(f[n + 1], s) = IF IsSet(e, s) THEN e.act ELSE ReadActive(f[n], s)
    BY <2>2, <2>4, ReadAppend
  <2>7. Len(list) <= Len(f[n + 1]) /\ \A i \in 1..Len(list) : f[n + 1][i] = list[i]
    <3>1. Len(f[n + 1]) = Len(f[n]) + 1 /\ \A i \in 1..Len(f[n]) : f[n + 1][i] = f[n][i]
      BY <2>2, <2>4, AppendFact
    <3>2. Len(list) <= Len(f[n]) /\ \A i \in 1..Len(list) : f[n][i] = list[i]
      BY <2>1
    <3>3. \A i \in 1..Len(list) : i \in 1..Len(f[n])
      BY <1>3, <2>2, <3>2
    <3> QED
      BY <1>3, <2>2, <3>1, <3>2, <3>3
  <2>8. ReadActive(f[n + 1], s) = Read(n + 1)
    <3>1. \A j \in 1..(n + 1) : j \in 1..n \/ j = n + 1
      OBVIOUS
    <3>2. n + 1 \in 1..(n + 1) /\ \A j \in 1..n : j \in 1..(n + 1)
      OBVIOUS
    <3>3. CASE q[n + 1] = s
      BY <2>4, <2>5, <2>6, <3>2, <3>3
    <3>4. CASE q[n + 1] # s
      <4>1. (\E j \in 1..(n + 1) : q[j] = s) <=> (\E j \in 1..n : q[j] = s)
        BY <3>1, <3>2, <3>4
      <4>2. Read(n + 1) = Read(n)
        BY <4>1
      <4> QED
        BY <2>1, <2>5, <2>6, <3>4, <4>2
    <3> QED
      BY <3>3, <3>4
  <2> QED
    BY <2>7, <2>8
<1>7. \A n \in Nat : n \in T
  <2> HIDE DEF T
  <2> QED BY <1>5, <1>6, CountingUp
<1>8. Read(N) = IF s \in stats THEN Delta(list, rows, s) ELSE ReadActive(list, s)
  BY <1>2 DEF Order, N
<1>9. N \in 0..N
  BY <1>4
<1>10. f[N] \in Lists
  BY <1>1, <1>9 DEF SetsOut
<1> HIDE DEF Read
<1>11. Grown(f[N], N)
  BY <1>4, <1>7
<1> QED
  BY <1>1, <1>8, <1>10, <1>11
-----------------------------------------------------------------------------
(* What a transaction says of the records of its screen.  While it is whole *)
(* it frames the list the screen found: those records are in their places,  *)
(* the class records among them owned with the bits they had, and what came *)
(* after them is its own.  A record that is read for a stat has a floor.    *)

Transaction(t) == DOMAIN t = {"state", "recs"} /\ IsFiniteSet(t.recs)
Whole(A, t) == t.state = "applied" /\ \A r \in t.recs : Present(A, r)
Framed(A, O, t) ==
    /\ Len(O) <= Len(A)
    /\ \A i \in 1..Len(O) :
         /\ A[i].node = O[i].node /\ A[i].kind = O[i].kind /\ A[i].stat = O[i].stat
         /\ A[i].kind # "set" => A[i] = O[i]
         /\ A[i].kind = "set" => Owns(t, A[i])
         /\ \A r \in t.recs : r.node = A[i].node => ~r.created /\ r.act = O[i].act /\ r.old = O[i].old
    /\ \A i \in 1..Len(A) : i > Len(O) => \E r \in t.recs : r.created /\ r.node = A[i].node
AtLeast(A, t, s, n) ==
    /\ ReadActive(A, s) >= n
    /\ Sets(A, s) # {} =>
         \A r \in t.recs : r.node = LastSet(A, s).node => r.start \in Nat /\ r.start >= n

OwnedSet(I, l, m, c) == {Owned(l[i], m[i].act, c) : i \in I}
RecordFor(r, e, start, c) ==
    /\ r.node = e.node /\ r.kind = e.kind /\ r.stat = e.stat /\ r.act = e.act
    /\ r.old = e.old /\ r.start = start /\ r.created = c

LEMMA OwnedSetFact ==
    ASSUME NEW I, IsFiniteSet(I), NEW l, NEW m, NEW c
    PROVE  LET T == OwnedSet(I, l, m, c)
           IN  /\ IsFiniteSet(T)
               /\ \A x \in T : \E i \in I : RecordFor(x, l[i], m[i].act, c)
               /\ \A i \in I : \E x \in T : RecordFor(x, l[i], m[i].act, c)
<1> DEFINE T == OwnedSet(I, l, m, c)
           f == [i \in I |-> Owned(l[i], m[i].act, c)]
<1>1. f \in Surjection(I, T)
  BY DEF Surjection, OwnedSet
<1>2. IsFiniteSet(T)
  BY <1>1, FS_Surjection
<1>3. \A e, start : RecordFor(Owned(e, start, c), e, start, c)
  BY DEF Owned, RecordFor
<1>4. \A x \in T : \E i \in I : RecordFor(x, l[i], m[i].act, c)
  BY <1>3 DEF OwnedSet
<1>5. \A i \in I : Owned(l[i], m[i].act, c) \in T
  BY DEF OwnedSet
<1>6. \A i \in I : \E x \in T : RecordFor(x, l[i], m[i].act, c)
  BY <1>3, <1>5
<1> QED
  BY <1>2, <1>4, <1>6

LEMMA PresentFact ==
    ASSUME NEW A \in Lists, NEW r, Present(A, r), NEW i \in 1..Len(A), A[i].node = r.node
    PROVE  A[i].kind = r.kind /\ A[i].stat = r.stat
<1>1. DOMAIN A = 1..Len(A)
  BY ListsFact, ListFact
<1>2. PICK j \in 1..Len(A) : A[j].node = r.node /\ A[j].kind = r.kind /\ A[j].stat = r.stat
  BY <1>1 DEF Present
<1>3. j = i
  BY <1>2, ListsFact
<1> QED
  BY <1>2, <1>3

\* CBMDPC_BeginActivePreview owns every class record as it is.
LEMMA BeginFact ==
    ASSUME NEW list \in Lists
    PROVE  LET r == BeginActive(list)
           IN  /\ r.outcome = "ok" /\ r.list = list
               /\ Transaction(r.tx) /\ \A x \in r.tx.recs : x.kind = "set"
               /\ Framed(list, list, r.tx)
<1> DEFINE I == {i \in DOMAIN list : list[i].kind = "set"}
           recs == OwnedSet(I, list, list, FALSE)
           t == [state |-> "applied", recs |-> recs]
<1>1. list \in Seq(Entries) /\ Len(list) \in Nat /\ DOMAIN list = 1..Len(list)
  BY ListsFact, ListFact
<1>2. BeginActive(list).outcome = "ok" /\ BeginActive(list).list = list /\ BeginActive(list).tx = t
  BY DEF BeginActive, Result, OwnedSet
<1>3. IsFiniteSet(I)
  <2>1. IsFiniteSet(1..Len(list)) /\ I \in SUBSET (1..Len(list))
    BY <1>1, FS_Interval
  <2> HIDE DEF I
  <2> QED
    BY <2>1, FS_Subset
<1>4. /\ IsFiniteSet(recs)
      /\ \A x \in recs : \E i \in I : RecordFor(x, list[i], list[i].act, FALSE)
      /\ \A i \in I : \E x \in recs : RecordFor(x, list[i], list[i].act, FALSE)
  <2> HIDE DEF I
  <2> QED
    BY <1>3, OwnedSetFact
<1> HIDE DEF recs
<1>5. ASSUME NEW x \in recs
      PROVE  /\ x.kind = "set" /\ ~x.created
             /\ \E i \in 1..Len(list) : x.node = list[i].node /\ x.act = list[i].act /\ x.old = list[i].old
  <2>1. PICK i \in I : RecordFor(x, list[i], list[i].act, FALSE)
    BY <1>4
  <2> QED
    BY <1>1, <2>1 DEF RecordFor
<1>6. ASSUME NEW i \in 1..Len(list), list[i].kind = "set"
      PROVE  \E x \in recs : x.node = list[i].node
  <2>1. i \in I
    BY <1>1, <1>6
  <2> QED
    BY <1>4, <2>1 DEF RecordFor
<1>7. t.recs = recs /\ DOMAIN t = {"state", "recs"}
  OBVIOUS
<1> HIDE DEF t
<1>8. \A i \in 1..Len(list), x \in recs :
         x.node = list[i].node => ~x.created /\ x.act = list[i].act /\ x.old = list[i].old
  <2> SUFFICES ASSUME NEW i \in 1..Len(list), NEW x \in recs, x.node = list[i].node
               PROVE  ~x.created /\ x.act = list[i].act /\ x.old = list[i].old
    OBVIOUS
  <2>1. PICK j \in 1..Len(list) : x.node = list[j].node /\ x.act = list[j].act /\ x.old = list[j].old
    BY <1>5
  <2>2. i = j
    BY <2>1, ListsFact
  <2> QED
    BY <1>5, <2>1, <2>2
<1>9. Len(list) <= Len(list) /\ \A i \in 1..Len(list) : ~(i > Len(list))
  BY <1>1
<1>10. Framed(list, list, t)
  BY <1>6, <1>7, <1>8, <1>9 DEF Framed, Owns
<1> QED
  BY <1>2, <1>4, <1>5, <1>7, <1>10 DEF Transaction

\* CBMDPC_ApplyPreview: the records a merge leaves, without the ones it adds.
LEMMA MergedFact ==
    ASSUME NEW list \in Lists, NEW rows \in [Stats -> Nat]
    PROVE  LET m == Merged(list, rows)
           IN  /\ m \in Lists /\ Len(m) = Len(list)
               /\ \A i \in 1..Len(list) :
                    /\ m[i].node = list[i].node /\ m[i].kind = list[i].kind /\ m[i].stat = list[i].stat
                    /\ m[i].kind # "set" => m[i] = list[i]
                    /\ m[i].kind = "set" => m[i].act = MergedPips(list, rows, list[i])
               /\ \A s : Sets(m, s) = Sets(list, s) /\ Carried(m, s) = Carried(list, s)
<1> DEFINE m == Merged(list, rows)
           e(i) == IF list[i].kind = "set"
                   THEN [list[i] EXCEPT !.act = MergedPips(list, rows, list[i]), !.old = 0]
                   ELSE list[i]
<1>1. /\ list \in Seq(Entries) /\ Len(list) \in Nat /\ DOMAIN list = 1..Len(list)
      /\ \A i \in 1..Len(list) : list[i] \in Entries
  BY ListsFact, ListFact
<1>2. ASSUME NEW i \in 1..Len(list)
      PROVE  /\ e(i) \in Entries /\ e(i).node = list[i].node /\ e(i).kind = list[i].kind
             /\ e(i).stat = list[i].stat
             /\ e(i).kind # "set" => e(i) = list[i]
             /\ e(i).kind = "set" => e(i).act = MergedPips(list, rows, list[i])
  <2>1. list[i] \in Entries
    BY <1>1
  <2>2. list[i].stat \in Stats /\ list[i].act \in Nat /\ list[i].old \in Nat
    BY <2>1 DEF Entries
  <2>3. Delta(list, rows, list[i].stat) \in Nat
    BY <1>1, <2>2, DeltaFact
  <2>4. MergedPips(list, rows, list[i]) \in Nat
    BY <2>2, <2>3, PipAssumption DEF MergedPips, Most, Least
  <2> QED
    BY <2>1, <2>4 DEF Entries
<1>3. m = [i \in 1..Len(list) |-> e(i)]
  BY <1>1 DEF Merged
<1> HIDE DEF m, e
<1>4. m \in Seq(Entries) /\ Len(m) = Len(list) /\ \A i \in 1..Len(list) : m[i] = e(i)
  BY <1>1, <1>2, <1>3
<1>5. \A i, j \in 1..Len(m) : m[i].node = m[j].node => i = j
  BY <1>2, <1>4, ListsFact
<1>6. m \in Lists
  BY <1>4, <1>5, ListsIntro
<1>7. \A s : Sets(m, s) = Sets(list, s)
  <2>1. DOMAIN m = 1..Len(list)
    BY <1>4, ListFact
  <2> QED
    BY <1>1, <1>2, <1>4, <2>1 DEF Sets
<1>8. \A s : Carried(m, s) = Carried(list, s)
  <2> SUFFICES ASSUME NEW s PROVE Carried(m, s) = Carried(list, s)
    OBVIOUS
  <2>1. \A i \in 1..Len(m) : Held(m[i], s) = Held(list[i], s)
    <3> SUFFICES ASSUME NEW i \in 1..Len(m) PROVE Held(m[i], s) = Held(list[i], s)
      OBVIOUS
    <3>1. /\ m[i].kind = list[i].kind /\ m[i].stat = list[i].stat
          /\ m[i].kind # "set" => m[i] = list[i]
      BY <1>2, <1>4
    <3> QED
      BY <3>1 DEF Held
  <2> QED
    BY <1>1, <1>4, <2>1, CarriedAlike
<1> QED
  BY <1>2, <1>4, <1>6, <1>7, <1>8 DEF m

\* CBMDPC_ApplyPreview: a merge that succeeds frames the list it found and
\* gives every stat at least what the old class had and chose.
LEMMA MergeFact ==
    ASSUME NEW list \in Lists, NEW rows \in [Stats -> Nat], NEW made, NEW added
    PROVE  LET r == ApplyPreview(list, rows, made, added)
           IN  /\ Transaction(r.tx)
               /\ r.outcome = "ok" =>
                    /\ r.list \in Lists /\ Framed(r.list, list, r.tx)
                    /\ \A s \in Stats : ReadOld(list, s) <= MaxPips =>
                         AtLeast(r.list, r.tx, s, ReadOld(list, s) + rows[s])
<1> DEFINE m == Merged(list, rows)
           missing == Missing(list, rows)
           grown == AddSets(m, rows, missing)
           old == DOMAIN list
           more == (DOMAIN grown) \ (DOMAIN list)
           kept == OwnedSet(old, list, m, FALSE)
           new == OwnedSet(more, grown, grown, TRUE)
           r == ApplyPreview(list, rows, made, added)
<1>1. \/ r = Result("no", list, NoTx)
      \/ \E x : r = Result("uncertain", x, [state |-> "uncertain", recs |-> kept])
      \/ Fits(list, rows) /\ r = Result("ok", grown, [state |-> "applied", recs |-> kept \cup new])
  BY DEF ApplyPreview, OwnedSet
<1>2. list \in Seq(Entries) /\ Len(list) \in Nat /\ DOMAIN list = 1..Len(list)
  BY ListsFact, ListFact
<1>3. /\ m \in Lists /\ Len(m) = Len(list)
      /\ \A i \in 1..Len(list) :
           /\ m[i].node = list[i].node /\ m[i].kind = list[i].kind /\ m[i].stat = list[i].stat
           /\ m[i].kind # "set" => m[i] = list[i]
           /\ m[i].kind = "set" => m[i].act = MergedPips(list, rows, list[i])
      /\ \A s : Sets(m, s) = Sets(list, s) /\ Carried(m, s) = Carried(list, s)
  BY MergedFact
<1> HIDE DEF m
<1>4. missing \in SUBSET Stats
  BY DEF Missing
<1>5. /\ grown \in Lists /\ Len(m) <= Len(grown)
      /\ \A i \in 1..Len(m) : grown[i] = m[i]
      /\ \A s : ReadActive(grown, s) = IF s \in missing THEN Delta(m, rows, s) ELSE ReadActive(m, s)
  <2> HIDE DEF missing
  <2> QED
    BY <1>3, <1>4, AddSetsFact
<1> HIDE DEF grown
<1>6. grown \in Seq(Entries) /\ Len(grown) \in Nat /\ DOMAIN grown = 1..Len(grown)
  BY <1>5, ListsFact, ListFact
<1>7. IsFiniteSet(old) /\ IsFiniteSet(more)
  <2>1. IsFiniteSet(1..Len(list)) /\ IsFiniteSet(1..Len(grown)) /\ more \in SUBSET (1..Len(grown))
    BY <1>2, <1>6, FS_Interval
  <2> HIDE DEF more
  <2> QED
    BY <1>2, <2>1, FS_Subset
<1>8. /\ \A i \in 1..Len(list) : i \in old /\ i \in 1..Len(grown) /\ ~(i > Len(list)) /\ grown[i] = m[i]
      /\ \A i \in 1..Len(grown) : i > Len(list) => i \in more
      /\ \A i \in more : i \in 1..Len(grown) /\ i > Len(list)
      /\ \A i \in old : i \in 1..Len(list)
      /\ Len(list) <= Len(grown)
  BY <1>2, <1>3, <1>5, <1>6
<1> HIDE DEF more, old
<1>9. /\ IsFiniteSet(kept)
      /\ \A x \in kept : \E i \in old : RecordFor(x, list[i], m[i].act, FALSE)
      /\ \A i \in old : \E x \in kept : RecordFor(x, list[i], m[i].act, FALSE)
  BY <1>7, OwnedSetFact
<1>10. /\ IsFiniteSet(new)
       /\ \A x \in new : \E i \in more : RecordFor(x, grown[i], grown[i].act, TRUE)
       /\ \A i \in more : \E x \in new : RecordFor(x, grown[i], grown[i].act, TRUE)
  BY <1>7, OwnedSetFact
<1> HIDE DEF kept, new
<1>11. IsFiniteSet({}) /\ IsFiniteSet(kept \cup new)
  BY <1>9, <1>10, FS_EmptySet, FS_Union
<1>12. Transaction(r.tx)
  <2>1. Transaction(NoTx)
    BY <1>11 DEF NoTx, Transaction
  <2>2. \A state, recs : IsFiniteSet(recs) => Transaction([state |-> state, recs |-> recs])
    BY DEF Transaction
  <2>3. \A outcome, x, t : Result(outcome, x, t).tx = t
    BY DEF Result
  <2>4. Transaction([state |-> "uncertain", recs |-> kept])
    BY <1>9, <2>2
  <2>5. Transaction([state |-> "applied", recs |-> kept \cup new])
    BY <1>11, <2>2
  <2>6. \/ r.tx = NoTx
        \/ r.tx = [state |-> "uncertain", recs |-> kept]
        \/ r.tx = [state |-> "applied", recs |-> kept \cup new]
    <3> DEFINE t1 == [state |-> "uncertain", recs |-> kept]
               t2 == [state |-> "applied", recs |-> kept \cup new]
    <3>1. \/ r = Result("no", list, NoTx) \/ \E x : r = Result("uncertain", x, t1)
          \/ r = Result("ok", grown, t2)
      BY <1>1
    <3>2. r.tx = NoTx \/ r.tx = t1 \/ r.tx = t2
      <4> HIDE DEF r, t1, t2
      <4> QED
        BY <2>3, <3>1
    <3> QED
      BY <3>2
  <2> HIDE DEF r
  <2> QED
    BY <2>1, <2>4, <2>5, <2>6, Zenon
<1> SUFFICES ASSUME r.outcome = "ok"
             PROVE  /\ r.list \in Lists /\ Framed(r.list, list, r.tx)
                    /\ \A s \in Stats : ReadOld(list, s) <= MaxPips =>
                         AtLeast(r.list, r.tx, s, ReadOld(list, s) + rows[s])
  BY <1>12
<1>13. /\ Fits(list, rows) /\ r.list = grown /\ r.tx.recs = kept \cup new
  <2> HIDE DEF r
  <2> QED
    BY <1>1 DEF Result
<1> HIDE DEF r
<1>14. \A x \in kept \cup new : \A i \in 1..Len(grown) : x.node = grown[i].node =>
          /\ x.start = grown[i].act
          /\ i <= Len(list) => ~x.created /\ x.act = list[i].act /\ x.old = list[i].old
  <2> SUFFICES ASSUME NEW x \in kept \cup new, NEW i \in 1..Len(grown), x.node = grown[i].node
               PROVE  /\ x.start = grown[i].act
                      /\ i <= Len(list) => ~x.created /\ x.act = list[i].act /\ x.old = list[i].old
    OBVIOUS
  <2>1. CASE x \in kept
    <3>1. PICK j \in old : RecordFor(x, list[j], m[j].act, FALSE)
      BY <1>9, <2>1
    <3>2. j \in 1..Len(list) /\ j \in 1..Len(grown) /\ grown[j] = m[j] /\ m[j].node = list[j].node
      BY <1>3, <1>8
    <3>3. j = i
      BY <1>5, <3>1, <3>2, ListsFact DEF RecordFor
    <3> QED
      BY <3>1, <3>2, <3>3 DEF RecordFor
  <2>2. CASE x \in new
    <3>1. PICK j \in more : RecordFor(x, grown[j], grown[j].act, TRUE)
      BY <1>10, <2>2
    <3>2. j \in 1..Len(grown) /\ j > Len(list)
      BY <1>8
    <3>3. j = i
      BY <1>5, <3>1, <3>2, ListsFact DEF RecordFor
    <3> QED
      BY <1>2, <3>1, <3>2, <3>3 DEF RecordFor
  <2> QED
    BY <2>1, <2>2
<1>15. Framed(grown, list, r.tx)
  <2>1. ASSUME NEW i \in 1..Len(list)
        PROVE  /\ grown[i].node = list[i].node /\ grown[i].kind = list[i].kind /\ grown[i].stat = list[i].stat
               /\ grown[i].kind # "set" => grown[i] = list[i]
               /\ Owns(r.tx, grown[i])
               /\ \A x \in r.tx.recs : x.node = grown[i].node =>
                    ~x.created /\ x.act = list[i].act /\ x.old = list[i].old
    <3>1. grown[i] = m[i] /\ i \in 1..Len(grown) /\ i \in old
      BY <1>8
    <3>2. \E x \in kept : x.node = grown[i].node
      BY <1>3, <1>9, <3>1 DEF RecordFor
    <3>3. i <= Len(list)
      BY <1>2
    <3> QED
      BY <1>3, <1>13, <1>14, <3>1, <3>2, <3>3 DEF Owns
  <2>2. ASSUME NEW i \in 1..Len(grown), i > Len(list)
        PROVE  \E x \in r.tx.recs : x.created /\ x.node = grown[i].node
    <3>1. i \in more
      BY <1>8, <2>2
    <3> QED
      BY <1>10, <1>13, <3>1 DEF RecordFor
  <2> QED
    BY <1>8, <2>1, <2>2 DEF Framed
<1>16. ASSUME NEW s \in Stats, ReadOld(list, s) <= MaxPips
       PROVE  AtLeast(grown, r.tx, s, ReadOld(list, s) + rows[s])
  <2> DEFINE n == ReadOld(list, s) + rows[s]
  <2>1. /\ Carried(list, s) \in Nat /\ BaseOld(list, s) \in Nat /\ rows[s] \in Nat
        /\ ReadActive(m, s) \in Nat
    BY <1>2, <1>3, CarriedFact, ReadFact, ListsFact
  <2>2. /\ ReadOld(list, s) = BaseOld(list, s) + Carried(list, s)
        /\ BaseOld(list, s) + (rows[s] + Carried(list, s)) <= MaxPips
    <3>1. ~Unknown(list) /\ BaseOld(list, s) + Carried(list, s) <= MaxPips
      BY <1>2, <1>16, ReadableFact
    <3>2. Delta(list, rows, s) + BaseOld(list, s) <= MaxPips
      BY <1>13 DEF Fits
    <3> QED
      BY <2>1, <3>1, <3>2, PipAssumption DEF ReadOld, Delta
  <2>3. Delta(m, rows, s) = rows[s] + Carried(list, s) /\ Delta(list, rows, s) = rows[s] + Carried(list, s)
    BY <1>3 DEF Delta
  <2>4. ReadActive(grown, s) = IF s \in missing THEN Delta(m, rows, s) ELSE ReadActive(m, s)
    BY <1>5
  <2>5. ReadActive(grown, s) >= n /\ ReadActive(grown, s) \in Nat
    <3>1. CASE Sets(list, s) = {}
      <4>1. BaseOld(list, s) = 0 /\ ReadActive(m, s) = 0
        BY <1>3, <3>1 DEF BaseOld, ReadActive
      <4>2. s \in missing <=> rows[s] + Carried(list, s) > 0
        BY <2>3, <3>1 DEF Missing
      <4> QED
        BY <2>1, <2>2, <2>3, <2>4, <4>1, <4>2
    <3>2. CASE Sets(list, s) # {}
      <4> DEFINE k == Max(Sets(list, s))
      <4>1. k \in 1..Len(list) /\ list[k].kind = "set" /\ list[k].stat = s /\ list[k] \in Entries
        BY <1>2, <3>2, LastFact DEF IsSet
      <4>2. ReadActive(m, s) = m[k].act /\ BaseOld(list, s) = list[k].old
        BY <1>3, <3>2 DEF ReadActive, BaseOld, LastSet
      <4>3. m[k].act = MergedPips(list, rows, list[k])
        BY <1>3, <4>1
      <4> HIDE DEF k
      <4>4. MergedPips(list, rows, list[k]) >= BaseOld(list, s) + (rows[s] + Carried(list, s))
        <5>1. MergedPips(list, rows, list[k]) =
                Most(list[k].act, Least(MaxPips, BaseOld(list, s) + (rows[s] + Carried(list, s))))
          BY <2>3, <4>1, <4>2 DEF MergedPips
        <5>2. list[k].act \in Nat
          BY <4>1 DEF Entries
        <5> QED
          BY <2>1, <2>2, <5>1, <5>2, PipAssumption DEF Most, Least
      <4>5. s \notin missing
        BY <3>2 DEF Missing
      <4> QED
        BY <2>1, <2>2, <2>4, <4>2, <4>3, <4>4, <4>5
    <3> QED
      BY <3>1, <3>2
  <2> HIDE DEF n
  <2>6. ASSUME Sets(grown, s) # {}, NEW x \in r.tx.recs, x.node = LastSet(grown, s).node
        PROVE  x.start \in Nat /\ x.start >= n
    <3> DEFINE k == Max(Sets(grown, s))
    <3>1. k \in 1..Len(grown) /\ LastSet(grown, s) = grown[k]
      BY <1>6, <2>6, LastFact
    <3>2. ReadActive(grown, s) = grown[k].act
      BY <2>6, <3>1 DEF ReadActive
    <3> HIDE DEF k
    <3>3. x.start = grown[k].act
      BY <1>13, <1>14, <2>6, <3>1
    <3> QED
      BY <2>5, <3>2, <3>3
  <2>7. AtLeast(grown, r.tx, s, n)
    BY <2>5, <2>6 DEF AtLeast
  <2> QED
    BY <2>7 DEF n
<1> QED
  BY <1>5, <1>13, <1>15, <1>16
-----------------------------------------------------------------------------
(* The pips of a stat are written: by the game's setter or the transaction. *)

LEMMA NativeSetFact ==
    ASSUME NEW A \in Lists, NEW stat, NEW pips \in Nat
    PROVE  LET B == NativeSet(A, stat, pips)
           IN  /\ B \in Lists /\ OldAlike(A, B) /\ Len(B) = Len(A)
               /\ \A i \in 1..Len(A) : B[i].node = A[i].node /\ (A[i].kind # "set" => B[i] = A[i])
               /\ \A s : Sets(B, s) = Sets(A, s)
               /\ \A s : ReadActive(B, s) = IF s = stat /\ Sets(A, s) # {} THEN pips ELSE ReadActive(A, s)
<1> DEFINE B == NativeSet(A, stat, pips)
           e(i) == IF A[i].kind = "set" /\ A[i].stat = stat THEN [A[i] EXCEPT !.act = pips] ELSE A[i]
<1>1. /\ A \in Seq(Entries) /\ Len(A) \in Nat /\ DOMAIN A = 1..Len(A)
      /\ \A i \in 1..Len(A) : A[i] \in Entries
  BY ListsFact, ListFact
<1>2. ASSUME NEW i \in 1..Len(A)
      PROVE  /\ e(i) \in Entries /\ e(i).node = A[i].node /\ e(i).kind = A[i].kind
             /\ e(i).stat = A[i].stat /\ e(i).old = A[i].old
             /\ ~IsSet(A[i], stat) => e(i) = A[i]
             /\ IsSet(A[i], stat) => e(i).act = pips
  <2>1. A[i] \in Entries
    BY <1>1
  <2> QED
    BY <2>1 DEF Entries, IsSet
<1>3. B = [i \in 1..Len(A) |-> e(i)]
  BY <1>1 DEF NativeSet
<1> HIDE DEF B, e
<1>4. B \in Seq(Entries) /\ Len(B) = Len(A) /\ \A i \in 1..Len(A) : B[i] = e(i)
  BY <1>1, <1>2, <1>3
<1>5. \A i, j \in 1..Len(B) : B[i].node = B[j].node => i = j
  BY <1>2, <1>4, ListsFact
<1>6. B \in Lists
  BY <1>4, <1>5, ListsIntro
<1>7. OldAlike(A, B)
  BY <1>2, <1>4 DEF OldAlike
<1>8. \A s : Sets(B, s) = Sets(A, s)
  BY <1>1, <1>4, <1>7, AlikeFact
<1>9. ASSUME NEW s
      PROVE  ReadActive(B, s) = IF s = stat /\ Sets(A, s) # {} THEN pips ELSE ReadActive(A, s)
  <2>1. CASE Sets(A, s) = {}
    BY <1>8, <2>1 DEF ReadActive
  <2>2. CASE Sets(A, s) # {}
    <3>1. Max(Sets(A, s)) \in 1..Len(A) /\ LastSet(A, s) = A[Max(Sets(A, s))] /\ IsSet(LastSet(A, s), s)
      BY <1>1, <2>2, LastFact
    <3>2. LastSet(B, s) = e(Max(Sets(A, s)))
      BY <1>4, <1>8, <3>1 DEF LastSet
    <3>3. IsSet(A[Max(Sets(A, s))], stat) <=> s = stat
      BY <3>1 DEF IsSet
    <3> QED
      BY <1>2, <1>8, <2>2, <3>1, <3>2, <3>3 DEF ReadActive
  <2> QED
    BY <2>1, <2>2
<1>10. \A i \in 1..Len(A) : A[i].kind # "set" => B[i] = A[i]
  BY <1>2, <1>4 DEF IsSet
<1> QED
  BY <1>2, <1>4, <1>6, <1>7, <1>8, <1>9, <1>10 DEF B

\* A framed list owns every class record it holds.
LEMMA FramedOwns ==
    ASSUME NEW A \in Lists, NEW O \in Lists, NEW t, Framed(A, O, t),
           NEW i \in 1..Len(A), A[i].kind = "set"
    PROVE  Owns(t, A[i])
<1>1. Len(A) \in Nat /\ Len(O) \in Nat
  BY ListsFact, ListFact
<1>2. CASE i <= Len(O)
  <2>1. i \in 1..Len(O)
    BY <1>1, <1>2
  <2> QED
    BY <2>1 DEF Framed
<1>3. CASE i > Len(O)
  BY <1>3 DEF Framed, Owns
<1> QED
  BY <1>1, <1>2, <1>3

\* What CBMDPC_SetActiveOwned leaves of a list and its transaction.
SetOutcome(A, O, t, B, u) ==
    /\ B \in Lists /\ Transaction(u)
    /\ Whole(B, u) => Framed(B, O, u)
    /\ \A s \in Stats, n \in Nat : AtLeast(A, t, s, n) => AtLeast(B, u, s, n)
    /\ \A s : ReadOld(B, s) = ReadOld(A, s)
    /\ (\A x \in t.recs : x.kind = "set") => (\A x \in u.recs : x.kind = "set")

LEMMA SetActiveWrites ==
    ASSUME NEW A \in Lists, NEW O \in Lists, NEW t, Transaction(t), Framed(A, O, t),
           NEW u, Transaction(u), u.recs = t.recs, NEW stat, NEW pips \in Nat,
           Sets(A, stat) # {} => ~(pips < RecordOf(u, LastSet(A, stat)).start)
    PROVE  SetOutcome(A, O, t, NativeSet(A, stat, pips), u)
<1> DEFINE B == NativeSet(A, stat, pips)
<1>1. /\ B \in Lists /\ OldAlike(A, B) /\ Len(B) = Len(A)
      /\ \A i \in 1..Len(A) : B[i].node = A[i].node /\ (A[i].kind # "set" => B[i] = A[i])
      /\ \A s : Sets(B, s) = Sets(A, s)
      /\ \A s : ReadActive(B, s) = IF s = stat /\ Sets(A, s) # {} THEN pips ELSE ReadActive(A, s)
  BY NativeSetFact
<1> HIDE DEF B
<1>2. /\ Len(A) \in Nat /\ Len(O) \in Nat /\ A \in Seq(Entries) /\ B \in Seq(Entries)
  BY <1>1, ListsFact, ListFact
<1>3. Framed(B, O, u)
  <2>1. Len(O) <= Len(A)
    BY DEF Framed
  <2>2. ASSUME NEW i \in 1..Len(O)
        PROVE  /\ B[i].node = O[i].node /\ B[i].kind = O[i].kind /\ B[i].stat = O[i].stat
               /\ B[i].kind # "set" => B[i] = O[i]
               /\ B[i].kind = "set" => Owns(u, B[i])
               /\ \A r \in u.recs : r.node = B[i].node =>
                    ~r.created /\ r.act = O[i].act /\ r.old = O[i].old
    <3>1. i \in 1..Len(A)
      BY <1>2, <2>1
    <3>2. /\ B[i].node = A[i].node /\ B[i].kind = A[i].kind /\ B[i].stat = A[i].stat
          /\ A[i].kind # "set" => B[i] = A[i]
      BY <1>1, <3>1 DEF OldAlike
    <3> QED
      BY <3>2 DEF Framed, Owns
  <2>3. \A i \in 1..Len(B) : i > Len(O) => \E r \in u.recs : r.created /\ r.node = B[i].node
    BY <1>1 DEF Framed
  <2> QED
    BY <1>1, <2>1, <2>2, <2>3 DEF Framed
<1>4. ASSUME NEW s \in Stats, NEW n \in Nat, AtLeast(A, t, s, n)
      PROVE  AtLeast(B, u, s, n)
  <2>1. CASE Sets(A, s) = {}
    BY <1>1, <1>4, <2>1 DEF AtLeast
  <2>2. CASE Sets(A, s) # {}
    <3> DEFINE k == Max(Sets(A, s))
    <3>1. k \in 1..Len(A) /\ LastSet(A, s) = A[k] /\ A[k].kind = "set"
      BY <1>2, <2>2, LastFact DEF IsSet
    <3>2. LastSet(B, s) = B[k]
      BY <1>1 DEF LastSet
    <3> HIDE DEF k
    <3>3. LastSet(B, s).node = LastSet(A, s).node
      BY <1>1, <3>1, <3>2
    <3>4. \A r \in u.recs : r.node = LastSet(B, s).node => r.start \in Nat /\ r.start >= n
      BY <1>4, <2>2, <3>3 DEF AtLeast
    <3>5. ReadActive(B, s) >= n
      <4>1. CASE s # stat
        BY <1>1, <1>4, <4>1 DEF AtLeast
      <4>2. CASE s = stat
        <5>1. Owns(t, A[k])
          BY <3>1, FramedOwns
        <5>2. \E r \in u.recs : r.node = LastSet(A, s).node
          BY <3>1, <5>1 DEF Owns
        <5>3. /\ RecordOf(u, LastSet(A, s)) \in u.recs
              /\ RecordOf(u, LastSet(A, s)).node = LastSet(A, s).node
          BY <5>2 DEF RecordOf
        <5>4. RecordOf(u, LastSet(A, s)).start \in Nat /\ RecordOf(u, LastSet(A, s)).start >= n
          BY <3>3, <3>4, <5>3
        <5>5. pips >= n
          BY <2>2, <4>2, <5>4
        <5> QED
          BY <1>1, <2>2, <4>2, <5>5
      <4> QED
        BY <4>1, <4>2
    <3> QED
      BY <3>4, <3>5 DEF AtLeast
  <2> QED
    BY <2>1, <2>2
<1>5. \A s : ReadOld(B, s) = ReadOld(A, s)
  BY <1>1, <1>2, AlikeFact
<1>6. SetOutcome(A, O, t, B, u)
  BY <1>1, <1>3, <1>4, <1>5 DEF SetOutcome
<1> QED
  BY <1>6 DEF B

NewFor(A, stat, pips, e) ==
    e \in Entries /\ IsSet(e, stat) /\ e.act = pips /\ e.old = 0 /\ e.node \notin Nodes(A)
OwnedNew(x, e) == x.node = e.node /\ x.created /\ x.kind = "set" /\ x.start = 0
Joined(u, t, x) == Transaction(u) /\ \A r : r \in u.recs <=> r \in t.recs \/ r = x
LEMMA SetActiveAppends ==
    ASSUME NEW A \in Lists, NEW O \in Lists, NEW t, Transaction(t), Framed(A, O, t), Whole(A, t),
           NEW stat \in Stats, NEW pips \in Nat, Sets(A, stat) = {},
           NEW e, NewFor(A, stat, pips, e), NEW x, OwnedNew(x, e), NEW u, Joined(u, t, x)
    PROVE  SetOutcome(A, O, t, Append(A, e), u)
<1> DEFINE B == Append(A, e)
<1>1. /\ e \in Entries /\ IsSet(e, stat) /\ e.act = pips /\ e.old = 0
      /\ e.node \notin Nodes(A) /\ B \in Lists
  BY AppendDistinct DEF NewFor
<1>2. /\ Len(A) \in Nat /\ Len(O) \in Nat /\ A \in Seq(Entries) /\ B \in Seq(Entries)
  BY <1>1, ListsFact, ListFact
<1>3. /\ Len(B) = Len(A) + 1 /\ B[Len(A) + 1] = e
      /\ \A i \in 1..Len(A) : B[i] = A[i] /\ A[i].node # e.node
  BY <1>1, <1>2, AppendFact, NodesFact
<1>4. /\ \A s : ReadActive(B, s) = IF IsSet(e, s) THEN e.act ELSE ReadActive(A, s)
      /\ \A s : BaseOld(B, s) = IF IsSet(e, s) THEN e.old ELSE BaseOld(A, s)
      /\ Unknown(B) <=> Unknown(A) \/ e.kind = "alien"
      /\ \A s : Carried(B, s) = Carried(A, s) + Held(e, s)
      /\ \A s : Sets(B, s) = IF IsSet(e, s) THEN Sets(A, s) \cup {Len(A) + 1} ELSE Sets(A, s)
  BY <1>1, <1>2, ReadAppend, CarriedAppend, SetsAppend
<1> HIDE DEF B
<1>5. x.node = e.node /\ x.created /\ x.kind = "set" /\ x.start = 0
  BY DEF OwnedNew
<1>6. Transaction(u) /\ \A r : r \in u.recs <=> r \in t.recs \/ r = x
  BY DEF Joined
<1>7. Framed(B, O, u)
  <2>1. Len(O) <= Len(A) /\ Len(O) <= Len(B)
    BY <1>2, <1>3 DEF Framed
  <2>2. ASSUME NEW i \in 1..Len(O)
        PROVE  /\ B[i].node = O[i].node /\ B[i].kind = O[i].kind /\ B[i].stat = O[i].stat
               /\ B[i].kind # "set" => B[i] = O[i]
               /\ B[i].kind = "set" => Owns(u, B[i])
               /\ \A r \in u.recs : r.node = B[i].node =>
                    ~r.created /\ r.act = O[i].act /\ r.old = O[i].old
    <3>1. i \in 1..Len(A)
      BY <1>2, <2>1
    <3>2. B[i] = A[i] /\ A[i].node # x.node
      BY <1>3, <1>5, <3>1
    <3> QED
      BY <1>6, <3>2 DEF Framed, Owns
  <2>3. ASSUME NEW i \in 1..Len(B), i > Len(O) PROVE \E r \in u.recs : r.created /\ r.node = B[i].node
    <3>1. CASE i \in 1..Len(A)
      BY <1>3, <1>6, <2>3, <3>1 DEF Framed
    <3>2. CASE i = Len(A) + 1
      BY <1>3, <1>5, <1>6, <3>2
    <3> QED
      BY <1>2, <1>3, <3>1, <3>2
  <2> QED
    BY <2>1, <2>2, <2>3 DEF Framed
<1>8. ASSUME NEW s \in Stats, NEW n \in Nat, AtLeast(A, t, s, n)
      PROVE  AtLeast(B, u, s, n)
  <2>1. CASE IsSet(e, s)
    <3>1. s = stat
      BY <1>1, <2>1 DEF IsSet
    <3>2. ReadActive(A, s) = 0
      BY <3>1 DEF ReadActive
    <3>3. n = 0
      BY <1>8, <3>2 DEF AtLeast
    <3>4. ReadActive(B, s) = pips
      BY <1>1, <1>4, <2>1
    <3>5. Sets(B, s) # {} /\ Sets(B, s) = {Len(A) + 1}
      BY <1>4, <2>1, <3>1
    <3>6. LastSet(B, s) = e
      <4>1. Max(Sets(B, s)) \in Sets(B, s) /\ LastSet(B, s) = B[Max(Sets(B, s))]
        BY <1>2, <3>5, LastFact
      <4> QED
        BY <1>3, <3>5, <4>1
    <3>7. \A r \in t.recs : r.node # e.node
      BY <1>1 DEF Whole, Present, Nodes
    <3> QED
      BY <1>5, <1>6, <3>3, <3>4, <3>6, <3>7 DEF AtLeast
  <2>2. CASE ~IsSet(e, s)
    <3>1. Sets(B, s) = Sets(A, s) /\ ReadActive(B, s) = ReadActive(A, s)
      BY <1>4, <2>2
    <3>2. CASE Sets(A, s) = {}
      BY <1>8, <3>1, <3>2 DEF AtLeast
    <3>3. CASE Sets(A, s) # {}
      <4>1. Max(Sets(A, s)) \in 1..Len(A) /\ LastSet(A, s) = A[Max(Sets(A, s))]
        BY <1>2, <3>3, LastFact
      <4>2. LastSet(B, s) = LastSet(A, s) /\ LastSet(A, s).node # x.node
        BY <1>3, <1>5, <3>1, <4>1 DEF LastSet
      <4> QED
        BY <1>6, <1>8, <3>1, <3>3, <4>2 DEF AtLeast
    <3> QED
      BY <3>2, <3>3
  <2> QED
    BY <2>1, <2>2
<1>9. ASSUME NEW s PROVE ReadOld(B, s) = ReadOld(A, s)
  <2>1. Held(e, s) = 0 /\ e.kind # "alien"
    BY <1>1 DEF Held, IsSet
  <2>2. IsSet(e, s) => BaseOld(A, s) = 0
    BY <1>1 DEF BaseOld, IsSet
  <2>3. BaseOld(B, s) = BaseOld(A, s)
    BY <1>1, <1>4, <2>2
  <2>4. Carried(B, s) = Carried(A, s)
    BY <1>2, <1>4, <2>1, CarriedFact
  <2> QED
    BY <1>4, <2>1, <2>3, <2>4 DEF ReadOld
<1>10. SetOutcome(A, O, t, B, u)
  BY <1>1, <1>5, <1>6, <1>7, <1>8, <1>9 DEF SetOutcome
<1> QED
  BY <1>10 DEF B

\* CBMDPC_SetActiveOwned.
LEMMA SetActiveFact ==
    ASSUME NEW A \in Lists, NEW O \in Lists, NEW t, Transaction(t), Whole(A, t) => Framed(A, O, t),
           NEW stat \in Stats, NEW pips \in Nat, NEW added
    PROVE  LET r == SetActive(A, t, stat, pips, added)
           IN  /\ r.list \in Lists /\ Transaction(r.tx)
               /\ Whole(r.list, r.tx) => Framed(r.list, O, r.tx)
               /\ \A s \in Stats, n \in Nat : AtLeast(A, t, s, n) => AtLeast(r.list, r.tx, s, n)
               /\ \A s : ReadOld(r.list, s) = ReadOld(A, s)
               /\ (\A x \in t.recs : x.kind = "set") => (\A x \in r.tx.recs : x.kind = "set")
<1> DEFINE mine == Sets(A, stat)
           late == {i \in mine : ~Owns(t, A[i])}
           recs == t.recs \cup {Owned(A[i], A[i].act, FALSE) : i \in late}
           grown == [t EXCEPT !.recs = recs]
           new == NewSet(A, stat, pips)
           floor == IF mine = {} THEN 0 ELSE RecordOf(grown, LastSet(A, stat)).start
           r == SetActive(A, t, stat, pips, added)
           unsure == [t EXCEPT !.state = "uncertain"]
           tail == [grown EXCEPT !.recs = recs \cup {Owned(new, 0, TRUE)}]
<1>1. \/ r = Result("no", A, t)
      \/ r = Result("uncertain", A, unsure)
      \/ Whole(A, t) /\ mine = {} /\ r = Result("ok", Append(A, new), tail)
      \/ Whole(A, t) /\ ~(pips < floor) /\ r = Result("ok", NativeSet(A, stat, pips), grown)
  <2>1. NativeSet(A, stat, pips) = [i \in DOMAIN A |-> IF i \in mine THEN [A[i] EXCEPT !.act = pips] ELSE A[i]]
    BY DEF NativeSet, Sets
  <2> HIDE DEF mine, new, floor, grown, tail, unsure
  <2> QED
    BY <2>1 DEF SetActive, Whole, mine, new, floor, grown, tail, unsure
<1> SUFFICES SetOutcome(A, O, t, r.list, r.tx)
  BY DEF SetOutcome
<1>2. CASE r = Result("no", A, t)
  <2> HIDE DEF r
  <2>1. r.list = A /\ r.tx = t
    BY <1>2 DEF Result
  <2> QED
    BY <2>1 DEF SetOutcome
<1>3. CASE r = Result("uncertain", A, unsure)
  <2>1. unsure.state = "uncertain" /\ unsure.recs = t.recs /\ Transaction(unsure)
    BY DEF Transaction
  <2> HIDE DEF r, unsure
  <2>2. r.list = A /\ r.tx = unsure
    BY <1>3 DEF Result
  <2> QED
    BY <2>1, <2>2 DEF SetOutcome, Whole, AtLeast
<1>4. ASSUME Whole(A, t) PROVE recs = t.recs /\ grown.recs = t.recs /\ Transaction(grown)
  <2>1. \A i \in mine : i \in 1..Len(A) /\ A[i].kind = "set"
    BY ListsFact, ListFact DEF Sets
  <2>2. late = {}
    BY <1>4, <2>1, FramedOwns
  <2>3. recs = t.recs
    <3> HIDE DEF late
    <3> QED
      BY <2>2
  <2> HIDE DEF recs
  <2> QED
    BY <2>3 DEF Transaction
<1>5. CASE Whole(A, t) /\ mine = {} /\ r = Result("ok", Append(A, new), tail)
  <2> DEFINE x == Owned(new, 0, TRUE)
  <2>1. DOMAIN tail = {"state", "recs"} /\ tail.recs = t.recs \cup {Owned(new, 0, TRUE)}
    <3>1. recs = t.recs /\ DOMAIN grown = {"state", "recs"}
      BY <1>4, <1>5 DEF Transaction
    <3> HIDE DEF recs, grown, new
    <3> QED
      BY <3>1
  <2> HIDE DEF r, tail
  <2>2. r.list = Append(A, new) /\ r.tx = tail
    BY <1>5 DEF Result
  <2>3. NewFor(A, stat, pips, new)
    BY NewSetFact DEF NewFor
  <2>4. OwnedNew(x, new)
    <3>1. new.kind = "set"
      BY <2>3 DEF NewFor, IsSet
    <3> HIDE DEF new
    <3> QED
      BY <3>1 DEF OwnedNew, Owned
  <2> HIDE DEF new, x
  <2>5. IsFiniteSet(t.recs \cup {x})
    BY FS_AddElement DEF Transaction
  <2>6. Joined(tail, t, x)
    BY <2>1, <2>5 DEF Joined, Transaction, x
  <2>7. SetOutcome(A, O, t, Append(A, new), tail)
    BY <1>5, <2>3, <2>4, <2>6, SetActiveAppends
  <2> QED
    BY <2>2, <2>7
<1>6. CASE Whole(A, t) /\ ~(pips < floor) /\ r = Result("ok", NativeSet(A, stat, pips), grown)
  <2>1. grown.recs = t.recs /\ Transaction(grown)
    BY <1>4, <1>6
  <2>2. Sets(A, stat) # {} => ~(pips < RecordOf(grown, LastSet(A, stat)).start)
    <3> HIDE DEF grown
    <3> QED
      BY <1>6
  <2> HIDE DEF r, grown
  <2>3. r.list = NativeSet(A, stat, pips) /\ r.tx = grown
    BY <1>6 DEF Result
  <2>4. SetOutcome(A, O, t, NativeSet(A, stat, pips), grown)
    BY <1>6, <2>1, <2>2, SetActiveWrites
  <2> QED
    BY <2>3, <2>4
<1> QED
  BY <1>1, <1>2, <1>3, <1>5, <1>6
-----------------------------------------------------------------------------
(* The ends of a transaction.                                               *)

LEMMA SameRecord ==
    ASSUME NEW e \in Entries, NEW f \in Entries, e.node = f.node, e.kind = f.kind,
           e.stat = f.stat, e.act = f.act, e.old = f.old
    PROVE  e = f
BY DEF Entries

LEMMA SameList ==
    ASSUME NEW l \in Seq(Entries), NEW m \in Seq(Entries), Len(l) = Len(m),
           \A i \in 1..Len(m) : l[i] = m[i]
    PROVE  l = m
OBVIOUS

\* The list as the game's own cancel leaves it: its setter runs over the records.
GameSet(A, pips) ==
    [i \in DOMAIN A |-> IF A[i].kind # "set" THEN A[i] ELSE [A[i] EXCEPT !.act = pips[A[i].stat]]]

LEMMA GameSetFact ==
    ASSUME NEW A \in Lists, NEW pips \in [Stats -> Pips]
    PROVE  LET B == GameSet(A, pips)
           IN  /\ B \in Lists /\ OldAlike(A, B) /\ Len(B) = Len(A)
               /\ \A i \in 1..Len(A) : B[i].node = A[i].node /\ (A[i].kind # "set" => B[i] = A[i])
<1> DEFINE B == GameSet(A, pips)
           e(i) == IF A[i].kind # "set" THEN A[i] ELSE [A[i] EXCEPT !.act = pips[A[i].stat]]
<1>1. /\ A \in Seq(Entries) /\ Len(A) \in Nat /\ DOMAIN A = 1..Len(A)
      /\ \A i \in 1..Len(A) : A[i] \in Entries
  BY ListsFact, ListFact
<1>2. ASSUME NEW i \in 1..Len(A)
      PROVE  /\ e(i) \in Entries /\ e(i).node = A[i].node /\ e(i).kind = A[i].kind
             /\ e(i).stat = A[i].stat /\ e(i).old = A[i].old
             /\ A[i].kind # "set" => e(i) = A[i]
  <2>1. A[i] \in Entries /\ A[i].stat \in Stats
    BY <1>1 DEF Entries
  <2>2. pips[A[i].stat] \in Nat
    BY <2>1, PipAssumption DEF Pips
  <2> QED
    BY <2>1, <2>2 DEF Entries
<1>3. B = [i \in 1..Len(A) |-> e(i)]
  BY <1>1 DEF GameSet
<1> HIDE DEF B, e
<1>4. B \in Seq(Entries) /\ Len(B) = Len(A) /\ \A i \in 1..Len(A) : B[i] = e(i)
  BY <1>1, <1>2, <1>3
<1>5. \A i, j \in 1..Len(B) : B[i].node = B[j].node => i = j
  BY <1>2, <1>4, ListsFact
<1>6. B \in Lists
  BY <1>4, <1>5, ListsIntro
<1>7. OldAlike(A, B)
  BY <1>2, <1>4 DEF OldAlike
<1> QED
  BY <1>2, <1>4, <1>6, <1>7 DEF B

\* CBMDPC_Restore gives back the very list that the transaction frames.
LEMMA RestoreFact ==
    ASSUME NEW A \in Lists, NEW O \in Lists, NEW t, Whole(A, t) => Framed(A, O, t),
           NEW pips \in [Stats -> Pips], Restore(GameSet(A, pips), t).outcome = "ok"
    PROVE  Restore(GameSet(A, pips), t).list = O
<1> DEFINE B == GameSet(A, pips)
           gone == {r \in t.recs : r.created}
           kept == Without(B, gone)
           k == Len(O)
<1>1. /\ B \in Lists /\ OldAlike(A, B) /\ Len(B) = Len(A)
      /\ \A i \in 1..Len(A) : B[i].node = A[i].node /\ (A[i].kind # "set" => B[i] = A[i])
  BY GameSetFact
<1>2. /\ t.state = "applied" /\ \A r \in t.recs : Present(B, r)
      /\ Restore(B, t).list = [i \in DOMAIN kept |-> Rewound(t, kept[i])]
  <2> HIDE DEF B
  <2>1. Restore(B, t).outcome = "ok"
    BY DEF B
  <2> QED
    BY <2>1 DEF Restore, Result
<1> HIDE DEF B
<1>3. /\ A \in Seq(Entries) /\ B \in Seq(Entries) /\ O \in Seq(Entries)
      /\ Len(A) \in Nat /\ k \in Nat /\ DOMAIN A = 1..Len(A) /\ DOMAIN B = 1..Len(A)
      /\ \A i \in 1..Len(A) : A[i] \in Entries /\ B[i] \in Entries
      /\ \A i \in 1..k : O[i] \in Entries
  BY <1>1, ListsFact, ListFact
<1>4. Framed(A, O, t)
  <2>1. ASSUME NEW r, Present(B, r) PROVE Present(A, r)
    <3>1. PICK i \in 1..Len(A) :
             /\ B[i].node = r.node /\ B[i].kind = r.kind /\ B[i].stat = r.stat
             /\ r.kind = "carrier" => B[i].old = r.old
      BY <1>3, <2>1 DEF Present
    <3>2. A[i].node = B[i].node /\ A[i].kind = B[i].kind /\ A[i].stat = B[i].stat /\ A[i].old = B[i].old
      BY <1>1 DEF OldAlike
    <3> QED
      BY <1>3, <3>1, <3>2 DEF Present
  <2> QED
    BY <1>2, <2>1 DEF Whole
<1>5. k <= Len(A)
  BY <1>4 DEF Framed
<1>6. ASSUME NEW i \in 1..k
      PROVE  /\ i \in 1..Len(A) /\ A[i].node = O[i].node /\ A[i].kind = O[i].kind /\ A[i].stat = O[i].stat
             /\ A[i].kind # "set" => A[i] = O[i]
             /\ A[i].kind = "set" => \E r \in t.recs : r.node = A[i].node
             /\ \A r \in t.recs : r.node = A[i].node => ~r.created /\ r.act = O[i].act /\ r.old = O[i].old
  BY <1>3, <1>4, <1>5 DEF Framed, Owns
<1>7. \A i \in 1..Len(B) : Dropped(B[i], gone) <=> i > k
  <2> SUFFICES ASSUME NEW i \in 1..Len(A) PROVE Dropped(B[i], gone) <=> i > k
    BY <1>1
  <2>1. Dropped(B[i], gone) <=> \E r \in t.recs : r.created /\ r.node = A[i].node
    BY <1>1 DEF Dropped
  <2>2. i > k => \E r \in t.recs : r.created /\ r.node = A[i].node
    BY <1>4 DEF Framed
  <2>3. i <= k => i \in 1..k
    BY <1>3
  <2> QED
    BY <1>3, <1>6, <2>1, <2>2, <2>3
<1> HIDE DEF gone, k
<1>8. kept \in Seq(Entries) /\ Len(kept) = k /\ \A i \in 1..k : kept[i] = B[i]
  BY <1>1, <1>3, <1>5, <1>7, WithoutTail
<1> HIDE DEF kept
<1>9. ASSUME NEW i \in 1..k PROVE Rewound(t, kept[i]) = O[i]
  <2>1. i \in 1..Len(A) /\ kept[i] = B[i] /\ B[i].node = A[i].node /\ B[i].kind = A[i].kind
    BY <1>1, <1>6, <1>8 DEF OldAlike
  <2>2. CASE A[i].kind # "set"
    BY <1>1, <1>6, <2>1, <2>2 DEF Rewound
  <2>3. CASE A[i].kind = "set"
    <3>1. \E r \in t.recs : r.node = B[i].node
      BY <1>6, <2>1, <2>3
    <3>2. RecordOf(t, B[i]) \in t.recs /\ RecordOf(t, B[i]).node = A[i].node
      BY <2>1, <3>1 DEF RecordOf
    <3>3. RecordOf(t, B[i]).act = O[i].act /\ RecordOf(t, B[i]).old = O[i].old
      BY <1>6, <3>2
    <3>4. Rewound(t, kept[i]) = [B[i] EXCEPT !.act = O[i].act, !.old = O[i].old]
      BY <2>1, <2>3, <3>1, <3>3 DEF Rewound, Owns
    <3>5. B[i] \in Entries /\ O[i] \in Entries /\ B[i].stat = O[i].stat /\ B[i].kind = O[i].kind /\ B[i].node = O[i].node
      BY <1>1, <1>3, <1>6, <2>1 DEF OldAlike
    <3> DEFINE e == [B[i] EXCEPT !.act = O[i].act, !.old = O[i].old]
    <3>6. /\ e \in Entries /\ e.node = O[i].node /\ e.kind = O[i].kind /\ e.stat = O[i].stat
          /\ e.act = O[i].act /\ e.old = O[i].old
      BY <3>5 DEF Entries
    <3>7. e = O[i]
      <4> HIDE DEF e
      <4> QED
        BY <3>5, <3>6, SameRecord
    <3> QED
      BY <3>4, <3>7
  <2> QED
    BY <2>2, <2>3
<1>10. DOMAIN kept = 1..k /\ DOMAIN O = 1..k
  BY <1>3, <1>8, ListFact DEF k
<1>11. [i \in DOMAIN kept |-> Rewound(t, kept[i])] = [i \in 1..k |-> O[i]]
  BY <1>9, <1>10
<1>12. [i \in 1..k |-> O[i]] = O
  BY <1>3, <1>10
<1> QED
  BY <1>2, <1>11, <1>12 DEF B

LEMMA RestoreTx ==
    ASSUME NEW B, NEW t
    PROVE  Restore(B, t).tx \in {t, NoTx}
BY DEF Restore, Result

\* CBMDPC_Complete: only carriers leave, and nothing does without them.
LEMMA CompleteFact ==
    ASSUME NEW A \in Lists, NEW t
    PROVE  LET r == Complete(A, t)
           IN  /\ r.tx \in {t, NoTx}
               /\ r.outcome = "ok" =>
                    /\ r.list \in Lists
                    /\ \A s : ReadActive(r.list, s) = ReadActive(A, s)
                    /\ (\A x \in t.recs : x.kind = "set") => r.list = A
<1> DEFINE r == Complete(A, t)
           gone == Consumed(t)
           m == Without(A, gone)
<1>1. r.tx \in {t, NoTx}
  BY DEF Complete, Result
<1> SUFFICES ASSUME r.outcome = "ok"
             PROVE  /\ r.list \in Lists
                    /\ \A s : ReadActive(r.list, s) = ReadActive(A, s)
                    /\ (\A x \in t.recs : x.kind = "set") => r.list = A
  BY <1>1
<1>2. r.list = m /\ \A x \in gone : Present(A, x)
  BY DEF Complete, Result
<1> HIDE DEF r
<1>3. A \in Seq(Entries) /\ Len(A) \in Nat
  BY ListsFact, ListFact
<1>4. \A i \in 1..Len(A) : Dropped(A[i], gone) => A[i].kind # "set"
  <2> SUFFICES ASSUME NEW i \in 1..Len(A), NEW x \in gone, x.node = A[i].node PROVE A[i].kind # "set"
    BY DEF Dropped
  <2>1. x.kind = "carrier" /\ Present(A, x)
    BY <1>2 DEF Consumed
  <2>2. A[i].kind = x.kind
    BY <2>1, PresentFact
  <2> QED
    BY <2>1, <2>2
<1>5. m \in Lists /\ \A s : ReadActive(m, s) = ReadActive(A, s)
  <2> HIDE DEF gone
  <2> QED
    BY <1>4, WithoutReads
<1>6. ASSUME \A x \in t.recs : x.kind = "set" PROVE m = A
  <2>1. \A i \in 1..Len(A) : Dropped(A[i], gone) <=> i > Len(A)
    <3>1. gone = {}
      BY <1>6 DEF Consumed
    <3>2. \A i \in 1..Len(A) : ~(i > Len(A))
      BY <1>3
    <3> QED
      BY <3>1, <3>2 DEF Dropped
  <2> HIDE DEF gone
  <2>2. Len(A) <= Len(A)
    BY <1>3
  <2>3. m \in Seq(Entries) /\ Len(m) = Len(A) /\ \A i \in 1..Len(A) : m[i] = A[i]
    BY <1>3, <2>1, <2>2, WithoutTail
  <2> HIDE DEF m
  <2> QED
    BY <1>3, <2>3, SameList
<1> QED
  BY <1>2, <1>5, <1>6

\* CBMDPC_PersistDormant: what was chosen joins what the old class reads.
LEMMA PersistFact ==
    ASSUME NEW A \in Lists, NEW rows \in [Stats -> Nat], NEW made, NEW added
    PROVE  LET r == PersistDormant(A, rows, made, added)
           IN  /\ Transaction(r.tx)
               /\ r.outcome = "ok" =>
                    /\ r.list \in Lists
                    /\ \A s \in Stats : ReadOld(A, s) + rows[s] <= MaxPips =>
                         ReadOld(r.list, s) = ReadOld(A, s) + rows[s]
<1> DEFINE r == PersistDormant(A, rows, made, added)
           m == AddCarriers(A, rows, Chosen(rows))
           t1 == [state |-> "uncertain", recs |-> {}]
           t2 == [state |-> "applied", recs |-> {}]
<1>1. \/ r = Result("no", A, NoTx)
      \/ \E x : r = Result("uncertain", x, t1)
      \/ r = Result("ok", m, t2)
  BY DEF PersistDormant
<1>2. Transaction(NoTx) /\ Transaction(t1) /\ Transaction(t2)
  BY FS_EmptySet DEF Transaction, NoTx
<1>3. r.tx = NoTx \/ r.tx = t1 \/ r.tx = t2
  <2>1. \A outcome, x, t : Result(outcome, x, t).tx = t
    BY DEF Result
  <2> HIDE DEF r, m, t1, t2
  <2> QED
    BY <1>1, <2>1
<1>4. ASSUME r.outcome = "ok" PROVE r.list = m
  <2> HIDE DEF r, m, t1, t2
  <2> QED
    BY <1>1, <1>4 DEF Result
<1>5. Chosen(rows) \in SUBSET Stats
  BY DEF Chosen
<1>6. m \in Lists
  BY <1>5, AddCarriersLists
<1>7. ASSUME NEW s \in Stats, ReadOld(A, s) + rows[s] <= MaxPips
      PROVE  ReadOld(m, s) = ReadOld(A, s) + rows[s]
  <2>1. /\ BaseOld(m, s) = BaseOld(A, s) /\ (Unknown(m) <=> Unknown(A))
        /\ Carried(m, s) = Carried(A, s) + IF s \in Chosen(rows) THEN rows[s] ELSE 0
    BY <1>5, AddCarriersFact
  <2> HIDE DEF m
  <2>2. A \in Seq(Entries)
    BY ListsFact
  <2>3. ReadOld(A, s) \in Nat /\ BaseOld(A, s) \in Nat /\ Carried(A, s) \in Nat /\ rows[s] \in Nat
    BY <2>2, ReadFact, CarriedFact
  <2>4. ReadOld(A, s) <= MaxPips
    BY <1>7, <2>3, PipAssumption
  <2>5. ~Unknown(A) /\ ReadOld(A, s) = BaseOld(A, s) + Carried(A, s)
    BY <2>2, <2>3, <2>4, ReadableFact, PipAssumption DEF ReadOld
  <2>6. Carried(m, s) = Carried(A, s) + rows[s]
    BY <2>1, <2>3 DEF Chosen
  <2>7. BaseOld(m, s) + Carried(m, s) = ReadOld(A, s) + rows[s]
    BY <2>1, <2>3, <2>5, <2>6
  <2> QED
    BY <1>7, <2>1, <2>3, <2>5, <2>7, PipAssumption DEF ReadOld
<1> HIDE DEF r, m
<1> QED
  BY <1>2, <1>3, <1>4, <1>6, <1>7 DEF r
-----------------------------------------------------------------------------
(* The old class's pips, inductively.  Between screens a character keeps    *)
(* what it earned; on an open screen the records differ from the ones it    *)
(* found only as the plan and its transaction say.                          *)

\* What a character without an open journal reads.
Reads(a) ==
    /\ a.effects \in Lists
    /\ \A s \in Stats : a.earned[s] <= MaxPips =>
         IF a.usable THEN ReadActive(a.effects, s) >= a.earned[s]
         ELSE ReadOld(a.effects, s) = a.earned[s]
Kept(a) == a.earned \in [Stats -> Nat] /\ (a.journal.stage = "none" => Reads(a))

\* The game's own setter has written class records and nothing else.
NativeAlike(A, O) ==
    /\ OldAlike(A, O)
    /\ \A i \in 1..Len(A) : A[i].node = O[i].node /\ (A[i].kind # "set" => A[i] = O[i])

Unbound ==
    /\ tx = NoTx /\ plan.rows = NoRows /\ actor.usable
    /\ NativeAlike(actor.effects, opened)
    /\ \A s \in Stats : actor.earned[s] <= MaxPips =>
         ReadActive(opened, s) >= actor.earned[s] /\ ReadActive(actor.effects, s) >= actor.earned[s]
Bound ==
    /\ Whole(actor.effects, tx) => Framed(actor.effects, opened, tx)
    /\ \A s \in Stats : actor.earned[s] <= MaxPips => ReadOld(opened, s) = actor.earned[s]
Reactivated ==
    /\ actor.usable
    /\ \A s \in Stats : actor.earned[s] <= MaxPips =>
         AtLeast(actor.effects, tx, s, actor.earned[s] + plan.rows[s])
Dormant ==
    /\ ~actor.usable /\ \A x \in tx.recs : x.kind = "set"
    /\ \A s \in Stats : actor.earned[s] <= MaxPips => ReadOld(actor.effects, s) = actor.earned[s]
Screening ==
    /\ actor.effects \in Lists /\ opened \in Lists
    /\ plan.rows \in [Stats -> Nat] /\ plan.bound \in BOOLEAN /\ plan.tx = plan.bound
    /\ actor.journal.stage # "none"
    /\ ~plan.bound => Unbound
    /\ plan.bound => Bound
    /\ plan.bound /\ plan.merged => Reactivated
    /\ plan.bound /\ ~plan.merged => Dormant

Phases == view.phase \in {"closed", "preview", "uncertain"}
PipsInv ==
    /\ Kept(actor) /\ Kept(saved) /\ Transaction(tx) /\ Phases
    /\ InPreview => Screening

LEMMA NoTxFact == Transaction(NoTx)
BY FS_EmptySet DEF Transaction, NoTx

LEMMA InitPips == Init => PipsInv
<1> SUFFICES ASSUME Init PROVE PipsInv
  OBVIOUS
<1>1. PICK list \in StartLists, owned \in BOOLEAN :
         actor = [inc |-> 1, owned |-> owned, usable |-> FALSE, level |-> 1,
                  effects |-> list, native_hp |-> NoBatch, journal |-> NoJournal,
                  hp |-> 0, receipts |-> 0, receipt_hp |-> 0,
                  earned |-> [s \in Stats |-> ReadOld(list, s)]]
  BY DEF Init
<1>2. list \in Lists
  BY ListAssumption
<1>3. \A s \in Stats : ReadOld(list, s) \in Nat
  BY <1>2, ListsFact, ReadFact
<1>4. Kept(actor)
  BY <1>1, <1>2, <1>3 DEF Kept, Reads
<1>5. saved = actor /\ tx = NoTx /\ view = NoView
  BY DEF Init
<1> QED
  BY <1>4, <1>5, NoTxFact DEF PipsInv, Phases, InPreview, Same, Open, NoView

LEMMA PipsKept == IInv /\ PipsInv => OldPipsKept
<1> SUFFICES ASSUME PipsInv, NEW s \in Stats, actor.earned[s] <= MaxPips
             PROVE  /\ Settled /\ ~actor.usable => ReadOld(actor.effects, s) = actor.earned[s]
                    /\ Settled /\ actor.usable => ReadActive(actor.effects, s) >= actor.earned[s]
                    /\ InPreview /\ plan.bound =>
                         Most(ShownActive(s), ShownOld(s)) >= actor.earned[s] + plan.rows[s]
  BY DEF OldPipsKept
<1>1. Settled => /\ ~actor.usable => ReadOld(actor.effects, s) = actor.earned[s]
                 /\ actor.usable => ReadActive(actor.effects, s) >= actor.earned[s]
  BY DEF Settled, PipsInv, Kept, Reads
<1>2. ASSUME InPreview, plan.bound
      PROVE  Most(ShownActive(s), ShownOld(s)) >= actor.earned[s] + plan.rows[s]
  <2>1. /\ actor.effects \in Seq(Entries) /\ plan.rows[s] \in Nat /\ actor.earned[s] \in Nat
    BY <1>2, ListsFact DEF PipsInv, Kept, Screening
  <2>2. ReadActive(actor.effects, s) \in Nat /\ ReadOld(actor.effects, s) \in Nat
    BY <2>1, ReadFact
  <2>3. CASE plan.merged
    <3>1. ReadActive(actor.effects, s) >= actor.earned[s] + plan.rows[s]
      BY <1>2, <2>3 DEF PipsInv, Screening, Reactivated, AtLeast
    <3> QED
      BY <2>1, <2>2, <2>3, <3>1 DEF Most, ShownActive, ShownOld
  <2>4. CASE ~plan.merged
    <3>1. ReadOld(actor.effects, s) = actor.earned[s]
      BY <1>2, <2>4 DEF PipsInv, Screening, Dormant
    <3> QED
      BY <2>1, <2>2, <2>4, <3>1 DEF Most, ShownActive, ShownOld
  <2> QED
    BY <2>3, <2>4
<1> QED
  BY <1>1, <1>2

\* Marking a journal, and a handler that leaves its screen uncertain.
LEMMA MarkedKept ==
    ASSUME NEW a, NEW v, Character(a), Kept(a), NEW b, b \in Marked(a, v)
    PROVE  Kept(b)
<1>1. b = a \/ b = [a EXCEPT !.journal.stage = "uncertain"]
  BY DEF Marked
<1>2. CASE b = [a EXCEPT !.journal.stage = "uncertain"]
  <2>1. b.earned = a.earned /\ b.journal.stage = "uncertain"
    BY <1>2 DEF Character, Journal
  <2> QED
    BY <2>1 DEF Kept
<1> QED
  BY <1>1, <1>2

LEMMA UncertainPips ==
    ASSUME PipsInv, NEW a, NEW v, Character(a), Kept(a), Screen(v), Uncertain(a, v),
           saved' = saved, Transaction(tx')
    PROVE  PipsInv'
<1>1. view' = [v EXCEPT !.phase = "uncertain"] /\ actor' \in Marked(a, v)
  BY DEF Uncertain
<1>2. Kept(actor')
  BY <1>1, MarkedKept
<1>3. view'.phase = "uncertain"
  BY <1>1 DEF Screen
<1> QED
  BY <1>2, <1>3 DEF PipsInv, Phases, InPreview

\* The characters a handler makes of the one it finds have an open journal.
LEMMA WorkingKept ==
    ASSUME IInv, PipsInv
    PROVE  /\ \A v : Kept(Journaled(v)) /\ Journaled(v).earned = actor.earned
           /\ Kept(Prepared) /\ Kept(Levelled(Prepared))
           /\ Levelled(Prepared).earned = actor.earned
<1>1. Character(actor) /\ actor.earned \in [Stats -> Nat]
  BY DEF IInv, Typed, PipsInv, Kept
<1>2. \A v : Journaled(v).earned = actor.earned /\ Journaled(v).journal.stage = "preview"
  BY <1>1 DEF Journaled, Character
<1>3. Prepared.earned = actor.earned /\ Prepared.journal.stage = "committing"
  BY <1>1 DEF Prepared, Character, Journal
<1>4. /\ Levelled(Prepared).earned = actor.earned
      /\ Levelled(Prepared).journal.stage = "committing"
  <2>1. DOMAIN Prepared = DOMAIN actor
    BY DEF Prepared
  <2> HIDE DEF Prepared
  <2> QED
    BY <1>1, <1>3, <2>1 DEF Levelled, Character
<1> QED
  BY <1>1, <1>2, <1>3, <1>4 DEF Kept

\* A handler whose callbacks fail leaves the screen uncertain and no record written.
Failing ==
    \/ ResetWhileOpen \/ ResetRefused \/ OtherCharacter \/ CommitRefused
    \/ PrepareFails \/ CommitThrows \/ CancelRefused \/ CancelThrows

LEMMA FailingFact ==
    ASSUME IInv, PipsInv, Failing
    PROVE  /\ saved' = saved /\ tx' = tx
           /\ \E a, v : /\ Character(a) /\ Kept(a) /\ Screen(v) /\ Uncertain(a, v)
                        /\ a = actor \/ (a.journal.stage # "none" /\ (InPreview \/ ~Open))
<1> DEFINE w == [NewView EXCEPT !.owner = TRUE]
<1>1. /\ Character(actor) /\ Kept(actor) /\ Screen(view) /\ Screen(NewView) /\ Screen(w)
  BY NewViewFact DEF IInv, Typed, PipsInv
<1>2. /\ saved' = saved /\ tx' = tx
      /\ \/ Uncertain(actor, view) \/ Uncertain(actor, NewView)
         \/ JournalFree /\ ~Open /\ Uncertain(Journaled(NewView), w)
         \/ InPreview /\ actor.journal.stage = "preview" /\ Uncertain(Prepared, view)
         \/ InPreview /\ actor.journal.stage = "preview" /\ Uncertain(Levelled(Prepared), view)
  BY DEF Failing, ResetWhileOpen, ResetRefused, OtherCharacter, CommitRefused, PrepareFails,
         CommitThrows, CancelRefused, CancelThrows, StartSession, CanOpen, Committable
<1> HIDE DEF w
<1>3. Kept(Journaled(NewView)) /\ Kept(Prepared) /\ Kept(Levelled(Prepared))
  BY WorkingKept
<1>4. JournalFree => /\ Character(Journaled(NewView))
                     /\ Journaled(NewView).journal.stage # "none"
  BY JournaledFact
<1>5. actor.journal.stage = "preview" =>
        /\ Character(Prepared) /\ Prepared.journal.stage # "none"
        /\ Character(Levelled(Prepared)) /\ Levelled(Prepared).journal.stage # "none"
  BY PreparedFact, LevelledFact
<1> QED
  BY <1>1, <1>2, <1>3, <1>4, <1>5

LEMMA FailedPips ==
    ASSUME IInv, PipsInv, Failing
    PROVE  PipsInv'
<1>1. /\ saved' = saved /\ tx' = tx
      /\ \E a, v : Character(a) /\ Kept(a) /\ Screen(v) /\ Uncertain(a, v)
  BY FailingFact
<1>2. Transaction(tx')
  BY <1>1 DEF PipsInv
<1> QED
  BY <1>1, <1>2, UncertainPips

\* No screen is open after these: an ordinary one, a save or a load.
LEMMA ClosedPips ==
    ASSUME IInv, PipsInv, ~InPreview', Kept(actor'), Kept(saved'), Transaction(tx'), Phases'
    PROVE  PipsInv'
BY DEF PipsInv

LEMMA OrdinaryPips ==
    ASSUME IInv, PipsInv, ResetOrdinary \/ EndOrdinary
    PROVE  PipsInv'
<1>1. actor' = actor /\ saved' = saved /\ tx' = tx
  BY DEF ResetOrdinary, EndOrdinary
<1>2. view'.phase = "closed" /\ Phases'
  BY DEF ResetOrdinary, EndOrdinary, Open, NoView, Phases
<1>3. Kept(actor') /\ Kept(saved') /\ Transaction(tx')
  BY <1>1 DEF PipsInv
<1> QED
  BY <1>2, <1>3, ClosedPips DEF InPreview, Same, Open

LEMMA SavePips ==
    ASSUME IInv, PipsInv, Save
    PROVE  PipsInv'
<1>1. /\ actor' = actor /\ saved' = actor /\ view' = view /\ plan' = plan
      /\ tx' = tx /\ opened' = opened
  BY DEF Save
<1> QED
  BY <1>1 DEF PipsInv, Phases, InPreview, Same, Open, Screening, Unbound, Bound,
              Reactivated, Dormant

LEMMA LoadedKept ==
    ASSUME IInv, PipsInv, NEW STATE n, actor' = [saved EXCEPT !.inc = n, !.native_hp = NoBatch]
    PROVE  Kept(actor')
<1>1. Character(saved) /\ Kept(saved)
  BY DEF IInv, Typed, PipsInv
<1>2. /\ actor'.earned = saved.earned /\ actor'.journal = saved.journal
      /\ actor'.effects = saved.effects /\ actor'.usable = saved.usable
  BY <1>1 DEF Character
<1> QED
  BY <1>1, <1>2 DEF Kept, Reads

LEMMA LoadPips ==
    ASSUME IInv, PipsInv, Load
    PROVE  PipsInv'
<1>1. /\ actor.inc \in Nat /\ Screen(view)
      /\ view' = view /\ saved' = saved /\ tx' = tx
      /\ actor' = [saved EXCEPT !.inc = actor.inc + 1, !.native_hp = NoBatch]
  BY DEF IInv, Typed, Character, Load, Reload, observers
<1>2. Character(saved)
  BY DEF IInv, Typed
<1>3. actor'.inc = actor.inc + 1
  BY <1>1, <1>2 DEF Character
<1>4. Open => view.inc < actor'.inc
  BY <1>1, <1>3 DEF IInv, NotAhead, Screen
<1>5. ~InPreview'
  BY <1>1, <1>3, <1>4 DEF InPreview, Same, Open, Screen
<1>6. Kept(actor')
  BY <1>1, LoadedKept
<1>7. Kept(saved') /\ Transaction(tx') /\ Phases'
  BY <1>1 DEF PipsInv, Phases
<1> QED
  BY <1>5, <1>6, <1>7, ClosedPips

LEMMA RestartPips ==
    ASSUME IInv, PipsInv, Restart
    PROVE  PipsInv'
<1>1. /\ view' = NoView /\ saved' = saved /\ tx' = NoTx
      /\ actor' = [saved EXCEPT !.inc = 1, !.native_hp = NoBatch]
  BY DEF Restart
<1>2. Kept(actor')
  BY <1>1, LoadedKept
<1>3. Kept(saved') /\ Transaction(tx')
  BY <1>1, NoTxFact DEF PipsInv
<1> QED
  BY <1>1, <1>2, <1>3, ClosedPips DEF Phases, InPreview, Same, Open, NoView

\* A record the game recalculates reads as before, and a transaction that owned
\* it is whole no more.
LEMMA ReplacedReads ==
    ASSUME NEW l \in Lists, NEW i \in 1..Len(l), Transaction(tx)
    PROVE  LET m == Replaced(l, i)
           IN  /\ m \in Lists
               /\ \A s : ReadOld(m, s) = ReadOld(l, s) /\ ReadActive(m, s) = ReadActive(l, s)
               /\ Owns(tx, l[i]) => ~Whole(m, tx)
               /\ \A s, n : AtLeast(l, tx, s, n) => AtLeast(m, tx, s, n)
<1> DEFINE m == Replaced(l, i)
<1>1. IsFiniteSet(tx.recs)
  BY DEF Transaction
<1>2. /\ m \in Lists /\ OldAlike(l, m) /\ ActAlike(l, m)
      /\ \A j \in 1..Len(l) : j # i => m[j] = l[j]
      /\ m[i].node \notin Nodes(l)
      /\ \A r \in tx.recs : r.node # m[i].node
  BY <1>1, ReplacedFact
<1> HIDE DEF m
<1>3. l \in Seq(Entries) /\ m \in Seq(Entries) /\ Len(m) = Len(l) /\ DOMAIN m = 1..Len(l)
  BY <1>2, ListsFact, ListFact DEF OldAlike
<1>4. \A s : /\ ReadOld(m, s) = ReadOld(l, s) /\ ReadActive(m, s) = ReadActive(l, s)
             /\ Sets(m, s) = Sets(l, s)
  BY <1>2, <1>3, AlikeFact
<1>5. ASSUME Owns(tx, l[i]), Whole(m, tx)
      PROVE  FALSE
  <2>1. PICK r \in tx.recs : r.node = l[i].node
    BY <1>5 DEF Owns
  <2>2. Present(m, r)
    BY <1>5, <2>1 DEF Whole
  <2>3. PICK j \in 1..Len(l) : m[j].node = l[i].node
    BY <1>3, <2>1, <2>2 DEF Present
  <2>4. m[i].node # l[i].node
    BY <1>2, <1>3, NodesFact
  <2>5. l[j].node = l[i].node
    BY <1>2, <2>3, <2>4
  <2>6. j = i
    BY <2>5, ListsFact
  <2> QED
    BY <2>3, <2>4, <2>6
<1>6. ASSUME NEW s, NEW n, AtLeast(l, tx, s, n)
      PROVE  AtLeast(m, tx, s, n)
  <2>1. ReadActive(m, s) >= n
    BY <1>4, <1>6 DEF AtLeast
  <2>2. ASSUME Sets(m, s) # {}, NEW r \in tx.recs, r.node = LastSet(m, s).node
        PROVE  r.start \in Nat /\ r.start >= n
    <3> DEFINE k == Max(Sets(l, s))
    <3>1. Sets(l, s) # {} /\ k \in 1..Len(l) /\ LastSet(l, s) = l[k] /\ LastSet(m, s) = m[k]
      BY <1>3, <1>4, <2>2, LastFact
    <3>2. k # i
      BY <1>2, <2>2, <3>1
    <3>3. LastSet(m, s) = LastSet(l, s)
      BY <1>2, <3>1, <3>2
    <3> QED
      BY <1>6, <2>2, <3>1, <3>3 DEF AtLeast
  <2> QED
    BY <2>1, <2>2 DEF AtLeast
<1> QED
  BY <1>2, <1>4, <1>5, <1>6 DEF m

LEMMA RecalculatePips ==
    ASSUME IInv, PipsInv, Recalculate
    PROVE  PipsInv'
<1>1. PICK i \in DOMAIN actor.effects :
         Owns(tx, actor.effects[i]) /\ actor' = [actor EXCEPT !.effects = Replaced(actor.effects, i)]
  BY DEF Recalculate
<1> DEFINE l == actor.effects
           m == Replaced(l, i)
<1>2. /\ saved' = saved /\ view' = view /\ plan' = plan /\ tx' = tx /\ opened' = opened
      /\ Character(actor) /\ Kept(actor) /\ Kept(saved) /\ Transaction(tx)
  BY DEF Recalculate, IInv, Typed, PipsInv
<1> HIDE DEF m
<1>3. /\ actor'.effects = m /\ actor'.usable = actor.usable /\ actor'.earned = actor.earned
      /\ actor'.journal = actor.journal /\ actor'.inc = actor.inc
  BY <1>1, <1>2 DEF Character, m
<1>4. ASSUME l \in Lists
      PROVE  /\ m \in Lists
             /\ \A s : ReadOld(m, s) = ReadOld(l, s) /\ ReadActive(m, s) = ReadActive(l, s)
             /\ Owns(tx, l[i]) => ~Whole(m, tx)
             /\ \A s, n : AtLeast(l, tx, s, n) => AtLeast(m, tx, s, n)
  <2>1. i \in 1..Len(l)
    BY <1>4, ListsFact, ListFact
  <2> HIDE DEF l
  <2> QED
    BY <1>2, <1>4, <2>1, ReplacedReads DEF m
<1>5. Kept(actor')
  BY <1>2, <1>3, <1>4 DEF Kept, Reads
<1>6. ASSUME InPreview PROVE Screening'
  <2>1. Screening
    BY <1>6 DEF PipsInv
  <2>2. plan.bound
    <3>1. tx # NoTx
      BY <1>1 DEF Owns, NoTx
    <3> QED
      BY <2>1, <3>1 DEF Screening, Unbound
  <2>3. l \in Lists /\ ~Whole(m, tx)
    BY <1>1, <1>4, <2>1 DEF Screening
  <2>4. Bound'
    BY <1>2, <1>3, <2>1, <2>2, <2>3 DEF Screening, Bound
  <2>5. plan.merged => Reactivated'
    BY <1>2, <1>3, <1>4, <2>1, <2>2, <2>3 DEF Screening, Reactivated
  <2>6. ~plan.merged => Dormant'
    BY <1>2, <1>3, <1>4, <2>1, <2>2, <2>3 DEF Screening, Dormant
  <2> QED
    BY <1>2, <1>3, <1>4, <2>1, <2>2, <2>3, <2>4, <2>5, <2>6 DEF Screening
<1>7. InPreview' => InPreview
  BY <1>2, <1>3 DEF InPreview, Same, Open
<1> QED
  BY <1>2, <1>5, <1>6, <1>7 DEF PipsInv, Phases

LEMMA ChoosePips ==
    ASSUME IInv, PipsInv, NEW stat \in Stats, NEW pips \in Pips, NEW added,
           Choose(stat, pips, added)
    PROVE  PipsInv'
<1> DEFINE l == actor.effects
           r == IF plan.bound THEN SetActive(l, tx, stat, pips, added)
                ELSE Result("ok", NativeSet(l, stat, pips), tx)
<1>1. /\ saved' = saved /\ view' = view /\ plan' = plan /\ tx' = r.tx /\ opened' = opened
      /\ actor' = [actor EXCEPT !.effects = r.list]
      /\ plan.bound \/ pips >= ReadActive(opened, stat)
      /\ InPreview /\ Character(actor) /\ Kept(actor) /\ Kept(saved) /\ Transaction(tx)
      /\ Screening /\ pips \in Nat
  BY PipAssumption DEF Choose, NotBelowOpened, IInv, Typed, PipsInv, Pips
<1> HIDE DEF r
<1>2. /\ actor'.effects = r.list /\ actor'.usable = actor.usable /\ actor'.earned = actor.earned
      /\ actor'.journal = actor.journal /\ actor'.inc = actor.inc
  BY <1>1 DEF Character
<1>3. l \in Lists /\ opened \in Lists /\ actor.earned \in [Stats -> Nat] /\ plan.rows \in [Stats -> Nat]
  BY <1>1 DEF Screening, Kept
<1>4. ASSUME plan.bound
      PROVE  Screening' /\ Transaction(tx')
  <2>1. /\ r = SetActive(l, tx, stat, pips, added)
        /\ Whole(l, tx) => Framed(l, opened, tx)
    BY <1>1, <1>4 DEF r, Screening, Bound
  <2>2. /\ r.list \in Lists /\ Transaction(r.tx)
        /\ Whole(r.list, r.tx) => Framed(r.list, opened, r.tx)
        /\ \A s \in Stats, n \in Nat : AtLeast(l, tx, s, n) => AtLeast(r.list, r.tx, s, n)
        /\ \A s : ReadOld(r.list, s) = ReadOld(l, s)
        /\ (\A x \in tx.recs : x.kind = "set") => (\A x \in r.tx.recs : x.kind = "set")
    <3> HIDE DEF l
    <3> QED
      BY <1>1, <1>3, <2>1, SetActiveFact
  <2>3. Bound'
    BY <1>1, <1>2, <1>4, <2>2 DEF Screening, Bound
  <2>4. ASSUME plan.merged PROVE Reactivated'
    <3>1. ASSUME NEW s \in Stats, actor.earned[s] <= MaxPips
          PROVE  AtLeast(r.list, r.tx, s, actor.earned[s] + plan.rows[s])
      <4>1. AtLeast(l, tx, s, actor.earned[s] + plan.rows[s])
        BY <1>1, <1>4, <2>4, <3>1 DEF Screening, Reactivated
      <4>2. actor.earned[s] + plan.rows[s] \in Nat
        BY <1>3
      <4> QED
        BY <2>2, <4>1, <4>2
    <3> QED
      BY <1>1, <1>2, <1>4, <2>4, <3>1 DEF Screening, Reactivated
  <2>5. ~plan.merged => Dormant'
    BY <1>1, <1>2, <1>4, <2>2 DEF Screening, Dormant
  <2> QED
    BY <1>1, <1>2, <1>3, <1>4, <2>2, <2>3, <2>4, <2>5 DEF Screening
<1>5. ASSUME ~plan.bound
      PROVE  Screening' /\ Transaction(tx')
  <2> DEFINE m == NativeSet(l, stat, pips)
  <2>1. r.list = m /\ r.tx = tx /\ Unbound
    BY <1>1, <1>5 DEF r, Result, Screening
  <2>2. /\ m \in Lists /\ OldAlike(l, m) /\ Len(m) = Len(l)
        /\ \A i \in 1..Len(l) : m[i].node = l[i].node /\ (l[i].kind # "set" => m[i] = l[i])
        /\ \A s : ReadActive(m, s) = IF s = stat /\ Sets(l, s) # {} THEN pips ELSE ReadActive(l, s)
    <3> HIDE DEF l
    <3> QED
      BY <1>1, <1>3, NativeSetFact
  <2> HIDE DEF m
  <2>3. NativeAlike(m, opened)
    BY <2>1, <2>2 DEF Unbound, NativeAlike, OldAlike
  <2>4. ASSUME NEW s \in Stats, actor.earned[s] <= MaxPips
        PROVE  ReadActive(m, s) >= actor.earned[s]
    <3>1. ReadActive(opened, s) >= actor.earned[s] /\ ReadActive(l, s) >= actor.earned[s]
      BY <2>1, <2>4 DEF Unbound
    <3>2. ReadActive(opened, s) \in Nat /\ actor.earned[s] \in Nat
      BY <1>3, ListsFact, ReadFact
    <3>3. CASE s = stat /\ Sets(l, s) # {}
      <4>1. ReadActive(m, s) = pips /\ pips >= ReadActive(opened, s)
        BY <1>1, <1>5, <2>2, <3>3
      <4> QED
        BY <1>1, <3>1, <3>2, <4>1
    <3>4. CASE ~(s = stat /\ Sets(l, s) # {})
      BY <2>2, <3>1, <3>4
    <3> QED
      BY <3>3, <3>4
  <2>5. Unbound'
    BY <1>1, <1>2, <2>1, <2>3, <2>4 DEF Unbound
  <2> QED
    BY <1>1, <1>2, <1>3, <1>5, <2>1, <2>2, <2>5 DEF Screening
<1>6. Kept(actor')
  BY <1>1, <1>2 DEF Kept, Screening
<1>7. plan.bound \in BOOLEAN
  BY <1>1 DEF Screening
<1> QED
  BY <1>1, <1>4, <1>5, <1>6, <1>7 DEF PipsInv, Phases

\* A reset selects the old class's choices of a dormant class, and none of another.
LEMMA SelectedFact ==
    ASSUME NEW rows \in Rows, Selectable(rows)
    PROVE  /\ DOMAIN Selected(rows) = {"bound", "rows", "merged", "tx"}
           /\ Selected(rows).bound \in BOOLEAN /\ (Selected(rows).bound <=> ~actor.usable)
           /\ Selected(rows).rows = rows /\ rows \in [Stats -> Nat]
           /\ actor.usable => rows = NoRows
<1>1. rows \in [Stats -> Nat]
  BY DEF Rows
<1> QED
  BY <1>1 DEF Selectable, Selected, NoPlan

\* What an opening handler finds and leaves, by the records it may write.
Opening(bound, react, rows, made, added) ==
    IF bound /\ react THEN ApplyPreview(actor.effects, rows, made, added)
    ELSE IF bound THEN BeginActive(actor.effects)
    ELSE Result("ok", actor.effects, NoTx)
LEMMA OpeningFact ==
    ASSUME Kept(actor), JournalFree, NEW rows \in Rows, NEW react \in BOOLEAN,
           NEW made, NEW added, NEW bound \in BOOLEAN, bound <=> ~actor.usable
    PROVE  LET l == actor.effects
               r == Opening(bound, react, rows, made, added)
           IN  /\ l \in Lists /\ Transaction(r.tx)
               /\ ~bound => r.list = l /\ r.tx = NoTx
               /\ ~bound => \A s \in Stats : actor.earned[s] <= MaxPips =>
                              ReadActive(l, s) >= actor.earned[s]
               /\ bound /\ r.outcome = "ok" =>
                    r.list \in Lists /\ r.tx # NoTx /\ Framed(r.list, l, r.tx)
               /\ bound => \A s \in Stats : actor.earned[s] <= MaxPips =>
                              ReadOld(l, s) = actor.earned[s]
               /\ bound /\ ~react => r.list = l /\ \A x \in r.tx.recs : x.kind = "set"
               /\ bound /\ react /\ r.outcome = "ok" =>
                    \A s \in Stats : actor.earned[s] <= MaxPips =>
                       AtLeast(r.list, r.tx, s, actor.earned[s] + rows[s])
<1> DEFINE l == actor.effects
           merged == ApplyPreview(l, rows, made, added)
           begun == BeginActive(l)
           r == Opening(bound, react, rows, made, added)
<1>1. /\ l \in Lists
      /\ \A s \in Stats : actor.earned[s] <= MaxPips =>
           IF actor.usable THEN ReadActive(l, s) >= actor.earned[s]
           ELSE ReadOld(l, s) = actor.earned[s]
  BY DEF Kept, Reads, JournalFree
<1>2. rows \in [Stats -> Nat]
  BY DEF Rows
<1>3. /\ merged.outcome = "ok" => merged.tx.state = "applied"
      /\ begun.tx.state = "applied"
  BY DEF ApplyPreview, BeginActive, Result
<1>4. /\ Transaction(merged.tx)
      /\ merged.outcome = "ok" =>
           /\ merged.list \in Lists /\ Framed(merged.list, l, merged.tx)
           /\ \A s \in Stats : ReadOld(l, s) <= MaxPips =>
                AtLeast(merged.list, merged.tx, s, ReadOld(l, s) + rows[s])
  <2> HIDE DEF l
  <2> QED
    BY <1>1, <1>2, MergeFact
<1>5. /\ begun.outcome = "ok" /\ begun.list = l /\ Transaction(begun.tx)
      /\ \A x \in begun.tx.recs : x.kind = "set"
      /\ Framed(l, l, begun.tx)
  <2> HIDE DEF l
  <2> QED
    BY <1>1, BeginFact
<1> HIDE DEF merged, begun
<1>6. Result("ok", l, NoTx).list = l /\ Result("ok", l, NoTx).tx = NoTx
  BY DEF Result
<1>7. merged.outcome = "ok" => merged.tx # NoTx
  BY <1>3 DEF NoTx
<1>8. begun.tx # NoTx
  BY <1>3 DEF NoTx
<1>9. Transaction(r.tx)
  BY <1>4, <1>5, <1>6, NoTxFact DEF Opening, merged, begun
<1>10. bound /\ react => r = merged
  BY DEF Opening, merged
<1>11. bound /\ ~react => r = begun
  BY DEF Opening, begun
<1>12. bound /\ r.outcome = "ok" => r.list \in Lists /\ r.tx # NoTx /\ Framed(r.list, l, r.tx)
  BY <1>1, <1>4, <1>5, <1>7, <1>8, <1>10, <1>11
<1>13. bound /\ ~react => r.list = l /\ \A x \in r.tx.recs : x.kind = "set"
  BY <1>5, <1>11
<1>14. bound /\ react /\ r.outcome = "ok" =>
         \A s \in Stats : actor.earned[s] <= MaxPips =>
            AtLeast(r.list, r.tx, s, actor.earned[s] + rows[s])
  BY <1>1, <1>4, <1>10
<1>15. ~bound => r.list = l /\ r.tx = NoTx
  BY <1>6 DEF Opening
<1> HIDE DEF r
<1> QED
  BY <1>1, <1>9, <1>12, <1>13, <1>14, <1>15 DEF r

LEMMA ResetOwnedPips ==
    ASSUME IInv, PipsInv, NEW rows \in Rows, NEW react \in BOOLEAN, NEW made, NEW added, NEW b,
           ResetOwned(rows, react, made, added, b)
    PROVE  PipsInv'
<1> DEFINE v == [NewView EXCEPT !.owner = TRUE, !.hp = b.status]
           p == Selected(rows)
           merge == p.bound /\ react
           l == actor.effects
           r == IF merge THEN ApplyPreview(l, rows, made, added)
                ELSE IF p.bound THEN BeginActive(l)
                ELSE Result("ok", l, NoTx)
           j == Journaled(v)
           a == [j EXCEPT !.effects = r.list, !.native_hp = NativeRoll(b),
                          !.usable = actor.usable \/ (merge /\ r.outcome = "ok")]
           plan1 == [p EXCEPT !.merged = merge /\ r.outcome = "ok", !.tx = r.tx # NoTx]
<1>1. /\ JournalFree /\ Selectable(rows) /\ saved' = saved /\ tx' = r.tx
      /\ plan' = plan1 /\ opened' = l
      /\ IF r.outcome = "ok" THEN view' = v /\ actor' = a ELSE Uncertain(a, v)
  BY DEF ResetOwned, StartSession
<1>2. /\ DOMAIN p = {"bound", "rows", "merged", "tx"}
      /\ p.bound \in BOOLEAN /\ (p.bound <=> ~actor.usable)
      /\ p.rows = rows /\ rows \in [Stats -> Nat] /\ (actor.usable => rows = NoRows)
  BY <1>1, SelectedFact
<1>3. Screen(v) /\ v.phase = "preview"
  BY DEF IInv, Typed, Character, Screen, NewView
<1>4. Kept(actor) /\ Kept(saved)
  BY DEF PipsInv
<1>5. /\ Character(j) /\ j.journal.stage = "preview" /\ j.earned = actor.earned
  BY <1>1, JournaledFact, WorkingKept
<1>6. /\ l \in Lists /\ Transaction(r.tx)
      /\ ~p.bound => r.list = l /\ r.tx = NoTx
      /\ ~p.bound => \A s \in Stats : actor.earned[s] <= MaxPips =>
                        ReadActive(l, s) >= actor.earned[s]
      /\ p.bound /\ r.outcome = "ok" =>
           r.list \in Lists /\ r.tx # NoTx /\ Framed(r.list, l, r.tx)
      /\ p.bound => \A s \in Stats : actor.earned[s] <= MaxPips =>
                        ReadOld(l, s) = actor.earned[s]
      /\ p.bound /\ ~react => r.list = l /\ \A x \in r.tx.recs : x.kind = "set"
      /\ p.bound /\ react /\ r.outcome = "ok" =>
           \A s \in Stats : actor.earned[s] <= MaxPips =>
              AtLeast(r.list, r.tx, s, actor.earned[s] + rows[s])
  <2>1. r = Opening(p.bound, react, rows, made, added)
    BY DEF Opening
  <2> HIDE DEF p, r
  <2> QED
    BY <1>1, <1>2, <1>4, <2>1, OpeningFact
<1> HIDE DEF v, r, j, p
<1>7. /\ Character(a) /\ a.journal = j.journal /\ a.earned = j.earned /\ a.effects = r.list
      /\ a.usable = (actor.usable \/ (merge /\ r.outcome = "ok"))
  BY <1>5 DEF Character
<1>8. /\ plan1.bound = p.bound /\ plan1.rows = rows
      /\ plan1.merged = (merge /\ r.outcome = "ok") /\ plan1.tx = (r.tx # NoTx)
  BY <1>2
<1> HIDE DEF a, plan1
<1>9. Kept(a)
  BY <1>4, <1>5, <1>7 DEF Kept
<1>10. CASE r.outcome # "ok"
  <2>1. Uncertain(a, v) /\ Transaction(tx')
    BY <1>1, <1>6, <1>10
  <2> QED
    BY <1>1, <1>3, <1>7, <1>9, <2>1, UncertainPips
<1>11. CASE r.outcome = "ok"
  <2>1. view' = v /\ actor' = a
    BY <1>1, <1>11
  <2>2. Kept(actor') /\ Kept(saved') /\ Transaction(tx') /\ Phases'
    BY <1>1, <1>3, <1>4, <1>6, <1>9, <2>1 DEF Phases
  <2>3. CASE ~p.bound
    <3>1. r.tx = NoTx /\ r.list = l /\ rows = NoRows /\ actor.usable
      BY <1>2, <1>6, <2>3
    <3>2. NativeAlike(l, l)
      BY DEF NativeAlike, OldAlike
    <3>3. Unbound'
      BY <1>1, <1>5, <1>6, <1>7, <1>8, <2>1, <2>3, <3>1, <3>2 DEF Unbound
    <3>4. Screening'
      BY <1>1, <1>2, <1>5, <1>6, <1>7, <1>8, <2>1, <2>3, <3>1, <3>3 DEF Screening
    <3> QED
      BY <2>2, <3>4 DEF PipsInv
  <2>4. CASE p.bound
    <3>1. Bound'
      BY <1>1, <1>5, <1>6, <1>7, <1>11, <2>1, <2>4 DEF Bound
    <3>2. react => Reactivated'
      BY <1>1, <1>5, <1>6, <1>7, <1>8, <1>11, <2>1, <2>4 DEF Reactivated
    <3>3. ~react => Dormant'
      BY <1>1, <1>2, <1>5, <1>6, <1>7, <1>8, <1>11, <2>1, <2>4 DEF Dormant
    <3>4. Screening'
      BY <1>1, <1>2, <1>5, <1>6, <1>7, <1>8, <1>11, <2>1, <2>4, <3>1, <3>2, <3>3 DEF Screening
    <3> QED
      BY <2>2, <3>4 DEF PipsInv
  <2> QED
    BY <2>3, <2>4
<1> QED
  BY <1>10, <1>11

\* What a character with its receipt reads: CBMDL_AfterCommit on records that
\* read as the preview's do.
Earns(l, s) ==
    actor.earned[s] + plan.rows[s] <= MaxPips =>
        IF actor.usable THEN ReadActive(l, s) >= actor.earned[s] + plan.rows[s]
        ELSE ReadOld(l, s) = actor.earned[s] + plan.rows[s]

LEMMA AfterCommitFact ==
    ASSUME PipsInv, InPreview, NEW made, NEW added, NEW l \in Lists,
           \A s : ReadOld(l, s) = ReadOld(actor.effects, s)
                  /\ ReadActive(l, s) = ReadActive(actor.effects, s)
    PROVE  LET r == AfterCommit(l, made, added)
           IN  /\ Transaction(r.tx)
               /\ r.outcome = "ok" => r.list \in Lists /\ \A s \in Stats : Earns(r.list, s)
<1> DEFINE r == AfterCommit(l, made, added)
           c == Complete(l, tx)
           q == PersistDormant(c.list, plan.rows, made, added)
<1>1. /\ Screening /\ Transaction(tx)
      /\ actor.earned \in [Stats -> Nat] /\ plan.rows \in [Stats -> Nat]
  BY DEF PipsInv, Screening, Kept
<1>2. \A s \in Stats : /\ actor.earned[s] \in Nat /\ plan.rows[s] \in Nat
                       /\ actor.earned[s] + plan.rows[s] <= MaxPips => actor.earned[s] <= MaxPips
  BY <1>1, PipAssumption
<1>3. /\ c.tx \in {tx, NoTx}
      /\ c.outcome = "ok" =>
           /\ c.list \in Lists
           /\ \A s : ReadActive(c.list, s) = ReadActive(l, s)
           /\ (\A x \in tx.recs : x.kind = "set") => c.list = l
  BY CompleteFact
<1> HIDE DEF c
<1>4. Transaction(c.tx)
  BY <1>1, <1>3, NoTxFact
<1>5. CASE ~plan.bound
  <2>1. r = Result("ok", l, tx)
    BY <1>5 DEF AfterCommit
  <2>2. r.list = l /\ r.tx = tx
    BY <2>1 DEF Result
  <2>3. Unbound
    BY <1>1, <1>5 DEF Screening
  <2>4. ASSUME NEW s \in Stats PROVE Earns(l, s)
    <3>1. plan.rows[s] = 0 /\ actor.usable
      BY <2>3 DEF Unbound, NoRows
    <3>2. actor.earned[s] + plan.rows[s] = actor.earned[s]
      BY <1>2, <3>1
    <3>3. actor.earned[s] <= MaxPips => ReadActive(l, s) >= actor.earned[s]
      BY <2>3 DEF Unbound
    <3> QED
      BY <3>1, <3>2, <3>3 DEF Earns
  <2> HIDE DEF r
  <2> QED
    BY <1>1, <2>2, <2>4 DEF r
<1>6. CASE plan.bound /\ (plan.merged \/ c.outcome # "ok" \/ plan.rows = NoRows)
  <2>1. r = c
    BY <1>6 DEF AfterCommit, c
  <2>2. ASSUME c.outcome = "ok", plan.merged, NEW s \in Stats PROVE Earns(c.list, s)
    <3>1. Reactivated
      BY <1>1, <1>6, <2>2 DEF Screening
    <3>2. actor.earned[s] <= MaxPips =>
            ReadActive(actor.effects, s) >= actor.earned[s] + plan.rows[s]
      BY <3>1 DEF Reactivated, AtLeast
    <3>3. ReadActive(c.list, s) = ReadActive(actor.effects, s) /\ actor.usable
      BY <1>3, <2>2, <3>1 DEF Reactivated
    <3> QED
      BY <1>2, <3>2, <3>3 DEF Earns
  <2>3. ASSUME c.outcome = "ok", ~plan.merged, NEW s \in Stats PROVE Earns(c.list, s)
    <3>1. Dormant /\ plan.rows[s] = 0
      BY <1>1, <1>6, <2>3 DEF Screening, NoRows
    <3>2. c.list = l
      BY <1>3, <2>3, <3>1 DEF Dormant
    <3>3. ~actor.usable /\ (actor.earned[s] <= MaxPips => ReadOld(l, s) = actor.earned[s])
      BY <3>1 DEF Dormant
    <3>4. actor.earned[s] + plan.rows[s] = actor.earned[s]
      BY <1>2, <3>1
    <3> QED
      BY <3>2, <3>3, <3>4 DEF Earns
  <2> HIDE DEF r
  <2> QED
    BY <1>3, <1>4, <2>1, <2>2, <2>3 DEF r
<1>7. CASE plan.bound /\ ~(plan.merged \/ c.outcome # "ok" \/ plan.rows = NoRows)
  <2>1. r = q
    BY <1>7 DEF AfterCommit, c
  <2>2. Dormant
    BY <1>1, <1>7 DEF Screening
  <2>3. c.list = l
    BY <1>3, <1>7, <2>2 DEF Dormant
  <2>4. /\ Transaction(q.tx)
        /\ q.outcome = "ok" =>
             /\ q.list \in Lists
             /\ \A s \in Stats : ReadOld(l, s) + plan.rows[s] <= MaxPips =>
                  ReadOld(q.list, s) = ReadOld(l, s) + plan.rows[s]
    BY <1>1, <2>3, PersistFact
  <2> HIDE DEF q, r
  <2>5. ASSUME q.outcome = "ok", NEW s \in Stats PROVE Earns(q.list, s)
    <3>1. ~actor.usable /\ (actor.earned[s] <= MaxPips => ReadOld(l, s) = actor.earned[s])
      BY <2>2 DEF Dormant
    <3> QED
      BY <1>2, <2>4, <2>5, <3>1 DEF Earns
  <2> QED
    BY <2>1, <2>4, <2>5 DEF r
<1> QED
  BY <1>5, <1>6, <1>7

LEMMA CommitPips ==
    ASSUME IInv, PipsInv, NEW replaced \in Nat, NEW made, NEW added, NEW completes,
           Commit(replaced, made, added, completes)
    PROVE  PipsInv'
<1> DEFINE l == actor.effects
           list == IF replaced \in DOMAIN l THEN Replaced(l, replaced) ELSE l
           r == AfterCommit(list, made, added)
           w == Levelled(Prepared)
           a == [w EXCEPT !.effects = r.list]
           done == r.outcome = "ok" /\ completes
           given == IF done THEN Receipted(a) ELSE a
<1>1. /\ actor.journal.stage = "preview" /\ InPreview /\ Settle(done, given)
      /\ saved' = saved /\ tx' = (IF r.outcome = "ok" THEN NoTx ELSE r.tx)
  BY DEF Commit, Committable
<1>2. /\ Character(actor) /\ Screen(view) /\ Kept(actor) /\ Kept(saved) /\ Transaction(tx)
      /\ Screening /\ l \in Lists
      /\ actor.earned \in [Stats -> Nat] /\ plan.rows \in [Stats -> Nat]
  BY <1>1 DEF IInv, Typed, PipsInv, Screening, Kept
<1>3. /\ list \in Lists
      /\ \A s : ReadOld(list, s) = ReadOld(l, s) /\ ReadActive(list, s) = ReadActive(l, s)
  <2>1. DOMAIN l = 1..Len(l)
    BY <1>2, ListsFact, ListFact
  <2> HIDE DEF l
  <2>2. CASE replaced \in DOMAIN l
    BY <1>2, <2>1, <2>2, ReplacedReads
  <2>3. CASE replaced \notin DOMAIN l
    BY <1>2, <2>3
  <2> QED
    BY <2>2, <2>3
<1> HIDE DEF list
<1>4. /\ Transaction(r.tx)
      /\ r.outcome = "ok" => r.list \in Lists /\ \A s \in Stats : Earns(r.list, s)
  BY <1>1, <1>3, AfterCommitFact
<1> HIDE DEF r
<1>5. Transaction(tx')
  BY <1>1, <1>4, NoTxFact
<1>6. /\ Character(w) /\ w.earned = actor.earned /\ w.usable = actor.usable
      /\ w.journal.stage = "committing"
  <2>1. Prepared.usable = actor.usable /\ DOMAIN Prepared = DOMAIN actor
    BY <1>2 DEF Prepared, Character
  <2>2. w.usable = actor.usable
    <3> HIDE DEF Prepared
    <3> QED
      BY <1>2, <2>1 DEF Levelled, Character
  <2> QED
    BY <1>1, <2>2, WorkingKept, LevelledFact
<1> HIDE DEF w
<1>7. /\ Character(a) /\ a.effects = r.list /\ a.earned = actor.earned
      /\ a.usable = actor.usable /\ a.journal.stage = "committing"
  BY <1>6 DEF Character
<1> HIDE DEF a
<1>8. CASE done
  <2>1. actor' = Receipted(a) /\ view' = [view EXCEPT !.phase = "closed"]
    BY <1>1, <1>8 DEF Settle
  <2>2. /\ actor'.effects = r.list /\ actor'.usable = actor.usable
        /\ actor'.earned = [s \in Stats |-> actor.earned[s] + plan.rows[s]]
    BY <1>7, <2>1 DEF Receipted, Character
  <2>3. actor'.earned \in [Stats -> Nat]
    BY <1>2, <2>2
  <2>4. Reads(actor')
    BY <1>4, <1>8, <2>2 DEF Reads, Earns
  <2>5. Kept(actor')
    BY <2>3, <2>4 DEF Kept
  <2>6. view'.phase = "closed"
    BY <1>2, <2>1 DEF Screen
  <2> QED
    BY <1>1, <1>2, <1>5, <2>5, <2>6, ClosedPips DEF Phases, InPreview, Same, Open
<1>9. CASE ~done
  <2>1. Uncertain(a, view)
    BY <1>1, <1>9 DEF Settle
  <2>2. Kept(a)
    BY <1>2, <1>7 DEF Kept
  <2> QED
    BY <1>1, <1>2, <1>5, <1>7, <2>1, <2>2, UncertainPips
<1> QED
  BY <1>8, <1>9

\* What the game's cancel leaves of the records: its setter over every class
\* record, or its snapshots where the screen has no old class to restore.
Native(pips) ==
    [i \in DOMAIN actor.effects |->
        IF actor.effects[i].kind # "set" THEN actor.effects[i]
        ELSE [actor.effects[i] EXCEPT !.act =
                IF plan.bound THEN pips[actor.effects[i].stat] ELSE opened[i].act]]
Cancelling(pips) ==
    IF plan.tx THEN Restore(Native(pips), tx) ELSE Result("ok", Native(pips), tx)

LEMMA SnapshotsBack ==
    ASSUME NEW pips, actor.effects \in Lists, opened \in Lists, ~plan.bound,
           NativeAlike(actor.effects, opened)
    PROVE  Native(pips) = opened
<1> DEFINE l == actor.effects
           e(i) == IF l[i].kind # "set" THEN l[i] ELSE [l[i] EXCEPT !.act = opened[i].act]
<1>1. /\ opened \in Seq(Entries) /\ Len(l) = Len(opened) /\ Len(opened) \in Nat
      /\ DOMAIN l = 1..Len(opened)
      /\ \A i \in 1..Len(opened) : l[i] \in Entries /\ opened[i] \in Entries
      /\ \A i \in 1..Len(opened) :
           /\ l[i].node = opened[i].node /\ l[i].kind = opened[i].kind
           /\ l[i].stat = opened[i].stat /\ l[i].old = opened[i].old
           /\ l[i].kind # "set" => l[i] = opened[i]
  BY ListsFact, ListFact DEF NativeAlike, OldAlike
<1>2. ASSUME NEW i \in 1..Len(opened) PROVE e(i) = opened[i]
  <2>1. CASE l[i].kind # "set"
    BY <1>1, <2>1
  <2>2. CASE l[i].kind = "set"
    <3> DEFINE f == [l[i] EXCEPT !.act = opened[i].act]
    <3>1. l[i] \in Entries /\ opened[i] \in Entries
      BY <1>1
    <3>2. /\ f \in Entries /\ f.node = l[i].node /\ f.kind = l[i].kind /\ f.stat = l[i].stat
          /\ f.old = l[i].old /\ f.act = opened[i].act
      BY <3>1 DEF Entries
    <3> HIDE DEF f
    <3>3. f = opened[i]
      BY <1>1, <3>1, <3>2, SameRecord
    <3> QED
      BY <2>2, <3>3 DEF f
  <2> QED
    BY <2>1, <2>2
<1>3. Native(pips) = [i \in 1..Len(opened) |-> e(i)]
  BY <1>1 DEF Native
<1> HIDE DEF e
<1>4. /\ Native(pips) \in Seq(Entries) /\ Len(Native(pips)) = Len(opened)
      /\ \A i \in 1..Len(opened) : Native(pips)[i] = opened[i]
  BY <1>1, <1>2, <1>3
<1> QED
  BY <1>1, <1>4, SameList

\* A cancel that succeeds puts the very records back that the screen found.
LEMMA CancellingFact ==
    ASSUME PipsInv, InPreview, NEW pips \in [Stats -> Pips]
    PROVE  LET r == Cancelling(pips)
           IN  Transaction(r.tx) /\ (r.outcome = "ok" => r.list = opened)
<1> DEFINE l == actor.effects
           r == Cancelling(pips)
<1>1. /\ Screening /\ Transaction(tx) /\ l \in Lists /\ opened \in Lists
      /\ plan.tx = plan.bound /\ plan.bound \in BOOLEAN
  BY DEF PipsInv, Screening
<1>2. CASE plan.bound
  <2>1. Native(pips) = GameSet(l, pips)
    BY <1>2 DEF Native, GameSet
  <2>2. r = Restore(GameSet(l, pips), tx)
    BY <1>1, <1>2, <2>1 DEF Cancelling
  <2>3. Whole(l, tx) => Framed(l, opened, tx)
    BY <1>1, <1>2 DEF Screening, Bound
  <2> HIDE DEF r, l
  <2>4. Transaction(r.tx)
    BY <1>1, <2>2, RestoreTx, NoTxFact
  <2>5. r.outcome = "ok" => r.list = opened
    BY <1>1, <2>2, <2>3, RestoreFact
  <2> QED
    BY <2>4, <2>5 DEF r
<1>3. CASE ~plan.bound
  <2>1. Unbound
    BY <1>1, <1>3 DEF Screening
  <2>2. Native(pips) = opened
    BY <1>1, <1>3, <2>1, SnapshotsBack DEF Unbound
  <2>3. r = Result("ok", opened, tx)
    BY <1>1, <1>3, <2>2 DEF Cancelling
  <2>4. r.list = opened /\ r.tx = tx
    BY <2>3 DEF Result
  <2> HIDE DEF r
  <2> QED
    BY <1>1, <2>4 DEF r
<1> QED
  BY <1>1, <1>2, <1>3

LEMMA CancelPips ==
    ASSUME IInv, PipsInv, NEW pips \in [Stats -> Pips], NEW cancels, Cancel(pips, cancels)
    PROVE  PipsInv' /\ (view'.phase = "closed" => actor'.effects = opened)
<1> DEFINE l == actor.effects
           r == Cancelling(pips)
           done == r.outcome = "ok" /\ cancels /\ actor.journal.stage = "preview"
           a == [actor EXCEPT !.effects = r.list,
                              !.usable = @ /\ ~plan.bound,
                              !.journal = IF done THEN NoJournal ELSE @]
<1>1. Cancellable /\ Settle(done, a) /\ saved' = saved /\ tx' = r.tx
  BY DEF Cancel, Cancelling, Native
<1>2. InPreview
  BY <1>1 DEF Cancellable, InPreview, Same, Open, PipsInv, Phases
<1>3. /\ Character(actor) /\ Screen(view) /\ Kept(actor) /\ Kept(saved) /\ Screening
      /\ actor.journal.stage # "none" /\ opened \in Lists
  BY <1>2 DEF IInv, Typed, PipsInv, Screening
<1>4. Transaction(r.tx) /\ (r.outcome = "ok" => r.list = opened)
  BY <1>2, CancellingFact
<1> HIDE DEF r
<1>5. Transaction(tx')
  BY <1>1, <1>4
<1>6. /\ Character(a) /\ a.effects = r.list /\ a.earned = actor.earned
      /\ a.usable = (actor.usable /\ ~plan.bound)
      /\ a.journal = (IF done THEN NoJournal ELSE actor.journal)
  BY <1>3 DEF Character, Journal, NoJournal
<1> HIDE DEF a
<1>7. CASE done
  <2>1. actor' = a /\ view' = [view EXCEPT !.phase = "closed"]
    BY <1>1, <1>7 DEF Settle
  <2>2. actor'.effects = opened
    BY <1>4, <1>6, <1>7, <2>1
  <2>3. Reads(actor')
    <3>1. CASE plan.bound
      <4>1. Bound /\ ~actor'.usable /\ actor'.earned = actor.earned
        BY <1>3, <1>6, <2>1, <3>1 DEF Screening
      <4> QED
        BY <1>3, <2>2, <4>1 DEF Bound, Reads
    <3>2. CASE ~plan.bound
      <4>1. Unbound /\ actor'.usable /\ actor'.earned = actor.earned
        BY <1>3, <1>6, <2>1, <3>2 DEF Screening, Unbound
      <4> QED
        BY <1>3, <2>2, <4>1 DEF Unbound, Reads
    <3> QED
      BY <3>1, <3>2
  <2>4. Kept(actor')
    BY <1>3, <1>6, <2>1, <2>3 DEF Kept
  <2>5. view'.phase = "closed"
    BY <1>3, <2>1 DEF Screen
  <2>6. PipsInv'
    BY <1>1, <1>3, <1>5, <2>4, <2>5, ClosedPips DEF Phases, InPreview, Same, Open
  <2> QED
    BY <2>2, <2>6
<1>8. CASE ~done
  <2>1. Uncertain(a, view)
    BY <1>1, <1>8 DEF Settle
  <2>2. Kept(a)
    BY <1>3, <1>6, <1>8 DEF Kept
  <2>3. PipsInv'
    BY <1>1, <1>3, <1>5, <1>6, <2>1, <2>2, UncertainPips
  <2>4. view'.phase # "closed"
    BY <1>3, <2>1 DEF Uncertain, Screen
  <2> QED
    BY <2>3, <2>4
<1> QED
  BY <1>7, <1>8

\* The screen that a load or a failed start left open was opened on records that
\* hold what the character has earned; its buttons go no lower.
Floor ==
    Open /\ actor.journal.stage = "none" /\ actor.usable =>
        /\ opened \in Lists
        /\ \A s \in Stats : actor.earned[s] <= MaxPips => ReadActive(opened, s) >= actor.earned[s]

LEMMA InitFloor == Init => Floor
BY DEF Init, Floor, Open, NoView

\* A button of a stuck screen keeps what a character without a journal has earned.
LEMMA UntrackedPips ==
    ASSUME IInv, PipsInv, Floor, NEW stat, NEW pips \in Pips, ChooseUntracked(stat, pips)
    PROVE  PipsInv'
<1> DEFINE l == actor.effects
           m == NativeSet(l, stat, pips)
           a == [actor EXCEPT !.effects = m]
<1>1. /\ Character(actor) /\ Kept(actor) /\ Screen(view) /\ Uncertain(a, view)
      /\ Open /\ pips >= ReadActive(opened, stat)
      /\ saved' = saved /\ Transaction(tx') /\ pips \in Nat
  BY PipAssumption DEF ChooseUntracked, NotBelowOpened, IInv, Typed, PipsInv, Pips
<1>2. /\ Character(a) /\ a.effects = m /\ a.journal = actor.journal
      /\ a.usable = actor.usable /\ a.earned = actor.earned
  <2> HIDE DEF m
  <2> QED BY <1>1, TouchedFact
<1> HIDE DEF a
<1>3. ASSUME actor.journal.stage = "none"
      PROVE  Reads(a)
  <2>1. Reads(actor) /\ l \in Lists
    BY <1>1, <1>3 DEF Kept, Reads
  <2> HIDE DEF l
  <2>2. /\ m \in Lists /\ OldAlike(l, m)
        /\ \A s : ReadActive(m, s) = IF s = stat /\ Sets(l, s) # {} THEN pips ELSE ReadActive(l, s)
    BY <1>1, <2>1, NativeSetFact
  <2> HIDE DEF m
  <2>3. \A s : ReadOld(m, s) = ReadOld(l, s)
    BY <2>1, <2>2, ListsFact, AlikeFact
  <2>4. ASSUME NEW s \in Stats, a.earned[s] <= MaxPips
        PROVE  IF a.usable THEN ReadActive(m, s) >= a.earned[s] ELSE ReadOld(m, s) = a.earned[s]
    <3>1. IF actor.usable THEN ReadActive(l, s) >= a.earned[s] ELSE ReadOld(l, s) = a.earned[s]
      BY <1>2, <2>1, <2>4 DEF Reads, l
    <3>2. actor.usable => ReadActive(opened, s) >= a.earned[s]
      BY <1>1, <1>2, <1>3, <2>4 DEF Floor
    <3>3. CASE ~actor.usable
      BY <1>2, <2>3, <3>1, <3>3
    <3>4. CASE actor.usable /\ s = stat /\ Sets(l, s) # {}
      <4>1. ReadActive(m, s) = pips
        BY <2>2, <3>4
      <4>2. ReadActive(opened, s) \in Nat /\ a.earned[s] \in Nat
        BY <1>1, <1>2, <1>3, <3>4, ListsFact, ReadFact DEF Floor, Kept
      <4>3. pips >= a.earned[s]
        BY <1>1, <3>2, <3>4, <4>2
      <4> QED
        BY <1>2, <3>4, <4>1, <4>3
    <3>5. CASE actor.usable /\ ~(s = stat /\ Sets(l, s) # {})
      BY <1>2, <2>2, <3>1, <3>5
    <3> QED
      BY <3>3, <3>4, <3>5
  <2> QED
    BY <1>2, <2>2, <2>4 DEF Reads
<1>4. Kept(a)
  BY <1>1, <1>2, <1>3 DEF Kept
<1> QED
  BY <1>1, <1>2, <1>4, UncertainPips

LEMMA NextPips == IInv /\ PipsInv /\ Floor /\ [Next]_vars => PipsInv'
<1> SUFFICES ASSUME IInv, PipsInv, Floor, [Next]_vars PROVE PipsInv'
  OBVIOUS
<1>1. CASE \/ ResetWhileOpen \/ ResetRefused \/ OtherCharacter \/ CommitRefused
           \/ PrepareFails \/ CommitThrows \/ CancelRefused \/ CancelThrows
  BY <1>1, FailedPips DEF Failing
<1>2. CASE ResetOrdinary \/ EndOrdinary
  BY <1>2, OrdinaryPips
<1>3. ASSUME NEW rows \in Rows, NEW react \in BOOLEAN, NEW made \in BOOLEAN,
             NEW added \in SUBSET Stats, NEW b \in Batches,
             ResetOwned(rows, react, made, added, b)
      PROVE  PipsInv'
  BY <1>3, ResetOwnedPips
<1>4. ASSUME NEW s \in Stats, NEW pips \in Pips, NEW added \in SUBSET Stats,
             Choose(s, pips, added)
      PROVE  PipsInv'
  BY <1>4, ChoosePips
<1>5. CASE Recalculate
  BY <1>5, RecalculatePips
<1>6. ASSUME NEW i \in 0..Len(actor.effects), NEW made \in BOOLEAN,
             NEW completes \in BOOLEAN, NEW added \in SUBSET Stats,
             Commit(i, made, added, completes)
      PROVE  PipsInv'
  <2>1. InPreview /\ actor.effects \in Lists
    BY <1>6 DEF Commit, Committable, PipsInv, Screening
  <2>2. i \in Nat
    BY <2>1, ListsFact, ListFact
  <2> QED
    BY <1>6, <2>2, CommitPips
<1>7. ASSUME NEW pips \in [Stats -> Pips], NEW cancels \in BOOLEAN, Cancel(pips, cancels)
      PROVE  PipsInv'
  BY <1>7, CancelPips
<1>8. CASE Save
  BY <1>8, SavePips
<1>9. CASE Load
  BY <1>9, LoadPips
<1>10. CASE Restart
  BY <1>10, RestartPips
<1>11. ASSUME NEW s \in Stats, NEW pips \in Pips, ChooseUntracked(s, pips)
       PROVE  PipsInv'
  BY <1>11, UntrackedPips
<1>12. CASE UNCHANGED vars
  <2>1. /\ actor' = actor /\ saved' = saved /\ view' = view /\ plan' = plan
        /\ tx' = tx /\ opened' = opened
    BY <1>12 DEF vars
  <2> QED
    BY <2>1 DEF PipsInv, Kept, Reads, Phases, InPreview, Same, Open, Screening, Unbound,
                Bound, Reactivated, Dormant
<1> QED
  BY <1>1, <1>2, <1>3, <1>4, <1>5, <1>6, <1>7, <1>8, <1>9, <1>10, <1>11, <1>12 DEF Next

\* Every step that starts a screen finds the character's records complete, and a
\* step of an open one leaves a journal or the records it was opened with.
LEMMA NextFloor == IInv /\ PipsInv /\ Floor /\ [Next]_vars => Floor'
<1> DEFINE Reaches(list, a) ==
             /\ list \in Lists
             /\ \A s \in Stats : a.earned[s] <= MaxPips => ReadActive(list, s) >= a.earned[s]
<1> SUFFICES ASSUME IInv, PipsInv, Floor, [Next]_vars,
                    Open', actor'.journal.stage = "none", actor'.usable
             PROVE  Reaches(opened', actor')
  BY DEF Floor
<1>1. Character(actor) /\ Kept(actor) /\ Character(saved) /\ Kept(saved) /\ Screen(view)
  BY DEF IInv, Typed, PipsInv
<1>2. ASSUME NEW a, a.journal.stage = "none", a.usable, Kept(a)
      PROVE  Reaches(a.effects, a)
  BY <1>2 DEF Kept, Reads
<1>3. InPreview => actor.journal.stage # "none"
  BY DEF PipsInv, Screening
<1>4. Open /\ actor.journal.stage = "none" /\ actor.usable => Reaches(opened, actor)
  BY DEF Floor
<1>5. \A a, v : Character(a) /\ Uncertain(a, v) => actor' = a /\ a.journal.stage = "none"
  <2> SUFFICES ASSUME NEW a, NEW v, Character(a), Uncertain(a, v)
               PROVE  actor' = a /\ a.journal.stage = "none"
    OBVIOUS
  <2>1. actor' = a \/ actor' = [a EXCEPT !.journal.stage = "uncertain"]
    BY DEF Uncertain, Marked
  <2> QED
    BY <2>1 DEF Character, Journal
<1> HIDE DEF Reaches
<1>6. ASSUME Open, opened' = opened, actor' = actor
      PROVE  Reaches(opened', actor')
  BY <1>4, <1>6
<1>7. CASE Failing
  <2>1. PICK a, v : /\ Character(a) /\ Uncertain(a, v)
                    /\ a = actor \/ a.journal.stage # "none"
    BY <1>7, FailingFact
  <2>2. actor' = actor
    BY <1>5, <2>1
  <2>3. CASE ResetRefused
    <3>1. opened' = actor.effects
      BY <2>3 DEF ResetRefused, StartSession
    <3> QED
      BY <1>1, <1>2, <2>2, <3>1
  <2>4. CASE ~ResetRefused
    <3>1. Open /\ opened' = opened
      BY <1>7, <2>4 DEF Failing, ResetWhileOpen, OtherCharacter, CommitRefused, PrepareFails,
                        CommitThrows, CancelRefused, CancelThrows, Committable, InPreview,
                        Cancellable, Same
    <3> QED
      BY <1>6, <2>2, <3>1
  <2> QED
    BY <2>3, <2>4
<1>8. CASE ResetOrdinary \/ EndOrdinary \/ Restart
  BY <1>8 DEF ResetOrdinary, EndOrdinary, Restart, Open, NoView
<1>9. ASSUME NEW rows \in Rows, NEW react \in BOOLEAN, NEW made \in BOOLEAN,
             NEW added \in SUBSET Stats, NEW b \in Batches,
             ResetOwned(rows, react, made, added, b)
      PROVE  FALSE
  <2> DEFINE v == [NewView EXCEPT !.owner = TRUE, !.hp = b.status]
             p == Selected(rows)
             merge == p.bound /\ react
             r == IF merge THEN ApplyPreview(actor.effects, rows, made, added)
                  ELSE IF p.bound THEN BeginActive(actor.effects)
                  ELSE Result("ok", actor.effects, NoTx)
             w == Journaled(v)
             a == [w EXCEPT !.effects = r.list, !.native_hp = NativeRoll(b),
                            !.usable = actor.usable \/ (merge /\ r.outcome = "ok")]
  <2>1. JournalFree /\ (actor' = a \/ Uncertain(a, v))
    BY <1>9 DEF ResetOwned
  <2>2. Character(w) /\ w.journal.stage = "preview"
    BY <2>1, JournaledFact
  <2> HIDE DEF v, r, w, merge
  <2>3. Character(a) /\ a.journal.stage = "preview"
    BY <2>2 DEF Character
  <2> HIDE DEF a
  <2> QED
    BY <1>5, <2>1, <2>3
<1>10. ASSUME NEW s \in Stats, NEW pips \in Pips, NEW added \in SUBSET Stats,
              Choose(s, pips, added)
       PROVE  FALSE
  BY <1>1, <1>3, <1>10 DEF Choose, Character
<1>11. CASE Recalculate
  <2>1. PICK list : actor' = [actor EXCEPT !.effects = list]
    BY <1>11 DEF Recalculate
  <2>2. /\ actor'.journal = actor.journal /\ actor'.usable = actor.usable
        /\ actor'.earned = actor.earned
    BY <1>1, <2>1 DEF Character
  <2>3. Open /\ opened' = opened
    BY <1>11 DEF Recalculate, Open
  <2> QED
    BY <1>4, <2>2, <2>3 DEF Reaches
<1>12. ASSUME NEW i \in 0..Len(actor.effects), NEW made \in BOOLEAN,
              NEW completes \in BOOLEAN, NEW added \in SUBSET Stats,
              Commit(i, made, added, completes)
       PROVE  FALSE
  <2> DEFINE l == Levelled(Prepared)
  <2>1. actor.journal.stage = "preview"
    BY <1>12 DEF Commit
  <2>2. Character(l) /\ l.journal.stage = "committing"
    BY <2>1, LevelledFact
  <2>3. \E list, a : a = [l EXCEPT !.effects = list] /\ Uncertain(a, view)
    BY <1>1, <1>12 DEF Commit, Settle, Open, Screen
  <2> HIDE DEF l
  <2>4. PICK list, a : a = [l EXCEPT !.effects = list] /\ Uncertain(a, view)
    BY <2>3
  <2>5. Character(a) /\ a.journal.stage = "committing"
    BY <2>2, <2>4 DEF Character
  <2> QED
    BY <1>5, <2>4, <2>5
<1>13. ASSUME NEW pips \in [Stats -> Pips], NEW cancels \in BOOLEAN, Cancel(pips, cancels)
       PROVE  FALSE
  <2>1. InPreview
    BY <1>13 DEF Cancel, Cancellable, InPreview, Same, Open, PipsInv, Phases
  <2>2. \E list, usable, done :
           Settle(done, [actor EXCEPT !.effects = list, !.usable = usable,
                                      !.journal = IF done THEN NoJournal ELSE @])
    BY <1>13 DEF Cancel
  <2>3. PICK list, usable, done :
           Settle(done, [actor EXCEPT !.effects = list, !.usable = usable,
                                      !.journal = IF done THEN NoJournal ELSE @])
    BY <2>2
  <2> DEFINE a == [actor EXCEPT !.effects = list, !.usable = usable,
                                !.journal = IF done THEN NoJournal ELSE @]
  <2>4. ~done /\ Uncertain(a, view)
    BY <1>1, <2>3 DEF Settle, Open, Screen
  <2>5. Character(a) /\ a.journal = actor.journal
    BY <1>1, <2>4 DEF Character
  <2> HIDE DEF a
  <2> QED
    BY <1>3, <1>5, <2>1, <2>4, <2>5
<1>14. CASE Save
  BY <1>6, <1>14 DEF Save, Open
<1>15. CASE Load
  <2>1. Kept(actor')
    BY <1>15, LoadedKept DEF Load
  <2>2. actor'.effects = saved.effects /\ opened' = saved.effects
    BY <1>1, <1>15 DEF Load, Character
  <2> QED
    BY <1>2, <2>1, <2>2
<1>16. ASSUME NEW s \in Stats, NEW pips \in Pips, ChooseUntracked(s, pips)
       PROVE  Reaches(opened', actor')
  <2> DEFINE list == NativeSet(actor.effects, s, pips)
             a == [actor EXCEPT !.effects = list]
  <2>1. Uncertain(a, view) /\ Open /\ opened' = opened
    BY <1>16 DEF ChooseUntracked
  <2>2. /\ Character(a) /\ a.journal = actor.journal
        /\ a.usable = actor.usable /\ a.earned = actor.earned
    <3> HIDE DEF list
    <3> QED BY <1>1, TouchedFact
  <2> HIDE DEF a
  <2>3. actor' = a /\ a.journal.stage = "none"
    BY <1>5, <2>1, <2>2
  <2> QED
    BY <1>4, <2>1, <2>2, <2>3 DEF Reaches
<1>17. CASE UNCHANGED vars
  BY <1>6, <1>17 DEF vars, Open
<1> QED
  BY <1>7, <1>8, <1>9, <1>10, <1>11, <1>12, <1>13, <1>14, <1>15, <1>16, <1>17 DEF Next, Failing

LEMMA PipsInductive == Spec => [](IInv /\ PipsInv)
<1>1. Init => IInv /\ PipsInv /\ Floor
  BY InitIInv, InitPips, InitFloor
<1>2. IInv /\ PipsInv /\ Floor /\ [Next]_vars => (IInv /\ PipsInv /\ Floor)'
  BY NextIInv, NextPips, NextFloor
<1> QED
  BY <1>1, <1>2, PTL DEF Spec

\* No screen costs the character old-class pips, whatever records it starts with
\* and however many screens it opens: between screens the dormant class reads
\* exactly what it has earned and a reactivated one has at least that much in its
\* active pips; the open screen never shows fewer than earned and chosen
\* (CBMDPC_ApplyPreview, Complete, PersistDormant).
THEOREM NoPipIsLost == Spec => []OldPipsKept
BY PipsKept, PipsInductive, PTL
-----------------------------------------------------------------------------
(* Only a cancel that succeeds closes a preview without a receipt or a load. *)

LEMMA NextRestores ==
    IInv /\ PipsInv /\ [Next]_vars => (Cancelled => Content(actor'.effects) = Content(opened))
<1> SUFFICES ASSUME IInv, PipsInv, [Next]_vars, Cancelled
             PROVE  Content(actor'.effects) = Content(opened)
  OBVIOUS
<1>1. /\ view.phase = "preview" /\ view'.phase = "closed" /\ loads' = loads
      /\ actor'.receipts = actor.receipts /\ Open /\ view' # view
      /\ Character(actor) /\ Screen(view) /\ loads \in Nat
  BY DEF Cancelled, Open, IInv, Typed
<1>2. \A a : ~Uncertain(a, view)
  BY <1>1 DEF Uncertain, Screen
<1>3. CASE ResetWhileOpen \/ OtherCharacter \/ CommitRefused \/ PrepareFails \/ CommitThrows
           \/ CancelRefused \/ CancelThrows
  BY <1>2, <1>3 DEF ResetWhileOpen, OtherCharacter, CommitRefused, PrepareFails, CommitThrows,
                    CancelRefused, CancelThrows
<1>4. CASE ResetOrdinary \/ ResetRefused
  BY <1>1, <1>4 DEF ResetOrdinary, ResetRefused, StartSession, CanOpen
<1>5. ASSUME NEW rows \in Rows, NEW react \in BOOLEAN, NEW made \in BOOLEAN,
             NEW added \in SUBSET Stats, NEW b \in Batches,
             ResetOwned(rows, react, made, added, b)
      PROVE  FALSE
  BY <1>1, <1>5 DEF ResetOwned, StartSession, CanOpen
<1>6. ASSUME NEW s \in Stats, NEW pips \in Pips, NEW added \in SUBSET Stats,
             Choose(s, pips, added)
      PROVE  FALSE
  BY <1>1, <1>6 DEF Choose
<1>7. CASE EndOrdinary \/ Recalculate \/ Save
  BY <1>1, <1>7 DEF EndOrdinary, Recalculate, Save
<1>8. ASSUME NEW i \in 0..Len(actor.effects), NEW made \in BOOLEAN,
             NEW completes \in BOOLEAN, NEW added \in SUBSET Stats,
             Commit(i, made, added, completes)
      PROVE  FALSE
  <2>1. actor.journal.stage = "preview"
    BY <1>8 DEF Commit
  <2>2. \E list : actor' = Receipted([Levelled(Prepared) EXCEPT !.effects = list])
    BY <1>2, <1>8 DEF Commit, Settle
  <2>3. PICK list : actor' = Receipted([Levelled(Prepared) EXCEPT !.effects = list])
    BY <2>2
  <2> DEFINE w == Levelled(Prepared)
             a == [w EXCEPT !.effects = list]
  <2>4. Prepared.receipts = actor.receipts /\ DOMAIN Prepared = DOMAIN actor
    BY <1>1 DEF Prepared, Character
  <2>5. Character(w) /\ w.receipts = actor.receipts
    <3> HIDE DEF Prepared
    <3>1. w.receipts = Prepared.receipts
      BY <1>1, <2>4 DEF Levelled, Character
    <3> QED
      BY <2>1, <2>4, <3>1, LevelledFact
  <2> HIDE DEF w
  <2>6. Character(a) /\ a.receipts = actor.receipts
    BY <2>5 DEF Character
  <2> HIDE DEF a
  <2>7. Receipted(a).receipts = actor.receipts + 1
    BY <2>6 DEF Receipted, Character
  <2>8. actor'.receipts = actor.receipts + 1
    BY <2>3, <2>7 DEF a, w
  <2> QED
    BY <1>1, <2>8 DEF Character
<1>9. ASSUME NEW pips \in [Stats -> Pips], NEW cancels \in BOOLEAN, Cancel(pips, cancels)
      PROVE  actor'.effects = opened
  BY <1>1, <1>9, CancelPips
<1>10. CASE Load \/ Restart
  BY <1>1, <1>10 DEF Load, Restart, Reload
<1>11. ASSUME NEW s \in Stats, NEW pips \in Pips, ChooseUntracked(s, pips)
       PROVE  FALSE
  BY <1>2, <1>11 DEF ChooseUntracked
<1>12. CASE UNCHANGED vars
  BY <1>1, <1>12 DEF vars
<1> QED
  BY <1>3, <1>4, <1>5, <1>6, <1>7, <1>8, <1>9, <1>10, <1>11, <1>12 DEF Next

\* Cancelling a screen leaves the records as the screen found them, whatever was
\* chosen, replaced or merged in between: the same bits, no record of the preview
\* and no carrier consumed (CBMDPC_Restore).
THEOREM CancelPutsBack == Spec => CancelRestores
<1>1. IInv /\ PipsInv /\ [Next]_vars =>
        [Cancelled => Content(actor'.effects) = Content(opened)]_vars
  BY NextRestores
<1> QED
  BY <1>1, PipsInductive, PTL DEF Spec, CancelRestores
-----------------------------------------------------------------------------
(* The screen implements LevelScreen.                                       *)

ScreenMap == IF InPreview THEN "open" ELSE IF Open THEN "stuck" ELSE "none"
Maps == [Promise!Next]_<<LivingBook, KeptBook, ScreenMap>>

\* What LevelScreen sees of the character, before a step and after it.
LEMMA LivingFact ==
    /\ actor.journal.stage = "none" => LivingBook = Promise!Sure(Book(actor, actor.effects))
    /\ actor.journal.stage # "none" /\ InPreview => LivingBook = Promise!Working(Book(actor, opened))
    /\ actor.journal.stage # "none" /\ ~InPreview => LivingBook = Promise!Doubtful
BY DEF LivingBook, Certain, Promise!Sure, Promise!Working, Promise!Doubtful

LEMMA LivingNextFact ==
    /\ actor'.journal.stage = "none" => LivingBook' = Promise!Sure(Book(actor', actor'.effects))
    /\ actor'.journal.stage # "none" /\ InPreview' =>
         LivingBook' = Promise!Working(Book(actor', opened'))
    /\ actor'.journal.stage # "none" /\ ~InPreview' => LivingBook' = Promise!Doubtful
BY DEF LivingBook, Certain, Book, Inactive, ActivePips, Content, Promise!Sure,
       Promise!Working, Promise!Doubtful

LEMMA KeptSame == saved' = saved => KeptBook' = KeptBook
BY DEF KeptBook, Certain, Book, Inactive, ActivePips, Content

LEMMA PreviewIsOpen == (InPreview => Open) /\ (InPreview' => Open')
BY DEF InPreview, Same, Open

LEMMA KnownFact == \A b : b \in Promise!Sure(b).books /\ b \in Promise!Working(b).books /\ Promise!Sure(b).sure
BY DEF Promise!Sure, Promise!Working

LEMMA StepsOfPromise ==
    ASSUME KeptBook' = KeptBook, NEW b, NEW c
    PROVE  /\ LivingBook = Promise!Sure(b) /\ LivingBook' = Promise!Working(b)
              /\ ~Open /\ InPreview' => Maps
           /\ (LivingBook' = LivingBook \/ LivingBook' = Promise!Doubtful)
              /\ ~Open /\ Open' /\ ~InPreview' => Maps
           /\ LivingBook = Promise!Working(b) /\ LivingBook' = Promise!Sure(b)
              /\ InPreview /\ ~Open' => Maps
           /\ LivingBook' = Promise!Doubtful /\ InPreview /\ Open' /\ ~InPreview' => Maps
           /\ LivingBook = Promise!Sure(b) /\ LivingBook' = Promise!Sure(c)
              /\ c = [b EXCEPT !.active = c.active]
              /\ Open /\ ~InPreview /\ Open' /\ ~InPreview' => Maps
           /\ LivingBook' = LivingBook /\ (InPreview' <=> InPreview) /\ (Open' <=> Open) => Maps
<1>1. ASSUME LivingBook = Promise!Sure(b), LivingBook' = Promise!Working(b), ~Open, InPreview'
      PROVE  Promise!Open
  BY <1>1, KnownFact, PreviewIsOpen DEF Promise!Open
<1>2. ASSUME LivingBook' = LivingBook \/ LivingBook' = Promise!Doubtful, ~Open, Open', ~InPreview'
      PROVE  Promise!Fail
  BY <1>2, PreviewIsOpen DEF Promise!Fail
<1>3. ASSUME LivingBook = Promise!Working(b), LivingBook' = Promise!Sure(b), InPreview, ~Open'
      PROVE  Promise!Drop
  BY <1>3, KnownFact, PreviewIsOpen DEF Promise!Drop
<1>4. ASSUME LivingBook' = Promise!Doubtful, InPreview, Open', ~InPreview'
      PROVE  Promise!Doubt
  BY <1>4 DEF Promise!Doubt
<1>5. ASSUME LivingBook = Promise!Sure(b), LivingBook' = Promise!Sure(c),
             c = [b EXCEPT !.active = c.active], Open, ~InPreview, Open', ~InPreview'
      PROVE  Promise!Touch
  BY <1>5, KnownFact DEF Promise!Touch
<1>6. (InPreview' <=> InPreview) /\ (Open' <=> Open) => ScreenMap' = ScreenMap
  BY DEF ScreenMap
<1> QED
  BY <1>1, <1>2, <1>3, <1>4, <1>5, <1>6 DEF Maps, Promise!Next

LEMMA AppliesToPromise ==
    ASSUME KeptBook' = KeptBook, InPreview, ~Open', NEW b, NEW c,
           LivingBook = Promise!Working(b), LivingBook' = Promise!Sure(c),
           c.level = b.level + 1, c.receipts = b.receipts + 1,
           \A s \in Stats : c.earned[s] >= b.earned[s]
    PROVE  Maps
<1>1. Promise!Apply
  BY KnownFact, PreviewIsOpen DEF Promise!Apply
<1> QED
  BY <1>1 DEF Maps, Promise!Next

\* A handler that ends uncertain: the screen's opening failed or it is in doubt.
LEMMA UncertainMaps ==
    ASSUME IInv, PipsInv, NEW a, NEW v, Character(a), Screen(v), Uncertain(a, v),
           a = actor \/ (a.journal.stage # "none" /\ (InPreview \/ ~Open)), saved' = saved
    PROVE  Maps
<1>1. actor' \in Marked(a, v) /\ ~InPreview' /\ Open'
  BY DEF Uncertain, Screen, InPreview, Open
<1>2. actor' = a \/ (a.journal.stage # "none" /\ actor'.journal.stage = "uncertain")
  BY <1>1 DEF Marked, Character, Journal
<1>3. KeptBook' = KeptBook
  BY KeptSame
<1>4. CASE actor'.journal.stage # "none"
  <2>1. LivingBook' = Promise!Doubtful
    BY <1>1, <1>4, LivingNextFact
  <2>2. CASE InPreview \/ ~Open
    BY <1>1, <1>3, <2>1, <2>2, StepsOfPromise
  <2>3. CASE ~InPreview /\ Open
    <3>1. actor.journal.stage # "none"
      BY <1>2, <1>4, <2>3
    <3>2. LivingBook = Promise!Doubtful
      BY <2>3, <3>1, LivingFact
    <3> QED
      BY <1>1, <1>3, <2>1, <2>3, <3>2, StepsOfPromise
  <2> QED
    BY <2>2, <2>3
<1>5. CASE actor'.journal.stage = "none"
  <2>1. actor' = actor
    BY <1>2, <1>5
  <2>2. ~InPreview
    BY <1>5, <2>1 DEF PipsInv, Screening
  <2>3. LivingBook' = LivingBook
    BY <1>5, <2>1, LivingFact, LivingNextFact
  <2> QED
    BY <1>1, <1>3, <2>2, <2>3, StepsOfPromise
<1> QED
  BY <1>4, <1>5

\* A handler that touches neither the book nor whether a screen is open.
LEMMA SameMaps ==
    ASSUME saved' = saved, actor'.journal = actor.journal,
           InPreview' <=> InPreview, Open' <=> Open,
           actor'.level = actor.level, actor'.hp = actor.hp,
           actor'.receipts = actor.receipts, actor'.earned = actor.earned,
           actor.journal.stage = "none" => Content(actor'.effects) = Content(actor.effects),
           InPreview => opened' = opened
    PROVE  Maps
<1>1. KeptBook' = KeptBook
  BY KeptSame
<1>2. actor.journal.stage = "none" =>
        /\ Inactive(actor'.effects) = Inactive(actor.effects)
        /\ ActivePips(actor'.effects) = ActivePips(actor.effects)
  BY SameParts
<1>3. actor.journal.stage = "none" => Book(actor', actor'.effects) = Book(actor, actor.effects)
  BY <1>2 DEF Book
<1>4. InPreview => Book(actor', opened') = Book(actor, opened)
  BY DEF Book
<1>5. LivingBook' = LivingBook
  BY <1>3, <1>4, LivingFact, LivingNextFact
<1> QED
  BY <1>1, <1>5, StepsOfPromise

\* A button of a stuck screen writes active pips of a sure book, and of a character
\* in doubt nothing the promise speaks of.
LEMMA UntrackedMaps ==
    ASSUME IInv, PipsInv, NEW stat, NEW pips, ChooseUntracked(stat, pips)
    PROVE  Maps
<1> DEFINE m == NativeSet(actor.effects, stat, pips)
           a == [actor EXCEPT !.effects = m]
           b == Book(actor, actor.effects)
           c == Book(a, m)
<1>1. /\ Character(actor) /\ Screen(view) /\ Uncertain(a, view) /\ saved' = saved
      /\ Open /\ ~InPreview
  BY DEF ChooseUntracked, IInv, Typed
<1>2. /\ Character(a) /\ a.effects = m /\ a.journal = actor.journal /\ a.earned = actor.earned
      /\ a.level = actor.level /\ a.hp = actor.hp /\ a.receipts = actor.receipts
  <2> HIDE DEF m
  <2> QED BY <1>1, TouchedFact
<1>3. Inactive(m) = Inactive(actor.effects)
  BY OnlyActivePips
<1> HIDE DEF a, m
<1>4. c = [b EXCEPT !.active = c.active]
  BY <1>2, <1>3 DEF Book
<1>5. actor' \in Marked(a, view) /\ ~InPreview' /\ Open'
  BY <1>1 DEF Uncertain, Screen, InPreview, Open
<1>6. actor' = a \/ (a.journal.stage # "none" /\ actor'.journal.stage = "uncertain")
  BY <1>2, <1>5 DEF Marked, Character, Journal
<1>7. KeptBook' = KeptBook
  BY <1>1, KeptSame
<1>8. CASE actor.journal.stage = "none"
  <2>1. actor' = a /\ actor'.journal.stage = "none" /\ actor'.effects = m
    BY <1>2, <1>6, <1>8
  <2>2. LivingBook = Promise!Sure(b) /\ LivingBook' = Promise!Sure(c)
    BY <1>8, <2>1, LivingFact, LivingNextFact
  <2> HIDE DEF b, c
  <2> QED
    BY <1>1, <1>4, <1>5, <1>7, <2>2, StepsOfPromise
<1>9. CASE actor.journal.stage # "none"
  <2>1. actor'.journal.stage # "none"
    BY <1>2, <1>6, <1>9
  <2>2. LivingBook' = Promise!Doubtful /\ LivingBook = Promise!Doubtful
    BY <1>1, <1>5, <1>9, <2>1, LivingFact, LivingNextFact
  <2> QED
    BY <1>1, <1>5, <1>7, <2>2, StepsOfPromise
<1> QED
  BY <1>8, <1>9

LEMMA FailingMaps ==
    ASSUME IInv, PipsInv, Failing
    PROVE  Maps
BY FailingFact, UncertainMaps

LEMMA OrdinaryMaps ==
    ASSUME IInv, PipsInv, ResetOrdinary \/ EndOrdinary
    PROVE  Maps
<1>1. actor' = actor /\ saved' = saved /\ ~Open /\ ~Open' /\ ~InPreview /\ ~InPreview'
  BY DEF ResetOrdinary, EndOrdinary, StartSession, CanOpen, InPreview, Same, Open, NoView
<1> QED
  BY <1>1, SameMaps

LEMMA ChooseMaps ==
    ASSUME IInv, PipsInv, NEW stat, NEW pips, NEW added, Choose(stat, pips, added)
    PROVE  Maps
<1>1. /\ saved' = saved /\ view' = view /\ opened' = opened /\ InPreview /\ Character(actor)
      /\ \E list : actor' = [actor EXCEPT !.effects = list]
      /\ actor.journal.stage # "none"
  BY DEF Choose, IInv, Typed, PipsInv, Screening
<1>2. /\ actor'.journal = actor.journal /\ actor'.inc = actor.inc /\ actor'.level = actor.level
      /\ actor'.hp = actor.hp /\ actor'.receipts = actor.receipts
      /\ actor'.earned = actor.earned
  BY <1>1 DEF Character
<1>3. InPreview' /\ Open /\ Open'
  BY <1>1, <1>2 DEF InPreview, Same, Open
<1> QED
  BY <1>1, <1>2, <1>3, SameMaps

LEMMA RecalculateMaps ==
    ASSUME IInv, PipsInv, Recalculate
    PROVE  Maps
<1>1. PICK i : actor' = [actor EXCEPT !.effects = Replaced(actor.effects, i)]
  BY DEF Recalculate
<1>2. saved' = saved /\ view' = view /\ opened' = opened /\ Character(actor)
  BY DEF Recalculate, IInv, Typed
<1> DEFINE m == Replaced(actor.effects, i)
<1>3. Content(m) = Content(actor.effects)
  BY ReplacedContent
<1> HIDE DEF m
<1>4. /\ actor'.journal = actor.journal /\ actor'.inc = actor.inc /\ actor'.level = actor.level
      /\ actor'.hp = actor.hp /\ actor'.receipts = actor.receipts
      /\ actor'.earned = actor.earned /\ actor'.effects = m
  BY <1>1, <1>2 DEF Character, m
<1>5. (InPreview' <=> InPreview) /\ (Open' <=> Open)
  BY <1>2, <1>4 DEF InPreview, Same, Open
<1> QED
  BY <1>2, <1>3, <1>4, <1>5, SameMaps

\* The screen opens on the records it found, or it is in doubt with its journal
\* published.
LEMMA ResetOwnedMaps ==
    ASSUME IInv, PipsInv, NEW rows, NEW react, NEW made, NEW added, NEW b,
           ResetOwned(rows, react, made, added, b)
    PROVE  Maps
<1> DEFINE v == [NewView EXCEPT !.owner = TRUE, !.hp = b.status]
           p == Selected(rows)
           merge == p.bound /\ react
           l == actor.effects
           r == IF merge THEN ApplyPreview(l, rows, made, added)
                ELSE IF p.bound THEN BeginActive(l)
                ELSE Result("ok", l, NoTx)
           j == Journaled(v)
           a == [j EXCEPT !.effects = r.list, !.native_hp = NativeRoll(b),
                          !.usable = actor.usable \/ (merge /\ r.outcome = "ok")]
<1>1. /\ JournalFree /\ saved' = saved /\ opened' = l /\ ~Open
      /\ IF r.outcome = "ok" THEN view' = v /\ actor' = a ELSE Uncertain(a, v)
  BY DEF ResetOwned, StartSession, CanOpen
<1>2. Screen(v) /\ v.phase = "preview" /\ v.inc = actor.inc /\ Character(actor)
  BY DEF IInv, Typed, Character, Screen, NewView
<1>3. /\ Character(j) /\ j.journal.stage = "preview" /\ j.earned = actor.earned
      /\ j.inc = actor.inc
  BY <1>1, JournaledFact, WorkingKept
<1>4. j.level = actor.level /\ j.hp = actor.hp /\ j.receipts = actor.receipts
  BY <1>2 DEF Journaled, Character
<1> HIDE DEF v, r, j, p
<1>5. /\ Character(a) /\ a.journal = j.journal /\ a.earned = j.earned /\ a.inc = j.inc
      /\ a.level = j.level /\ a.hp = j.hp /\ a.receipts = j.receipts
  BY <1>3 DEF Character
<1> HIDE DEF a
<1>6. CASE r.outcome # "ok"
  <2>1. Uncertain(a, v) /\ a.journal.stage # "none"
    BY <1>1, <1>3, <1>5, <1>6
  <2> QED
    BY <1>1, <1>2, <1>5, <2>1, UncertainMaps
<1>7. CASE r.outcome = "ok"
  <2>1. view' = v /\ actor' = a
    BY <1>1, <1>7
  <2>2. InPreview'
    BY <1>2, <1>3, <1>5, <2>1 DEF InPreview, Same, Open
  <2>3. Book(actor', opened') = Book(actor, actor.effects)
    BY <1>1, <1>3, <1>4, <1>5, <2>1 DEF Book
  <2>4. LivingBook' = Promise!Working(Book(actor, actor.effects))
    BY <1>3, <1>5, <2>1, <2>2, <2>3, LivingNextFact
  <2>5. LivingBook = Promise!Sure(Book(actor, actor.effects))
    BY <1>1, LivingFact DEF JournalFree
  <2> QED
    BY <1>1, <2>2, <2>4, <2>5, KeptSame, StepsOfPromise
<1> QED
  BY <1>6, <1>7

\* A commit applies the screen: one level, one receipt, and what was chosen.
LEMMA CommitMaps ==
    ASSUME IInv, PipsInv, NEW replaced, NEW made, NEW added, NEW completes,
           Commit(replaced, made, added, completes)
    PROVE  Maps
<1> DEFINE w == Levelled(Prepared)
<1>1. /\ actor.journal.stage = "preview" /\ InPreview /\ saved' = saved
      /\ \E list : LET a == [w EXCEPT !.effects = list]
                   IN  \/ Uncertain(a, view)
                       \/ /\ view' = [view EXCEPT !.phase = "closed"]
                          /\ actor' = Receipted(a)
  BY DEF Commit, Committable, Settle
<1>2. PICK list : LET a == [w EXCEPT !.effects = list]
                  IN  \/ Uncertain(a, view)
                      \/ /\ view' = [view EXCEPT !.phase = "closed"]
                         /\ actor' = Receipted(a)
  BY <1>1
<1> DEFINE a == [w EXCEPT !.effects = list]
<1>3. /\ Character(actor) /\ Screen(view)
      /\ actor.earned \in [Stats -> Nat] /\ plan.rows \in [Stats -> Nat]
  BY <1>1 DEF IInv, Typed, PipsInv, Screening, Kept
<1>4. /\ Character(w) /\ w.journal.stage = "committing" /\ w.earned = actor.earned
      /\ w.level = actor.level + 1 /\ w.receipts = actor.receipts
  <2>1. Prepared.level = actor.level /\ Prepared.receipts = actor.receipts
    BY <1>3 DEF Prepared, Character
  <2>2. Character(Prepared)
    BY <1>1, PreparedFact
  <2>3. w.level = actor.level + 1 /\ w.receipts = actor.receipts
    <3> HIDE DEF Prepared
    <3> QED
      BY <2>1, <2>2 DEF Levelled, Character
  <2> QED
    BY <1>1, <2>3, WorkingKept, LevelledFact
<1> HIDE DEF w
<1>5. /\ Character(a) /\ a.journal.stage = "committing" /\ a.earned = actor.earned
      /\ a.level = actor.level + 1 /\ a.receipts = actor.receipts
  BY <1>4 DEF Character
<1>6. \/ Uncertain(a, view)
      \/ view' = [view EXCEPT !.phase = "closed"] /\ actor' = Receipted(a)
  BY <1>2
<1> HIDE DEF a
<1>7. CASE Uncertain(a, view)
  BY <1>1, <1>3, <1>5, <1>7, UncertainMaps
<1>8. CASE view' = [view EXCEPT !.phase = "closed"] /\ actor' = Receipted(a)
  <2> DEFINE c == Book(actor', actor'.effects)
             d == Book(actor, opened)
  <2>1. /\ actor'.journal.stage = "none" /\ actor'.level = actor.level + 1
        /\ actor'.receipts = actor.receipts + 1
        /\ actor'.earned = [s \in Stats |-> actor.earned[s] + plan.rows[s]]
    BY <1>3, <1>5, <1>8 DEF Receipted, Character, NoJournal
  <2>2. ~Open'
    BY <1>3, <1>8 DEF Open, Screen
  <2>3. LivingBook = Promise!Working(d) /\ LivingBook' = Promise!Sure(c)
    BY <1>1, <2>1, LivingFact, LivingNextFact
  <2>4. c.level = d.level + 1 /\ c.receipts = d.receipts + 1
        /\ c.earned = actor'.earned /\ d.earned = actor.earned
    BY <2>1 DEF Book
  <2>5. \A s \in Stats : c.earned[s] >= d.earned[s]
    BY <1>3, <2>1, <2>4
  <2>6. KeptBook' = KeptBook
    BY <1>1, KeptSame
  <2> HIDE DEF c, d
  <2> QED
    BY <1>1, <2>2, <2>3, <2>4, <2>5, <2>6, AppliesToPromise
<1> QED
  BY <1>6, <1>7, <1>8

\* A cancel drops the screen: the very book it was opened with.
LEMMA CancelMaps ==
    ASSUME IInv, PipsInv, NEW pips \in [Stats -> Pips], NEW cancels, Cancel(pips, cancels)
    PROVE  Maps
<1> DEFINE r == Cancelling(pips)
           done == r.outcome = "ok" /\ cancels /\ actor.journal.stage = "preview"
           a == [actor EXCEPT !.effects = r.list,
                              !.usable = @ /\ ~plan.bound,
                              !.journal = IF done THEN NoJournal ELSE @]
<1>1. Cancellable /\ Settle(done, a) /\ saved' = saved
  BY DEF Cancel, Cancelling, Native
<1>2. InPreview
  BY <1>1 DEF Cancellable, InPreview, Same, Open, PipsInv, Phases
<1>3. Character(actor) /\ Screen(view) /\ actor.journal.stage # "none"
  BY <1>2 DEF IInv, Typed, PipsInv, Screening
<1> HIDE DEF r
<1>4. /\ Character(a) /\ a.earned = actor.earned /\ a.level = actor.level /\ a.hp = actor.hp
      /\ a.receipts = actor.receipts
      /\ a.journal = (IF done THEN NoJournal ELSE actor.journal)
  BY <1>3 DEF Character, Journal, NoJournal
<1> HIDE DEF a
<1>5. CASE done
  <2>1. actor' = a /\ view' = [view EXCEPT !.phase = "closed"]
    BY <1>1, <1>5 DEF Settle
  <2>2. view'.phase = "closed" /\ ~Open'
    BY <1>3, <2>1 DEF Screen, Open
  <2>3. actor'.effects = opened
    BY <2>2, CancelPips
  <2>4. actor'.journal.stage = "none"
    BY <1>4, <1>5, <2>1 DEF NoJournal
  <2>5. Book(actor', actor'.effects) = Book(actor, opened)
    BY <1>4, <2>1, <2>3 DEF Book
  <2>6. LivingBook' = Promise!Sure(Book(actor, opened))
    BY <2>4, <2>5, LivingNextFact
  <2>7. LivingBook = Promise!Working(Book(actor, opened))
    BY <1>2, <1>3, LivingFact
  <2> QED
    BY <1>1, <1>2, <2>2, <2>6, <2>7, KeptSame, StepsOfPromise
<1>6. CASE ~done
  <2>1. Uncertain(a, view) /\ a.journal.stage # "none"
    BY <1>1, <1>3, <1>4, <1>6 DEF Settle
  <2> QED
    BY <1>1, <1>2, <1>3, <1>4, <2>1, UncertainMaps
<1> QED
  BY <1>5, <1>6

LEMMA SaveMaps ==
    ASSUME IInv, PipsInv, Save
    PROVE  Maps
<1>1. /\ saved' = actor /\ actor' = actor /\ view' = view /\ opened' = opened
      /\ (InPreview' <=> InPreview) /\ (Open' <=> Open)
  BY DEF Save, InPreview, Same, Open
<1>2. InPreview => actor.journal.stage # "none"
  BY DEF PipsInv, Screening
<1>3. LivingBook' = LivingBook
  BY <1>1, LivingFact, LivingNextFact
<1>4. KeptBook' = IF InPreview THEN Promise!Doubtful ELSE LivingBook
  <2>1. CASE actor.journal.stage = "none"
    BY <1>1, <1>2, <2>1 DEF KeptBook, LivingBook, Certain, Book, Inactive, ActivePips, Content
  <2>2. CASE actor.journal.stage # "none"
    BY <1>1, <2>2 DEF KeptBook, LivingBook, Promise!Doubtful
  <2> QED
    BY <2>1, <2>2
<1>5. Promise!Save
  BY <1>1, <1>3, <1>4 DEF Promise!Save
<1> QED
  BY <1>5 DEF Maps, Promise!Next

\* A load ends the doubt, and the screen or its use: the character is the saved one.
LEMMA LoadedMaps ==
    ASSUME IInv, PipsInv, NEW STATE n, actor' = [saved EXCEPT !.inc = n, !.native_hp = NoBatch],
           saved' = saved, ~InPreview', Open' => Open
    PROVE  Maps
<1>1. Character(saved)
  BY DEF IInv, Typed
<1>2. /\ actor'.journal = saved.journal /\ actor'.effects = saved.effects
      /\ actor'.level = saved.level /\ actor'.hp = saved.hp
      /\ actor'.receipts = saved.receipts /\ actor'.earned = saved.earned
  BY <1>1 DEF Character
<1>3. Book(actor', actor'.effects) = Book(saved, saved.effects)
  BY <1>2 DEF Book
<1>4. LivingBook' = KeptBook
  <2>1. CASE saved.journal.stage = "none"
    BY <1>2, <1>3, <2>1, LivingNextFact DEF KeptBook, Certain, Promise!Sure
  <2>2. CASE saved.journal.stage # "none"
    BY <1>2, <2>2, LivingNextFact DEF KeptBook, Promise!Doubtful
  <2> QED
    BY <2>1, <2>2
<1>5. Promise!Load
  BY <1>4, KeptSame DEF Promise!Load
<1> QED
  BY <1>5 DEF Maps, Promise!Next

LEMMA LoadMaps ==
    ASSUME IInv, PipsInv, Load
    PROVE  Maps
<1>1. /\ actor.inc \in Nat /\ Screen(view) /\ view' = view /\ saved' = saved
      /\ actor' = [saved EXCEPT !.inc = actor.inc + 1, !.native_hp = NoBatch]
  BY DEF IInv, Typed, Character, Load, Reload
<1>2. actor'.inc = actor.inc + 1
  BY <1>1 DEF IInv, Typed, Character
<1>3. ~InPreview' /\ (Open' <=> Open)
  BY <1>1, <1>2 DEF IInv, NotAhead, InPreview, Same, Open, Screen
<1> QED
  BY <1>1, <1>3, LoadedMaps

LEMMA RestartMaps ==
    ASSUME IInv, PipsInv, Restart
    PROVE  Maps
<1>1. /\ view' = NoView /\ saved' = saved
      /\ actor' = [saved EXCEPT !.inc = 1, !.native_hp = NoBatch]
  BY DEF Restart
<1>2. ~InPreview' /\ ~Open'
  BY <1>1 DEF InPreview, Same, Open, NoView
<1> QED
  BY <1>1, <1>2, LoadedMaps

LEMMA NextMaps == IInv /\ PipsInv /\ [Next]_vars => Maps
<1> SUFFICES ASSUME IInv, PipsInv, [Next]_vars PROVE Maps
  OBVIOUS
<1>1. CASE \/ ResetWhileOpen \/ ResetRefused \/ OtherCharacter \/ CommitRefused
           \/ PrepareFails \/ CommitThrows \/ CancelRefused \/ CancelThrows
  BY <1>1, FailingMaps DEF Failing
<1>2. CASE ResetOrdinary \/ EndOrdinary
  BY <1>2, OrdinaryMaps
<1>3. ASSUME NEW rows \in Rows, NEW react \in BOOLEAN, NEW made \in BOOLEAN,
             NEW added \in SUBSET Stats, NEW b \in Batches,
             ResetOwned(rows, react, made, added, b)
      PROVE  Maps
  BY <1>3, ResetOwnedMaps
<1>4. ASSUME NEW s \in Stats, NEW pips \in Pips, NEW added \in SUBSET Stats,
             Choose(s, pips, added)
      PROVE  Maps
  BY <1>4, ChooseMaps
<1>5. CASE Recalculate
  BY <1>5, RecalculateMaps
<1>6. ASSUME NEW i \in 0..Len(actor.effects), NEW made \in BOOLEAN,
             NEW completes \in BOOLEAN, NEW added \in SUBSET Stats,
             Commit(i, made, added, completes)
      PROVE  Maps
  BY <1>6, CommitMaps
<1>7. ASSUME NEW pips \in [Stats -> Pips], NEW cancels \in BOOLEAN, Cancel(pips, cancels)
      PROVE  Maps
  BY <1>7, CancelMaps
<1>8. CASE Save
  BY <1>8, SaveMaps
<1>9. CASE Load
  BY <1>9, LoadMaps
<1>10. CASE Restart
  BY <1>10, RestartMaps
<1>11. CASE UNCHANGED vars
  <2>1. actor' = actor /\ saved' = saved /\ view' = view /\ opened' = opened
    BY <1>11 DEF vars
  <2>2. (InPreview' <=> InPreview) /\ (Open' <=> Open)
    BY <2>1 DEF InPreview, Same, Open
  <2> QED
    BY <2>1, <2>2, SameMaps
<1>12. ASSUME NEW s \in Stats, NEW pips \in Pips, ChooseUntracked(s, pips)
       PROVE  Maps
  BY <1>12, UntrackedMaps
<1> QED
  BY <1>1, <1>2, <1>3, <1>4, <1>5, <1>6, <1>7, <1>8, <1>9, <1>10, <1>11, <1>12 DEF Next

LEMMA InitMaps == Init => Promise!Init
<1> SUFFICES ASSUME Init PROVE Promise!Init
  OBVIOUS
<1>1. /\ actor.level = 1 /\ actor.receipts = 0 /\ actor.journal = NoJournal
      /\ saved = actor /\ view = NoView
  BY DEF Init
<1>2. ~InPreview /\ ~Open /\ actor.journal.stage = "none"
  BY <1>1 DEF InPreview, Same, Open, NoView, NoJournal
<1>3. LivingBook = Promise!Sure(Book(actor, actor.effects)) /\ KeptBook = LivingBook
  BY <1>1, <1>2, LivingFact DEF KeptBook, LivingBook
<1>4. Book(actor, actor.effects).level = 1 /\ Book(actor, actor.effects).receipts = 0
  BY <1>1 DEF Book
<1> QED
  BY <1>2, <1>3, <1>4, KnownFact DEF Promise!Init

\* Whatever fails while a level-up screen opens, is used or ends, the screen is a
\* transaction on the character's level, hit points, earned pips and records: it
\* is applied with its receipt, dropped with nothing changed, or in doubt until a
\* load brings the saved character back, and a save of an open screen is in doubt
\* too.  A screen that failed still takes active pips, and nothing else, into the
\* records (CBMDS_Reset, Commit, Cancel, CBMDL_SetActive and the journal of
\* dual_manual_receipts.lua).
THEOREM LevelIsTransaction == Spec => ScreenIsTransaction
<1>1. IInv /\ PipsInv /\ [Next]_vars =>
        [Promise!Next]_<<LivingBook, KeptBook,
                         IF InPreview THEN "open" ELSE IF Open THEN "stuck" ELSE "none">>
  BY NextMaps DEF Maps, ScreenMap
<1> QED
  BY <1>1, InitMaps, PipsInductive, PTL
     DEF Spec, ScreenIsTransaction, Promise!Spec, Promise!vars
=============================================================================
