---------------------------- MODULE CombinedScreen ----------------------------
(***************************************************************************)
(* The level-up screen of a dual-classed character                         *)
(* (research/xp-banking-native/dual_manual_session.cpp, with the preview   *)
(* adapter dual_combined_preview.cpp, the observers dual_hp_observer.cpp   *)
(* and dual_choice_observer.cpp, and the journal of                        *)
(* dual_manual_receipts.lua).  The screen's handlers run on the engine     *)
(* thread and hold it until they return, so a handler is one action, with  *)
(* every outcome its callbacks can have: the game's own reset, commit and  *)
(* cancel can throw, the journal's functions can fail.                     *)
(*                                                                         *)
(* One sprite address is modelled; a load puts another incarnation there.  *)
(* A dormant old class has its captured receipt, as for every character    *)
(* that was dual-classed with the bank installed.                          *)
(***************************************************************************)
EXTENDS ProfRecords, FiniteSets

CONSTANTS
    Rolls,      \* what the game can roll for a level's hit points
    MaxLevel,   \* bound on the levels the character reaches
    MaxSession, \* UINT64_MAX of next_session
    MaxInc,     \* bound on the incarnations of one process
    MaxLoads,   \* bound on loads and restarts
    StartLists  \* the proficiency records a character may start with

ASSUME ListAssumption == StartLists \subseteq Lists

VARIABLES
    actor,        \* the character: effects, level, hit points, its saved carrier
    saved,        \* the character as the last save holds it
    view,         \* CBMDS_View; phase "closed" is `open` false
    backups,      \* the screen holds the game's own backup of the character
    batch,        \* the hit-point batch of the open screen
    cache,        \* incarnation -> the last complete batch
    unread,       \* dual_hp_observer: a batch nobody took
    fault,        \* dual_choice_observer: a choice did not complete
    plan,         \* dual_combined_preview: the old class's choices
    tx,           \* the proficiency transaction of the plan
    next_session,
    loads,        \* history: loads and restarts so far
    opened        \* history: the proficiency records when the screen opened

observers == <<batch, cache, unread, fault>>
vars == <<actor, saved, view, backups, observers, plan, tx, next_session, loads, opened>>
-----------------------------------------------------------------------------
NoRows == [s \in Stats |-> 0]
NoBatch == [level |-> 0, total |-> 0, status |-> 0]
NoJournal == [stage |-> "none", session |-> 0, inc |-> 0, hp |-> 0]
NoView == [phase |-> "closed", session |-> 0, inc |-> 0, owner |-> FALSE, hp |-> 0]
NoPlan == [bound |-> FALSE, rows |-> NoRows, merged |-> FALSE, tx |-> FALSE]


Init ==
    /\ \E list \in StartLists, owned \in BOOLEAN :
          actor = [inc |-> 1, owned |-> owned, usable |-> FALSE, level |-> 1,
                   effects |-> list, native_hp |-> NoBatch, journal |-> NoJournal,
                   hp |-> 0, receipts |-> 0, receipt_hp |-> 0,
                   earned |-> [s \in Stats |-> ReadOld(list, s)]]
    /\ saved = actor
    /\ view = NoView
    /\ backups = FALSE
    /\ batch = NoBatch
    /\ cache = [i \in 1..MaxInc |-> NoBatch]
    /\ unread = FALSE
    /\ fault = FALSE
    /\ plan = NoPlan
    /\ tx = NoTx
    /\ next_session = 0
    /\ loads = 0
    /\ opened = actor.effects

Open == view.phase # "closed"
\* same(): the session's sprite is still the one it was opened for.
Same == Open /\ view.inc = actor.inc

\* uncertain(): the screen stays open for good.  The journal is marked if its
\* callback finds one and succeeds; `a` and `v` are the character and the view
\* the handler has reached.
Marked(a, v) ==
    IF /\ v.owner /\ v.inc = a.inc /\ a.journal.stage # "none"
       /\ a.journal.session = v.session /\ a.journal.inc = v.inc
    THEN {a, [a EXCEPT !.journal.stage = "uncertain"]} ELSE {a}
Uncertain(a, v) ==
    /\ view' = [v EXCEPT !.phase = "uncertain"]
    /\ actor' \in Marked(a, v)
-----------------------------------------------------------------------------
(* Opening: CBMDS_Reset.                                                    *)

\* Another screen is open: nothing of the game's runs.
ResetWhileOpen ==
    /\ Open
    /\ Uncertain(actor, view)
    /\ UNCHANGED <<saved, backups, observers, plan, tx, next_session, loads, opened>>

CanOpen == ~Open /\ ~backups /\ next_session < MaxSession
NewView == [phase |-> "preview", session |-> next_session + 1, inc |-> actor.inc,
            owner |-> FALSE, hp |-> 0]
StartSession ==
    /\ CanOpen
    /\ next_session' = next_session + 1
    /\ opened' = actor.effects

\* An unowned character keeps the game's own screen.
ResetOrdinary ==
    /\ StartSession
    /\ ~actor.owned
    /\ view' = NoView
    /\ batch' = NoBatch
    /\ backups' = TRUE
    /\ UNCHANGED <<actor, saved, cache, unread, fault, plan, tx, loads>>

\* The game's Commit or Cancel of such a screen.
EndOrdinary ==
    /\ ~Open
    /\ backups
    /\ backups' = FALSE
    /\ UNCHANGED <<actor, saved, view, observers, plan, tx, next_session, loads, opened>>

\* Mutant: an unresolved journal is replaced.
JournalFree_Always == TRUE

\* Begin of the journal: refused while an earlier one is unresolved.
JournalFree == actor.journal.stage = "none"

\* Mutant: the game's reset runs before the journal is published.
Journaled_Unpublished(v) == actor

Journaled(v) ==
    [actor EXCEPT !.journal = [stage |-> "preview", session |-> v.session, inc |-> v.inc, hp |-> 0]]

\* The begin callback fails, before or after it published the journal.
ResetRefused ==
    /\ StartSession
    /\ actor.owned
    /\ \/ Uncertain(actor, NewView)
       \/ /\ JournalFree
          /\ Uncertain(Journaled(NewView), [NewView EXCEPT !.owner = TRUE])
    /\ batch' = NoBatch
    /\ UNCHANGED <<saved, backups, cache, unread, fault, plan, tx, loads>>

\* The old class's choices of a dormant character: CBMDL_Select and
\* CBMDL_SelectProficiencies.
RowsFit(rows) ==
    \A s \in Stats : rows[s] > 0 => ReadOld(actor.effects, s) + rows[s] <= MaxPips
Selected(rows) ==
    IF actor.usable THEN NoPlan
    ELSE [bound |-> TRUE, rows |-> rows, merged |-> FALSE, tx |-> FALSE]
Selectable(rows) == IF actor.usable THEN rows = NoRows ELSE ~plan.tx /\ ~plan.bound /\ RowsFit(rows)

\* The game's reset rolls hit points unless it already has them for this
\* level (CBMDH_Capture, CBMDS_OnHP); then they come from the cache of this
\* incarnation (matchCache).
Target == actor.level + 1
Rolled(total, complete) ==
    [level |-> Target, total |-> total, status |-> IF complete /\ ~unread THEN 1 ELSE 2]
\* Mutant: the cache is trusted for any level.
CacheMatches_AnyLevel == cache[actor.inc].level # 0

CacheMatches == cache[actor.inc].level = Target /\ cache[actor.inc].total = actor.native_hp.total

HitPoints(b) ==
    IF actor.native_hp.level = Target
    THEN /\ b = IF CacheMatches THEN cache[actor.inc] ELSE [NoBatch EXCEPT !.status = 2]
         /\ UNCHANGED cache
    ELSE /\ \E total \in Rolls, complete \in BOOLEAN : b = Rolled(total, complete)
         /\ cache' = IF b.status = 1 THEN [cache EXCEPT ![actor.inc] = b] ELSE cache
Batches == {NoBatch} \cup {Rolled(t, c) : t \in Rolls, c \in BOOLEAN}
             \cup {cache[actor.inc], [NoBatch EXCEPT !.status = 2]}
NativeRoll(b) == IF actor.native_hp.level = Target THEN actor.native_hp ELSE b

\* The reset of an owned screen.  `react` is the game finding the old class
\* reactivated, where it calls CombineAll; elsewhere AfterReset begins an
\* active-only transaction.
ResetOwned(rows, react, made, added, b) ==
    LET v == [NewView EXCEPT !.owner = TRUE, !.hp = b.status]
        p == Selected(rows)
        merge == p.bound /\ react
        r == IF merge THEN ApplyPreview(actor.effects, rows, made, added)
             ELSE IF p.bound THEN BeginActive(actor.effects)
             ELSE Result("ok", actor.effects, NoTx)
        a == [Journaled(v) EXCEPT !.effects = r.list, !.native_hp = NativeRoll(b),
                                  !.usable = actor.usable \/ (merge /\ r.outcome = "ok")]
    IN  /\ StartSession
        /\ actor.owned
        /\ JournalFree
        /\ actor.level < MaxLevel
        /\ Selectable(rows)
        /\ HitPoints(b)
        /\ batch' = b
        /\ tx' = r.tx
        /\ plan' = [p EXCEPT !.merged = merge /\ r.outcome = "ok", !.tx = r.tx # NoTx]
        /\ backups' = TRUE
        /\ IF r.outcome = "ok" THEN view' = v /\ actor' = a ELSE Uncertain(a, v)
        /\ UNCHANGED <<saved, unread, fault, loads>>

\* Another character's ordinary screen is reset while this one is open: its
\* hit points reach OnHP, which refuses them, and the observer keeps them.
OtherCharacter ==
    /\ Open
    /\ Uncertain(actor, view)
    /\ unread' = TRUE
    /\ UNCHANGED <<saved, backups, batch, cache, fault, plan, tx, next_session, loads, opened>>
-----------------------------------------------------------------------------
(* Choosing: the +/- buttons, CBMDC_Active around CBMDL_SetActive.          *)

InPreview == Same /\ view.phase = "preview"

NativeSet(list, stat, pips) ==
    [i \in DOMAIN list |-> IF list[i].kind = "set" /\ list[i].stat = stat
                           THEN [list[i] EXCEPT !.act = pips] ELSE list[i]]

\* The buttons go one pip up or down, and the game's own screen takes back only
\* what was chosen on it.
OnePip(stat, pips) ==
    pips \in {ReadActive(actor.effects, stat) + 1, ReadActive(actor.effects, stat) - 1} \cap Pips
NotBelowOpened(stat, pips) == pips >= ReadActive(opened, stat)

Choose(stat, pips, added) ==
    LET r == IF plan.bound THEN SetActive(actor.effects, tx, stat, pips, added)
             ELSE Result("ok", NativeSet(actor.effects, stat, pips), tx)
    IN  /\ InPreview
        /\ OnePip(stat, pips)
        /\ plan.bound \/ NotBelowOpened(stat, pips)
        /\ actor' = [actor EXCEPT !.effects = r.list]
        /\ tx' = r.tx
        /\ fault' = (fault \/ r.outcome # "ok")
        /\ UNCHANGED <<saved, view, backups, batch, cache, unread, plan, next_session, loads, opened>>

\* Nothing stops the buttons of an uncertain screen, or of one whose sprite was
\* loaded anew: outside choicesScope the setter is the game's own, and only then
\* does CBMDS_OnChoice see the choice and call uncertain().
ChooseUntracked(stat, pips) ==
    /\ Open
    /\ ~InPreview
    /\ OnePip(stat, pips)
    /\ NotBelowOpened(stat, pips)
    /\ Uncertain([actor EXCEPT !.effects = NativeSet(@, stat, pips)], view)
    /\ UNCHANGED <<saved, backups, observers, plan, tx, next_session, loads, opened>>

\* What the screen shows of the two classes: CBMDL_GetActive, CBMDL_GetInactive.
ShownActive(stat) == ReadActive(actor.effects, stat)
ShownOld(stat) == IF plan.merged THEN 0 ELSE ReadOld(actor.effects, stat) + plan.rows[stat]

\* The game replaces a record while it recalculates effects: same content, and
\* a node the open screen has not seen.  Nothing tells the other records apart.
Replaced(list, i) ==
    LET seen == Nodes(list) \cup {r.node : r \in tx.recs}
    IN  [list EXCEPT ![i].node = CHOOSE n \in 1..(Cardinality(seen) + 1) : n \notin seen]
Recalculate ==
    /\ \E i \in {j \in DOMAIN actor.effects : Owns(tx, actor.effects[j])} :
          actor' = [actor EXCEPT !.effects = Replaced(actor.effects, i)]
    /\ UNCHANGED <<saved, view, backups, observers, plan, tx, next_session, loads, opened>>
-----------------------------------------------------------------------------
(* Ending.  Settle is the end of a handler: the callbacks all succeeded and *)
(* the screen closes, or it stays open and uncertain.                       *)

Settle(done, a) ==
    IF done THEN view' = [view EXCEPT !.phase = "closed"] /\ actor' = a
    ELSE Uncertain(a, view)

Committable == InPreview /\ view.hp = 1 /\ ~fault

CommitRefused ==
    /\ Open
    /\ ~Committable
    /\ Uncertain(actor, view)
    /\ UNCHANGED <<saved, backups, observers, plan, tx, next_session, loads, opened>>

\* PrepareCommit: the journal takes the hit points and the choices.
Prepared == [actor EXCEPT !.journal.stage = "committing", !.journal.hp = batch.total]

PrepareFails ==
    /\ Committable
    /\ \/ Uncertain(actor, view)
       \/ actor.journal.stage = "preview" /\ Uncertain(Prepared, view)
    /\ UNCHANGED <<saved, backups, observers, plan, tx, next_session, loads, opened>>

\* The game's commit gives the level and its hit points.
Levelled(a) == [a EXCEPT !.level = @ + 1, !.hp = @ + a.native_hp.total]

CommitThrows ==
    /\ Committable
    /\ actor.journal.stage = "preview"
    /\ \/ Uncertain(Prepared, view)
       \/ Uncertain(Levelled(Prepared), view)
    /\ UNCHANGED <<saved, backups, observers, plan, tx, next_session, loads, opened>>

\* CBMDL_AfterCommit: a merge retires its carriers, a dormant class's new
\* pips become carriers.
AfterCommit(list, made, added) ==
    LET c == Complete(list, tx)
    IN  IF ~plan.bound THEN Result("ok", list, tx)
        ELSE IF plan.merged \/ c.outcome # "ok" \/ plan.rows = NoRows THEN c
        ELSE PersistDormant(c.list, plan.rows, made, added)

\* Complete of the journal: the receipt joins the ledger.
Receipted(a) ==
    [a EXCEPT !.journal = NoJournal, !.receipts = @ + 1, !.receipt_hp = @ + a.journal.hp,
              !.earned = [s \in Stats |-> @[s] + plan.rows[s]]]

\* replaced is the record the game recalculates in its commit, 0 for none.
Commit(replaced, made, added, completes) ==
    LET list == IF replaced \in DOMAIN actor.effects
                THEN Replaced(actor.effects, replaced) ELSE actor.effects
        r == AfterCommit(list, made, added)
        done == r.outcome = "ok" /\ completes
        a == [Levelled(Prepared) EXCEPT !.effects = r.list]
    IN  /\ Committable
        /\ actor.journal.stage = "preview"
        /\ backups' = FALSE
        /\ tx' = IF r.outcome = "ok" THEN NoTx ELSE r.tx
        /\ plan' = IF r.outcome = "ok" THEN NoPlan ELSE [plan EXCEPT !.tx = r.tx # NoTx]
        /\ Settle(done, IF done THEN Receipted(a) ELSE a)
        /\ UNCHANGED <<saved, observers, next_session, loads, opened>>

Cancellable == Same /\ view.phase # "uncertain"

CancelRefused ==
    /\ Open
    /\ ~Cancellable
    /\ Uncertain(actor, view)
    /\ UNCHANGED <<saved, backups, observers, plan, tx, next_session, loads, opened>>

CancelThrows ==
    /\ Cancellable
    /\ Uncertain(actor, view)
    /\ UNCHANGED <<saved, backups, observers, plan, tx, next_session, loads, opened>>

\* The game's cancel puts its snapshots back and runs its own active setter
\* over the records; Restore (CBMDL_AfterCancel) then puts the bits back.
Cancel(pips, cancels) ==
    LET native == [i \in DOMAIN actor.effects |->
                     IF actor.effects[i].kind # "set" THEN actor.effects[i]
                     ELSE [actor.effects[i] EXCEPT !.act =
                             IF plan.bound THEN pips[actor.effects[i].stat] ELSE opened[i].act]]
        r == IF plan.tx THEN Restore(native, tx) ELSE Result("ok", native, tx)
        done == r.outcome = "ok" /\ cancels /\ actor.journal.stage = "preview"
        a == [actor EXCEPT !.effects = r.list,
                           !.usable = @ /\ ~plan.bound,
                           !.journal = IF done THEN NoJournal ELSE @]
    IN  /\ Cancellable
        /\ backups' = FALSE
        /\ tx' = r.tx
        /\ plan' = IF r.outcome = "ok" THEN NoPlan ELSE [plan EXCEPT !.tx = r.tx # NoTx]
        /\ Settle(done, a)
        /\ UNCHANGED <<saved, observers, next_session, loads, opened>>
-----------------------------------------------------------------------------
(* Saving and loading.  The carrier with the journal is part of the         *)
(* character, so it is saved and loaded with it.                            *)

Save ==
    /\ loads < MaxLoads
    /\ saved' = actor
    /\ UNCHANGED <<actor, view, backups, observers, plan, tx, next_session, loads, opened>>

Reload ==
    /\ loads < MaxLoads
    /\ loads' = loads + 1

\* A load in the same process: a new incarnation at the address.  The load closes
\* the game's screen, which opens again on the loaded character.
Load ==
    /\ Reload
    /\ actor.inc < MaxInc
    /\ actor' = [saved EXCEPT !.inc = actor.inc + 1, !.native_hp = NoBatch]
    /\ opened' = saved.effects
    /\ UNCHANGED <<saved, view, backups, observers, plan, tx, next_session>>

\* The process ends and the save is loaded in a new one.
Restart ==
    /\ Reload
    /\ actor' = [saved EXCEPT !.inc = 1, !.native_hp = NoBatch]
    /\ view' = NoView
    /\ backups' = FALSE
    /\ batch' = NoBatch
    /\ cache' = [i \in 1..MaxInc |-> NoBatch]
    /\ unread' = FALSE
    /\ fault' = FALSE
    /\ plan' = NoPlan
    /\ tx' = NoTx
    /\ next_session' = 0
    /\ opened' = saved.effects
    /\ UNCHANGED saved

Rows == [Stats -> 0..1]
Next ==
    \/ ResetWhileOpen \/ ResetOrdinary \/ EndOrdinary \/ ResetRefused \/ OtherCharacter
    \/ \E rows \in Rows, react, made \in BOOLEAN, added \in SUBSET Stats, b \in Batches :
          ResetOwned(rows, react, made, added, b)
    \/ \E s \in Stats, pips \in Pips, added \in SUBSET Stats : Choose(s, pips, added)
    \/ \E s \in Stats, pips \in Pips : ChooseUntracked(s, pips)
    \/ Recalculate
    \/ CommitRefused \/ PrepareFails \/ CommitThrows
    \/ \E i \in 0..Len(actor.effects), made, completes \in BOOLEAN, added \in SUBSET Stats :
          Commit(i, made, added, completes)
    \/ CancelRefused \/ CancelThrows
    \/ \E pips \in [Stats -> Pips], cancels \in BOOLEAN : Cancel(pips, cancels)
    \/ Save \/ Load \/ Restart

Spec == Init /\ [][Next]_vars
-----------------------------------------------------------------------------
\* No screen costs the character old-class pips: between screens the dormant
\* class reads exactly what it has earned and a reactivated one has at least
\* that much in its active pips; the open screen never shows fewer than earned
\* and chosen (CBMDPC_ApplyPreview, Complete, PersistDormant).
Settled == ~Open /\ actor.journal.stage = "none"
OldPipsKept ==
    \A s \in Stats : actor.earned[s] <= MaxPips =>
        /\ Settled /\ ~actor.usable => ReadOld(actor.effects, s) = actor.earned[s]
        /\ Settled /\ actor.usable => ReadActive(actor.effects, s) >= actor.earned[s]
        /\ InPreview /\ plan.bound =>
               Most(ShownActive(s), ShownOld(s)) >= actor.earned[s] + plan.rows[s]

\* Cancelling leaves the records as the screen found them: the same bits, no
\* record of the preview and no carrier consumed (CBMDPC_Restore).
Content(list) == [i \in DOMAIN list |-> [list[i] EXCEPT !.node = 0]]
Cancelled == view.phase = "preview" /\ view'.phase = "closed" /\ actor'.receipts = actor.receipts
             /\ loads' = loads
CancelRestores ==
    [][Cancelled => Content(actor'.effects) = Content(opened)]_vars

\* Every level and every hit point the character gained on a tracked screen
\* has its receipt, or an unresolved journal says that one may not
\* (CBMDS_Commit, PrepareCommit, Complete, matchCache).
GainsAccounted ==
    IF actor.journal.stage = "none"
    THEN actor.level = 1 + actor.receipts /\ actor.hp = actor.receipt_hp
    ELSE actor.level - actor.receipts \in {1, 2}

\* A record without what the game's own active setter writes, and that alone.
Inactive(list) == [i \in DOMAIN list |-> [Content(list)[i] EXCEPT !.act = 0]]
ActivePips(list) == [i \in DOMAIN list |-> Content(list)[i].act]

\* An outcome nobody knows stays open: an uncertain screen never closes, and a
\* character whose journal is unresolved gains no level and keeps its journal,
\* whatever screen is tried next (CBMDS_Reset, Begin).  Its records keep what they
\* hold of the old class and none comes or goes; only the game's own +/- buttons on
\* the stuck screen still write active pips (CBMDL_SetActive before OnChoice), and
\* without that screen nothing does.
Unresolved == view.phase = "uncertain" \/ (~Open /\ actor.journal.stage # "none")
UnresolvedIsFinal ==
    [][Unresolved /\ loads' = loads =>
         /\ view.phase = "uncertain" => view'.phase = "uncertain"
         /\ actor'.level = actor.level
         /\ actor.journal.stage # "none" => actor'.journal.stage \in {actor.journal.stage, "uncertain"}
         /\ Inactive(actor'.effects) = Inactive(actor.effects)
         /\ ~Open => Content(actor'.effects) = Content(actor.effects)]_vars

\* The screen as LevelScreen sees it: the book of a character without an open
\* journal, and the one an open screen was opened with.
Book(a, list) ==
    [level |-> a.level, hp |-> a.hp, receipts |-> a.receipts, earned |-> a.earned,
     records |-> Inactive(list), active |-> ActivePips(list)]
Certain(a) == [sure |-> TRUE, books |-> {Book(a, a.effects)}]
LivingBook ==
    IF actor.journal.stage = "none" THEN Certain(actor)
    ELSE [sure |-> FALSE, books |-> IF InPreview THEN {Book(actor, opened)} ELSE {}]
KeptBook ==
    IF saved.journal.stage = "none" THEN Certain(saved) ELSE [sure |-> FALSE, books |-> {}]

Promise == INSTANCE LevelScreen
    WITH living <- LivingBook, kept <- KeptBook,
         screen <- IF InPreview THEN "open" ELSE IF Open THEN "stuck" ELSE "none"

\* A screen is a transaction on the character's level, hit points, earned pips and
\* records: applied with its receipt, dropped without a trace, or in doubt until a
\* load; a stuck screen still takes active pips (CBMDS_Reset, Commit, Cancel,
\* CBMDL_SetActive and the journal of dual_manual_receipts.lua).
ScreenIsTransaction == Promise!Spec
=============================================================================
