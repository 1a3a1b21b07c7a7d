----------------------------- MODULE OldAbilities -----------------------------
(***************************************************************************)
(* The high-level abilities of a dormant old class                         *)
(* (research/xp-banking-native/dual_old_hla_receipts.lua and               *)
(* dual_old_hla_delivery.cpp, the native rules of dual_old_hla.cpp, the    *)
(* page of dual_retired_picker.lua and the flow of dual_retired_flow.lua). *)
(* They are chosen on a page of their own, join a saved queue when the     *)
(* level-up screen commits, and are granted, in batches, by the commit     *)
(* that finds the old class reactivated.                                   *)
(*                                                                         *)
(* The commit holds the engine thread, but the game's code runs inside it: *)
(* it can award experience, drain levels, open another screen and save.    *)
(* One sprite address is modelled; a load puts another incarnation there.  *)
(* A selection is a ticket, so that two of the same ability differ.        *)
(***************************************************************************)
EXTENDS Integers, Sequences, FiniteSets, SequencesExt

CONSTANTS
    Catalog,    \* row -> [kind, res, prereq, excl, max], the installed abilities
    Nothing,    \* "*": no prerequisite, no exclusion
    Batch,      \* 24: abilities the game completes at a time
    MaxPoints,  \* bound on the points of one interval
    MaxTickets, \* bound on the selections of a character's life
    MaxXp,      \* bound on the experience abilities award
    MaxSession, \* bound on the screens of one process
    MaxLoads,   \* bound on loads and restarts
    Starts      \* rows a character may have been granted before

ASSUME AbilityAssumption ==
    /\ Batch \in Nat \ {0}
    /\ Starts \subseteq DOMAIN Catalog
    /\ \A row \in DOMAIN Catalog : Catalog[row].max \in Int

VARIABLES
    actor,      \* incarnation, old class dormant, abilities granted, experience
    account,    \* the saved carrier: queue, the two journals, experience, receipts
    saved,      \* both as the last save holds them
    page,       \* the old class's page: points and the rows picked
    screen,     \* CBMDS_View; phase "closed" when none is open
    projection, \* what the screen's predicate adds to the actor's abilities
    call,       \* the commit handler under way
    attempted,  \* the session a delivery was begun for, per process
    next_session,
    loads       \* history: loads and restarts so far

vars == <<actor, account, saved, page, screen, projection, call, attempted, next_session, loads>>
-----------------------------------------------------------------------------
Rows == DOMAIN Catalog
Effect(row) == <<Catalog[row].kind, Catalog[row].res>>
Effects(tickets) == [i \in DOMAIN tickets |-> Effect(tickets[i].row)]
Smaller(a, b) == IF a <= b THEN a ELSE b

NoManual == [stage |-> "none", session |-> 0, inc |-> 0, retired |-> FALSE, choices |-> <<>>,
             enqueued |-> FALSE, old |-> "none", count |-> 0]
NoDelivery == [stage |-> "none", session |-> 0, count |-> 0, completed |-> 0]
NoPage == [open |-> FALSE, points |-> 0, picks |-> <<>>]
NoScreen == [phase |-> "closed", session |-> 0, inc |-> 0, owner |-> FALSE]
NoProjection == [session |-> 0, inc |-> 0, rows |-> <<>>]
NoCall == [at |-> "none", n |-> 0, rows |-> <<>>, fired |-> 0, done |-> 0, status |-> 0]

Init ==
    /\ \E row \in Starts :
         /\ actor = [inc |-> 1, dormant |-> TRUE, granted |-> <<[n |-> 0, row |-> row]>>, xp |-> 0]
         /\ account = [queue |-> <<>>, delivery |-> NoDelivery, manual |-> NoManual, xp |-> 0,
                       made |-> 0, earned |-> {[n |-> 0, row |-> row]}]
    /\ saved = [actor |-> actor, account |-> account]
    /\ page = NoPage
    /\ screen = NoScreen
    /\ projection = NoProjection
    /\ call = NoCall
    /\ attempted = [session |-> 0, inc |-> 0]
    /\ next_session = 0
    /\ loads = 0

\* ManualOwnership: no journal of the character is unresolved.
Free == account.manual.stage = "none" /\ account.delivery.stage = "none"
Same == screen.phase # "closed" /\ screen.inc = actor.inc
\* `manual` of the queue: the screen is in this phase and owns the journal.
Manual(phase) ==
    /\ Same
    /\ screen.phase = phase
    /\ screen.owner
    /\ account.manual.session = screen.session
    /\ account.manual.inc = screen.inc

\* flow.Uncertain: the screen's context is cleared, and the journal is marked
\* if its callback finds it and succeeds.  `a` is the account the handler has
\* reached, `s` the screen.
Uncertain(a, s) ==
    /\ screen' = [s EXCEPT !.phase = "uncertain"]
    /\ projection' = NoProjection
    /\ account' \in
         IF s.owner /\ s.inc = actor.inc /\ a.manual.session = s.session /\ a.manual.inc = s.inc
         THEN {a, [a EXCEPT !.manual.stage = "uncertain"]} ELSE {a}
-----------------------------------------------------------------------------
(* The native rules.  CheckAbilityEnabled, of the game: `chosen` counts the *)
(* selected effects, compared whole; what the actor was granted and what is *)
(* deferred counts by resource, whatever its kind.                         *)

\* A row may name an effect that is no row of the catalogue.
AllEffects ==
    {Effect(r) : r \in Rows}
      \cup (({Catalog[r].prereq : r \in Rows} \cup {Catalog[r].excl : r \in Rows}) \ {Nothing})
Earned(effects) ==
    [res \in {e[2] : e \in AllEffects} |->
       Cardinality({i \in DOMAIN effects : effects[i][2] = res})]
Enabled(row, max, chosen, earned) ==
    LET c == Catalog[row]
        has(effect) == effect # Nothing /\ (chosen[effect] > 0 \/ earned[effect[2]] > 0)
    IN  /\ chosen[Effect(row)] + earned[c.res] < max
        /\ c.prereq = Nothing \/ has(c.prereq)
        /\ ~has(c.excl)

Count(picks) == [e \in AllEffects |-> Cardinality({i \in DOMAIN picks : Effect(picks[i]) = e})]
Granted == Earned(Effects(actor.granted \o account.queue))

\* CBMDHLA_CanChoose gives the game one representative of the prerequisite and
\* one of the exclusion, and takes the other selections off the rank.
\* Mutant: one representative is enough.
Represented_One(row, picks) ==
    IF Count(picks)[Effect(row)] = 0 THEN {Catalog[row].prereq} ELSE {}

Represented(row, picks) ==
    {e \in {Catalog[row].prereq, Catalog[row].excl} \ {Nothing} : Count(picks)[e] > 0}

CanChoose(row, picks) ==
    LET c == Catalog[row]
        matching == Count(picks)[Effect(row)]
        reps == Represented(row, picks)
        rank == c.max - matching + (IF Effect(row) \in reps THEN 1 ELSE 0)
    IN  /\ c.max > 0
        /\ matching < c.max
        /\ Enabled(row, rank, [e \in AllEffects |-> IF e \in reps THEN 1 ELSE 0], Granted)
-----------------------------------------------------------------------------
(* The page.                                                                *)

\* flow.Route: an old class that owes levels; the queue must be readable.
OpenPage(points) ==
    /\ ~page.open
    /\ screen.phase = "closed"
    /\ Free
    /\ actor.dormant
    /\ page' = [open |-> TRUE, points |-> points, picks |-> <<>>]
    /\ UNCHANGED <<actor, account, saved, screen, projection, call, attempted, next_session, loads>>

Pick(row) ==
    /\ page.open
    /\ page.points > 0
    /\ CanChoose(row, page.picks)
    /\ page' = [page EXCEPT !.points = @ - 1, !.picks = Append(@, row)]
    /\ UNCHANGED <<actor, account, saved, screen, projection, call, attempted, next_session, loads>>

\* The last pick of the row goes, if every pick after it can still be made.
LastPick(row, picks) ==
    {i \in DOMAIN picks : picks[i] = row /\ \A j \in DOMAIN picks : picks[j] = row => j <= i}
Unpick(row) ==
    /\ page.open
    /\ \E last \in LastPick(row, page.picks) :
         LET left == RemoveAt(page.picks, last)
         IN  /\ \A i \in DOMAIN left : CanChoose(left[i], SubSeq(left, 1, i - 1))
             /\ page' = [page EXCEPT !.points = @ + 1, !.picks = left]
    /\ UNCHANGED <<actor, account, saved, screen, projection, call, attempted, next_session, loads>>

ClosePage ==
    /\ page.open
    /\ page' = NoPage
    /\ UNCHANGED <<actor, account, saved, screen, projection, call, attempted, next_session, loads>>

CanContinue == page.points = 0 \/ \A row \in Rows : ~CanChoose(row, page.picks)
-----------------------------------------------------------------------------
(* Opening the level-up screen: CBMDS_Reset and flow.Begin.                 *)

NewScreen == [phase |-> "preview", session |-> next_session + 1, inc |-> actor.inc, owner |-> FALSE]
Chosen ==
    [i \in DOMAIN page.picks |-> [n |-> account.made + i, row |-> page.picks[i]]]
Journaled(retired) ==
    [account EXCEPT !.made = @ + Len(page.picks),
                    !.manual = [NoManual EXCEPT !.stage = "preview", !.session = next_session + 1,
                                 !.inc = actor.inc, !.retired = retired, !.choices = Chosen]]
\* Preview of the queue: what was deferred, then what this screen will add.
Preview(a) ==
    a.queue \o (IF a.manual.retired /\ ~a.manual.enqueued THEN a.manual.choices ELSE <<>>)

StartScreen ==
    /\ screen.phase = "closed"
    /\ next_session < MaxSession
    /\ next_session' = next_session + 1
    /\ page.open => CanContinue
    /\ page' = NoPage

BeginRefused ==
    /\ StartScreen
    /\ ~Free
    /\ Uncertain(account, NewScreen)
    /\ UNCHANGED <<actor, saved, call, attempted, loads>>

BeginFails ==
    /\ StartScreen
    /\ Free
    /\ Uncertain(Journaled(actor.dormant), [NewScreen EXCEPT !.owner = TRUE])
    /\ UNCHANGED <<actor, saved, call, attempted, loads>>

\* CBMDHLA_PrepareManual: the screen's predicate sees the whole preview.
Begin ==
    LET a == Journaled(actor.dormant)
    IN  /\ StartScreen
        /\ Free
        /\ account' = a
        /\ screen' = [NewScreen EXCEPT !.owner = TRUE]
        /\ projection' = [session |-> next_session + 1, inc |-> actor.inc,
                          rows |-> Effects(Preview(a))]
        /\ UNCHANGED <<actor, saved, call, attempted, loads>>

\* Another screen's reset while this one is open.
ResetWhileOpen ==
    /\ screen.phase # "closed"
    /\ call.at \in {"none", "native", "deliver"}
    /\ Uncertain(account, screen)
    /\ UNCHANGED <<actor, saved, page, call, attempted, next_session, loads>>

\* CBMDHLA_CheckAbilityEnabled of the owned screen; a context of another
\* session throws.
ScreenSees == Earned(Effects(actor.granted) \o projection.rows)
ContextHeld == projection.session = screen.session /\ projection.inc = screen.inc

Cancel(completes) ==
    /\ screen.phase = "preview"
    /\ Same
    /\ call = NoCall
    /\ IF completes /\ Manual("preview")
       THEN /\ account' = [account EXCEPT !.manual = NoManual]
            /\ screen' = NoScreen
            /\ projection' = NoProjection
       ELSE Uncertain(account, screen)
    /\ UNCHANGED <<actor, saved, page, call, attempted, next_session, loads>>
-----------------------------------------------------------------------------
(* Committing.  Prepare queues the choices before the game's commit runs.   *)

Prepared ==
    LET m == account.manual
        q == Preview(account)
    IN  [account EXCEPT !.queue = q,
           !.manual = [m EXCEPT !.stage = "committing", !.enqueued = m.retired,
                                !.old = "prepared", !.count = Len(q)]]

Committable == screen.phase = "preview" /\ Same /\ call = NoCall

CommitRefused ==
    /\ screen.phase # "closed"
    /\ call = NoCall
    /\ ~Committable
    /\ Uncertain(account, screen)
    /\ UNCHANGED <<actor, saved, page, call, attempted, next_session, loads>>

\* The journal or the queue fails, with or without its write.
PrepareFails ==
    /\ Committable
    /\ \/ Uncertain(account, screen)
       \/ Manual("preview") /\ Uncertain([account EXCEPT !.manual.stage = "committing"], screen)
    /\ UNCHANGED <<actor, saved, page, call, attempted, next_session, loads>>

StartCommit ==
    /\ Committable
    /\ Manual("preview")
    /\ account' = Prepared
    /\ screen' = [screen EXCEPT !.phase = "committing"]
    /\ call' = [NoCall EXCEPT !.at = "native"]
    /\ UNCHANGED <<actor, saved, page, projection, attempted, next_session, loads>>

\* The game's commit throws, or leaves the screen in a state that the adapter
\* refuses.
CommitThrows ==
    /\ call.at = "native"
    /\ call' = NoCall
    /\ Uncertain(account, screen)
    /\ UNCHANGED <<actor, saved, page, attempted, next_session, loads>>

\* The new level reactivates the old class or does not.
Reactivate ==
    /\ call.at = "native"
    /\ actor.dormant
    /\ actor' = [actor EXCEPT !.dormant = FALSE]
    /\ UNCHANGED <<account, saved, page, screen, projection, call, attempted, next_session, loads>>

\* Complete of the journal: the receipt is the character's for good.
Receipted(a) ==
    [a EXCEPT !.manual = NoManual, !.earned = @ \cup ToSet(a.manual.choices)]
Finish(a) ==
    \/ /\ account' = Receipted(a)
       /\ screen' = NoScreen
       /\ projection' = NoProjection
    \/ Uncertain(a, screen)

\* Commit of the queue.  Nothing to grant, or the class is still dormant.
CommitDeferred ==
    /\ call.at = "native"
    /\ Manual("committing")
    /\ account.manual.count = 0 \/ actor.dormant
    /\ Finish([account EXCEPT !.manual.old = IF account.manual.count = 0 THEN "complete" ELSE "deferred"])
    /\ call' = NoCall
    /\ UNCHANGED <<actor, saved, page, attempted, next_session, loads>>

CommitStale ==
    /\ call.at = "native"
    /\ ~Manual("committing")
    /\ Uncertain(account, screen)
    /\ call' = NoCall
    /\ UNCHANGED <<actor, saved, page, attempted, next_session, loads>>

\* The delivery's journal is written before anything is granted; the delivery
\* allocates every batch first and marks the session attempted.
Attempted == attempted.session = screen.session /\ attempted.inc = screen.inc
Delivering == [account EXCEPT !.delivery = [stage |-> "delivering", session |-> screen.session,
                                            count |-> account.manual.count, completed |-> 0]]
Deliver(allocates) ==
    /\ call.at = "native"
    /\ Manual("committing")
    /\ account.manual.count > 0
    /\ ~actor.dormant
    /\ account.delivery.stage = "none"
    /\ account' = Delivering
    /\ IF allocates /\ ~Attempted
       THEN /\ call' = [NoCall EXCEPT !.at = "deliver", !.rows = account.queue, !.n = account.xp]
            /\ attempted' = [session |-> screen.session, inc |-> screen.inc]
       ELSE /\ call' = [NoCall EXCEPT !.at = "returned", !.rows = account.queue, !.n = account.xp]
            /\ UNCHANGED attempted
    /\ UNCHANGED <<actor, saved, page, screen, projection, next_session, loads>>

Size == Smaller(Batch, Len(call.rows) - call.done)

\* The game completes one ability: its effect and its marker.
Fire ==
    /\ call.at = "deliver"
    /\ call.fired < Size
    /\ actor' = [actor EXCEPT !.granted = Append(@, call.rows[call.done + call.fired + 1])]
    /\ call' = [call EXCEPT !.fired = @ + 1]
    /\ UNCHANGED <<account, saved, page, screen, projection, attempted, next_session, loads>>

Scope == Same /\ screen.phase = "committing" /\ ~actor.dormant

BatchReturns ==
    /\ call.at = "deliver"
    /\ call.fired = Size
    /\ LET done == call.done + Size
           next == [call EXCEPT !.done = done, !.fired = 0]
       IN  call' = IF ~Scope THEN [next EXCEPT !.at = "returned", !.status = -1]
                   ELSE IF done = Len(call.rows) THEN [next EXCEPT !.at = "returned", !.status = 1]
                   ELSE next
    /\ UNCHANGED <<actor, account, saved, page, screen, projection, attempted, next_session, loads>>

\* Mutant: the batch that failed counts.
Failed_Counted == call.done + call.fired

\* An uncertain batch is never added.
Failed == call.done

BatchThrows ==
    /\ call.at = "deliver"
    /\ call' = [call EXCEPT !.at = "returned", !.status = -1, !.done = Failed, !.fired = 0]
    /\ UNCHANGED <<actor, account, saved, page, screen, projection, attempted, next_session, loads>>

Batches(n) == (n + Batch - 1) \div Batch

\* Mutant: the carrier is rewritten from the copy made before the delivery.
Current_Stale == [account EXCEPT !.xp = call.n]

\* The carrier is read again: an ability may have awarded experience.
Current == account

DeliveryReturned ==
    /\ call.at = "returned"
    /\ call' = NoCall
    /\ IF ~Manual("committing") THEN Uncertain(account, screen)
       ELSE IF call.status # 1
       THEN Uncertain([Current EXCEPT !.delivery.stage = "uncertain",
                                      !.delivery.completed = Batches(call.done),
                                      !.manual.old = "uncertain"], screen)
       ELSE Finish([Current EXCEPT !.queue = <<>>, !.delivery = NoDelivery, !.manual.old = "complete"])
    /\ UNCHANGED <<actor, saved, page, attempted, next_session, loads>>
-----------------------------------------------------------------------------
(* What the game does inside a commit, and saves and loads.                 *)

InGame == call.at \in {"native", "deliver"}

Award ==
    /\ InGame
    /\ actor.xp < MaxXp
    /\ actor' = [actor EXCEPT !.xp = @ + 1]
    /\ account' = [account EXCEPT !.xp = @ + 1]
    /\ UNCHANGED <<saved, page, screen, projection, call, attempted, next_session, loads>>

Drain ==
    /\ call.at = "deliver"
    /\ ~actor.dormant
    /\ actor' = [actor EXCEPT !.dormant = TRUE]
    /\ UNCHANGED <<account, saved, page, screen, projection, call, attempted, next_session, loads>>

Save ==
    /\ loads < MaxLoads
    /\ InGame \/ call = NoCall
    /\ saved' = [actor |-> actor, account |-> account]
    /\ UNCHANGED <<actor, account, page, screen, projection, call, attempted, next_session, loads>>

Reload(inc) ==
    /\ loads < MaxLoads
    /\ loads' = loads + 1
    /\ actor' = [saved.actor EXCEPT !.inc = inc]
    /\ account' = saved.account
    /\ page' = NoPage
    /\ UNCHANGED saved

Load ==
    /\ call = NoCall
    /\ Reload(actor.inc + 1)
    /\ UNCHANGED <<screen, projection, call, attempted, next_session>>

Restart ==
    /\ Reload(1)
    /\ screen' = NoScreen
    /\ projection' = NoProjection
    /\ call' = NoCall
    /\ attempted' = [session |-> 0, inc |-> 0]
    /\ next_session' = 0

Next ==
    \/ \E points \in 0..Smaller(MaxPoints, MaxTickets - account.made) : OpenPage(points)
    \/ \E row \in Rows : Pick(row) \/ Unpick(row)
    \/ ClosePage \/ BeginRefused \/ BeginFails \/ Begin \/ ResetWhileOpen
    \/ \E completes \in BOOLEAN : Cancel(completes)
    \/ CommitRefused \/ PrepareFails \/ StartCommit \/ CommitThrows \/ Reactivate
    \/ CommitDeferred \/ CommitStale
    \/ \E allocates \in BOOLEAN : Deliver(allocates)
    \/ Fire \/ BatchReturns \/ BatchThrows \/ DeliveryReturned
    \/ Award \/ Drain \/ Save \/ Load \/ Restart

Spec == Init /\ [][Next]_vars
-----------------------------------------------------------------------------
\* No ability is granted twice and none that a finished screen earned is lost,
\* whatever fails, is saved in the middle or is loaded; when nothing is open
\* each one was granted or waits, not both; and an interrupted delivery leaves
\* at most one batch in doubt: the batches its journal counts were granted and
\* nothing after the next one was (Prepare, Commit, CBMDHLA_Deliver).
OnceEach(tickets) == \A i, j \in DOMAIN tickets : tickets[i] = tickets[j] => i = j
GrantedOrQueued == ToSet(actor.granted) \cup ToSet(account.queue)
Known == Smaller(account.delivery.completed * Batch, account.delivery.count)
Doubtful == Smaller(Known + Batch, account.delivery.count)
AbilitiesAccounted ==
    /\ OnceEach(actor.granted) /\ OnceEach(account.queue)
    /\ account.earned \subseteq GrantedOrQueued
    /\ Free => /\ account.earned = GrantedOrQueued
               /\ ToSet(actor.granted) \cap ToSet(account.queue) = {}
    /\ account.delivery.stage = "uncertain" =>
         /\ ToSet(SubSeq(account.queue, 1, Known)) \subseteq ToSet(actor.granted)
         /\ ToSet(SubSeq(account.queue, Doubtful + 1, Len(account.queue))) \cap ToSet(actor.granted) = {}

\* Experience that an ability awards while it is delivered stays in the
\* account (Commit of dual_old_hla_receipts.lua re-reads the carrier).
RewardXpKept == account.xp = actor.xp

\* The page and the screen apply the game's rules to everything the character
\* has, waits for or chose: the reduced question has the full question's
\* answer, every pick was allowed when its predecessors are counted, and an
\* open screen counts what its commit will queue (CBMDHLA_CanChoose,
\* CBMDHLA_PrepareManual, CanAdjust of the picker).
Allowed(row, picks) == Enabled(row, Catalog[row].max, Count(picks), Granted)
SelectionIsLegal ==
    /\ page.open =>
         /\ \A row \in Rows : CanChoose(row, page.picks) <=> Allowed(row, page.picks)
         /\ \A i \in DOMAIN page.picks : Allowed(page.picks[i], SubSeq(page.picks, 1, i - 1))
    /\ screen.phase = "preview" /\ Same /\ Manual("preview") =>
         ContextHeld /\ ScreenSees = Earned(Effects(actor.granted \o Prepared.queue))
=============================================================================
