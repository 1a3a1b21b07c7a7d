--------------------------- MODULE DualTransaction ---------------------------
(***************************************************************************)
(* The transaction coordinator of a manual old-class level                 *)
(* (research/xp-banking-native/dual_transaction.cpp).  A context walks     *)
(* IDLE -> CHOOSING -> COMMIT_UNKNOWN -> COMMITTED by calling an engine    *)
(* adapter, and the adapter may call the library back from inside any of   *)
(* its callbacks.  A callback is therefore a point where control leaves    *)
(* the library: an entry point is one action up to its first callback and  *)
(* one action for each callback that returns.  A call the library refuses  *)
(* changes nothing and is a stutter.                                       *)
(*                                                                         *)
(* The adapter is not in the repository.  It is modelled by the contract   *)
(* dual_transaction.h states for it: a callback may fail or throw, commit  *)
(* is one atomic compare-and-swap against the captured snapshot, APPLIED   *)
(* and UNCHANGED are true statements, and UNKNOWN says nothing.            *)
(***************************************************************************)
EXTENDS Naturals

CONSTANTS
    Contexts,    \* CBMD_Context objects
    Threads,     \* callers of CBMD_Create
    NoContext,   \* the null CBMD_Context*
    NoThread,    \* engine_thread_key before the first CBMD_Create
    SeqMax,      \* UINT64_MAX of the transaction sequence
    MaxRevision, \* bound on the revisions the committed world reaches
    MaxChoice    \* bound on the choice revisions of a detached preview

ASSUME ConstantAssumption ==
    /\ NoContext \notin Contexts
    /\ NoThread \notin Threads
    /\ SeqMax \in Nat \ {0}
    /\ MaxRevision \in Nat
    /\ MaxChoice \in Nat

VARIABLES
    engine_thread_key,  \* the thread the library is pinned to
    creating,           \* threads between the load and the CAS of CBMD_Create
    owner_thread,       \* context -> owner thread, NoThread when not allocated
    pc,                 \* context -> the callback its entry point waits for
    running,            \* the context on top of the call stack
    caller,             \* context -> the context below it on the call stack
    phase,              \* CBMD_Context.phase
    request,            \* CBMD_Context.request: the ledger revision it names
    before,             \* CBMD_Context.before: the captured snapshot
    handle,             \* CBMD_Context.handle, 0 for none
    transaction,        \* CBMD_Context.transaction
    reviewed_choice,    \* CBMD_Context.reviewed_choice
    preview_fault,      \* CBMD_Context.preview_fault
    screen_owner,       \* the process-wide owner of the manual screen
    sequence,           \* the process-wide transaction sequence
    world,              \* adapter: committed ledger and actor revisions
    detached,           \* adapter: handle -> its detached preview object
    shown,              \* history: the choice revision the player last saw
    applied             \* history: the transactions commit made durable

threadVars == <<engine_thread_key, creating, owner_thread>>
planVars == <<request, before, transaction>>
choiceVars == <<reviewed_choice, preview_fault, shown>>
screenVars == <<screen_owner, sequence>>
vars == <<threadVars, pc, running, caller, phase, planVars, handle, choiceVars,
          screenVars, world, detached, applied>>
-----------------------------------------------------------------------------
Phases == {"IDLE", "CHOOSING", "COMMIT_UNKNOWN", "COMMITTED"}

Callbacks == {"begin_capture", "begin_prepare", "begin_inspect", "choose",
              "choose_inspect", "preview_inspect", "commit_inspect",
              "commit_capture", "commit", "resolve", "abandon", "finish"}

Snapshots == [ledger : Nat, actor : Nat]

\* A detached object: its choice revision, whether choices are pending, and
\* how often discard was called for it.
Objects == [choice : Nat, pending : BOOLEAN, discards : Nat]
NoObject == [choice |-> 0, pending |-> FALSE, discards |-> 0]

Commits == [id : Nat, ledger : Nat, choice : Nat, shown : Nat, pending : BOOLEAN]
AppliedIds == {x.id : x \in applied}

Live(c) == owner_thread[c] # NoThread
Entered(c) == pc[c] # "none"

Init ==
    /\ engine_thread_key = NoThread
    /\ creating = {}
    /\ owner_thread = [c \in Contexts |-> NoThread]
    /\ pc = [c \in Contexts |-> "none"]
    /\ running = NoContext
    /\ caller = [c \in Contexts |-> NoContext]
    /\ phase = [c \in Contexts |-> "IDLE"]
    /\ request = [c \in Contexts |-> 0]
    /\ before = [c \in Contexts |-> [ledger |-> 0, actor |-> 0]]
    /\ handle = [c \in Contexts |-> 0]
    /\ transaction = [c \in Contexts |-> 0]
    /\ reviewed_choice = [c \in Contexts |-> 0]
    /\ preview_fault = [c \in Contexts |-> FALSE]
    /\ screen_owner = NoContext
    /\ sequence = 1
    /\ world = [ledger |-> 0, actor |-> 0]
    /\ detached = [h \in 1..SeqMax |-> NoObject]
    /\ shown = [c \in Contexts |-> 0]
    /\ applied = {}
-----------------------------------------------------------------------------
(* Guard: an entry point claims the context, runs on top of whatever        *)
(* callback called it, and gives both back when it returns.                 *)

Enter(c, callback) ==
    /\ Live(c)
    /\ ~Entered(c)
    /\ pc' = [pc EXCEPT ![c] = callback]
    /\ caller' = [caller EXCEPT ![c] = running]
    /\ running' = c

At(c, callback) == running = c /\ pc[c] = callback

CallNext(c, callback) ==
    /\ pc' = [pc EXCEPT ![c] = callback]
    /\ UNCHANGED <<running, caller>>

Return(c) ==
    /\ pc' = [pc EXCEPT ![c] = "none"]
    /\ running' = caller[c]
    /\ caller' = [caller EXCEPT ![c] = NoContext]

\* Mutant: a finished attempt keeps the screen.
Relinquish_Never(c) == screen_owner' = screen_owner

\* relinquish: compare-exchange, so only the owner clears the screen.
Relinquish(c) ==
    screen_owner' = IF screen_owner = c THEN NoContext ELSE screen_owner

\* The end of abandon(), after its discard callback (if any) has returned.
AbandonState(c) ==
    /\ phase' = [phase EXCEPT ![c] = "IDLE"]
    /\ preview_fault' = [preview_fault EXCEPT ![c] = FALSE]
    /\ reviewed_choice' = [reviewed_choice EXCEPT ![c] = 0]
    /\ Relinquish(c)
-----------------------------------------------------------------------------
\* CBMD_Create up to the allocation: a thread other than the pinned one is
\* refused here.
CreateLoad(t) ==
    /\ t \notin creating
    /\ engine_thread_key \in {NoThread, t}
    /\ creating' = creating \cup {t}
    /\ UNCHANGED <<engine_thread_key, owner_thread, pc, running, caller, phase,
                   planVars, handle, choiceVars, screenVars, world, detached,
                   applied>>

\* Mutant: a plain store where the code compares and exchanges.
WinsBind_Always(t) == t \in Threads

\* Whether the compare-exchange on engine_thread_key succeeds for t.
WinsBind(t) == engine_thread_key \in {NoThread, t}

\* The compare-exchange of CBMD_Create; the thread that loses it deletes the
\* context it allocated.
CreateBind(t, c) ==
    /\ t \in creating
    /\ ~Live(c)
    /\ creating' = creating \ {t}
    /\ \/ /\ WinsBind(t)
          /\ engine_thread_key' = t
          /\ owner_thread' = [owner_thread EXCEPT ![c] = t]
       \/ /\ ~WinsBind(t)
          /\ UNCHANGED <<engine_thread_key, owner_thread>>
    /\ UNCHANGED <<pc, running, caller, phase, planVars, handle, choiceVars,
                   screenVars, world, detached, applied>>

\* CBMD_Destroy; the fields of the freed context return to their initial values.
Destroy(c) ==
    /\ Live(c)
    /\ ~Entered(c)
    /\ phase[c] \in {"IDLE", "COMMITTED"}
    /\ owner_thread' = [owner_thread EXCEPT ![c] = NoThread]
    /\ phase' = [phase EXCEPT ![c] = "IDLE"]
    /\ request' = [request EXCEPT ![c] = 0]
    /\ before' = [before EXCEPT ![c] = [ledger |-> 0, actor |-> 0]]
    /\ handle' = [handle EXCEPT ![c] = 0]
    /\ transaction' = [transaction EXCEPT ![c] = 0]
    /\ reviewed_choice' = [reviewed_choice EXCEPT ![c] = 0]
    /\ preview_fault' = [preview_fault EXCEPT ![c] = FALSE]
    /\ shown' = [shown EXCEPT ![c] = 0]
    /\ UNCHANGED <<engine_thread_key, creating, pc, running, caller, screenVars,
                   world, detached, applied>>
-----------------------------------------------------------------------------
\* The identity space is exhausted: fetch_add returned 0 or UINT64_MAX.
Exhausted(t) == t = 0 \/ t = SeqMax

\* Mutant: the sequence is not saturated.
NextSequence_Wraps == sequence' = sequence + 1

NextSequence ==
    sequence' = IF Exhausted(sequence) THEN SeqMax ELSE sequence + 1

\* Mutant: the screen is taken without looking at its owner.
ScreenFree_Always == TRUE

ScreenFree == screen_owner = NoContext

\* CBMD_Begin up to its first callback.  An exhausted sequence abandons at
\* once: there is no handle yet, so abandon calls nothing.
Begin(c, ledger) ==
    /\ Live(c) /\ ~Entered(c)
    /\ phase[c] = "IDLE"
    /\ ScreenFree
    /\ request' = [request EXCEPT ![c] = ledger]
    /\ before' = [before EXCEPT ![c] = [ledger |-> 0, actor |-> 0]]
    /\ transaction' = [transaction EXCEPT ![c] = sequence]
    /\ reviewed_choice' = [reviewed_choice EXCEPT ![c] = 0]
    /\ preview_fault' = [preview_fault EXCEPT ![c] = FALSE]
    /\ shown' = [shown EXCEPT ![c] = 0]
    /\ NextSequence
    /\ \/ /\ ~Exhausted(sequence)
          /\ screen_owner' = c
          /\ Enter(c, "begin_capture")
       \/ /\ Exhausted(sequence)
          /\ UNCHANGED <<screen_owner, pc, running, caller>>
    /\ UNCHANGED <<threadVars, phase, handle, world, detached, applied>>

Requested(c) == world.ledger = request[c]

\* capture returned to CBMD_Begin: the snapshot is kept only when it is the
\* one the request names.
BeginCaptured(c) ==
    /\ At(c, "begin_capture")
    /\ \/ /\ Requested(c)
          /\ before' = [before EXCEPT ![c] = world]
          /\ CallNext(c, "begin_prepare")
          /\ UNCHANGED <<phase, reviewed_choice, preview_fault, screen_owner>>
       \/ /\ AbandonState(c)
          /\ Return(c)
          /\ UNCHANGED before
    /\ UNCHANGED <<threadVars, request, transaction, handle, shown, sequence,
                   world, detached, applied>>

\* prepare made a detached object and gave Begin its handle.
Prepared(c, pending) ==
    detached' = [detached EXCEPT ![transaction[c]] =
                     [choice |-> 1, pending |-> pending, discards |-> 0]]

\* prepare returned to CBMD_Begin: a valid plan opens the choice screen; a
\* failure or a refused plan is abandoned, and so is the handle when there is one.
BeginPrepared(c) ==
    /\ At(c, "begin_prepare")
    /\ \/ /\ \E pending \in BOOLEAN : Prepared(c, pending)
          /\ handle' = [handle EXCEPT ![c] = transaction[c]]
          /\ phase' = [phase EXCEPT ![c] = "CHOOSING"]
          /\ CallNext(c, "begin_inspect")
          /\ UNCHANGED <<reviewed_choice, preview_fault, screen_owner>>
       \/ /\ \E pending \in BOOLEAN : Prepared(c, pending)
          /\ CallNext(c, "abandon")
          /\ UNCHANGED <<handle, phase, reviewed_choice, preview_fault, screen_owner>>
       \/ /\ AbandonState(c)
          /\ Return(c)
          /\ UNCHANGED <<handle, detached>>
    /\ UNCHANGED <<threadVars, planVars, shown, sequence, world, applied>>

\* Mutant: discard leaves the handle in the context.
ForgetHandle_Not(c) == handle' = handle

\* discard clears the handle before it calls the adapter.
ForgetHandle(c) == handle' = [handle EXCEPT ![c] = 0]

\* inspect returned to CBMD_Begin: an invalid preview is abandoned.
BeginInspected(c) ==
    /\ At(c, "begin_inspect")
    /\ \/ Return(c) /\ UNCHANGED handle
       \/ ForgetHandle(c) /\ CallNext(c, "abandon")
    /\ UNCHANGED <<threadVars, phase, planVars, choiceVars, screenVars, world,
                   detached, applied>>

Discarded(c) ==
    detached' = [detached EXCEPT ![transaction[c]] =
                     [choice |-> @.choice, pending |-> @.pending,
                      discards |-> @.discards + 1]]

\* discard returned (or threw) inside abandon.
Abandoned(c) ==
    /\ At(c, "abandon")
    /\ Discarded(c)
    /\ AbandonState(c)
    /\ Return(c)
    /\ UNCHANGED <<threadVars, planVars, handle, shown, sequence, world, applied>>
-----------------------------------------------------------------------------
\* CBMD_Choose: what was reviewed is no longer what would be committed.
Choose(c) ==
    /\ phase[c] = "CHOOSING"
    /\ ~preview_fault[c]
    /\ Enter(c, "choose")
    /\ reviewed_choice' = [reviewed_choice EXCEPT ![c] = 0]
    /\ UNCHANGED <<threadVars, phase, planVars, handle, preview_fault, shown,
                   screenVars, world, detached, applied>>

\* choose edited the detached object; a failed choose may have edited a part.
Edit(c, pending) ==
    /\ detached[handle[c]].choice < MaxChoice
    /\ detached' = [detached EXCEPT ![handle[c]] =
                        [choice |-> @.choice + 1, pending |-> pending,
                         discards |-> @.discards]]

ChooseReturned(c) ==
    /\ At(c, "choose")
    /\ \/ /\ \E pending \in BOOLEAN : Edit(c, pending)
          /\ CallNext(c, "choose_inspect")
          /\ UNCHANGED preview_fault
       \/ /\ (\E pending \in BOOLEAN : Edit(c, pending)) \/ UNCHANGED detached
          /\ preview_fault' = [preview_fault EXCEPT ![c] = TRUE]
          /\ Return(c)
    /\ UNCHANGED <<threadVars, phase, planVars, handle, reviewed_choice, shown,
                   screenVars, world, applied>>

ChooseInspected(c) ==
    /\ At(c, "choose_inspect")
    /\ \/ UNCHANGED preview_fault
       \/ preview_fault' = [preview_fault EXCEPT ![c] = TRUE]
    /\ Return(c)
    /\ UNCHANGED <<threadVars, phase, planVars, handle, reviewed_choice, shown,
                   screenVars, world, detached, applied>>

\* CBMD_GetPreview; a faulted preview is refused before its callback.
GetPreview(c) ==
    /\ phase[c] = "CHOOSING"
    /\ ~preview_fault[c]
    /\ Enter(c, "preview_inspect")
    /\ UNCHANGED <<threadVars, phase, planVars, handle, choiceVars, screenVars,
                   world, detached, applied>>

PreviewInspected(c) ==
    /\ At(c, "preview_inspect")
    /\ \/ /\ reviewed_choice' = [reviewed_choice EXCEPT ![c] = detached[handle[c]].choice]
          /\ shown' = [shown EXCEPT ![c] = detached[handle[c]].choice]
       \/ UNCHANGED <<reviewed_choice, shown>>
    /\ Return(c)
    /\ UNCHANGED <<threadVars, phase, planVars, handle, preview_fault, screenVars,
                   world, detached, applied>>
-----------------------------------------------------------------------------
\* CBMD_Commit up to its inspect callback.
Commit(c) ==
    /\ phase[c] = "CHOOSING"
    /\ ~preview_fault[c]
    /\ Enter(c, "commit_inspect")
    /\ UNCHANGED <<threadVars, phase, planVars, handle, choiceVars, screenVars,
                   world, detached, applied>>

\* Mutant: the named revision is compared with the current preview only.
Committable_NotReviewed(c) == ~detached[handle[c]].pending

\* The preview the caller may commit: nothing pending, and the revision it
\* names is both the reviewed one and the current one.
Committable(c) ==
    /\ ~detached[handle[c]].pending
    /\ reviewed_choice[c] # 0
    /\ reviewed_choice[c] = detached[handle[c]].choice

CommitInspected(c) ==
    /\ At(c, "commit_inspect")
    /\ \/ Committable(c) /\ CallNext(c, "commit_capture")
       \/ Return(c)
    /\ UNCHANGED <<threadVars, phase, planVars, handle, choiceVars, screenVars,
                   world, detached, applied>>

\* The phase is COMMIT_UNKNOWN before commit is entered.
CommitCaptured(c) ==
    /\ At(c, "commit_capture")
    /\ \/ /\ world = before[c]
          /\ phase' = [phase EXCEPT ![c] = "COMMIT_UNKNOWN"]
          /\ CallNext(c, "commit")
       \/ Return(c) /\ UNCHANGED phase
    /\ UNCHANGED <<threadVars, planVars, handle, choiceVars, screenVars, world,
                   detached, applied>>

\* The adapter's compare-and-swap, which the library cannot see.
AdapterCommit(c) ==
    /\ world = before[c]
    /\ world.ledger < MaxRevision
    /\ world' = [ledger |-> world.ledger + 1, actor |-> world.actor + 1]
    /\ applied' = applied \cup
          {[id |-> transaction[c], ledger |-> request[c],
            choice |-> detached[handle[c]].choice, shown |-> shown[c],
            pending |-> detached[handle[c]].pending]}

\* finish_commit up to its discard callback.
StartFinish(c) ==
    /\ phase' = [phase EXCEPT ![c] = "COMMITTED"]
    /\ ForgetHandle(c)
    /\ CallNext(c, "finish")

\* Mutant: an unknown outcome is taken for an applied one.
Unresolved_Assumed(c) == StartFinish(c)

\* No authoritative answer: the context stays COMMIT_UNKNOWN.
Unresolved(c) ==
    /\ Return(c)
    /\ UNCHANGED <<phase, handle>>

\* commit returned: APPLIED with a valid receipt, UNCHANGED, or anything else
\* (UNKNOWN, an exception, a receipt that does not match), applied or not.
CommitReturned(c) ==
    /\ At(c, "commit")
    /\ \/ AdapterCommit(c) /\ StartFinish(c)
       \/ AdapterCommit(c) /\ Unresolved(c)
       \/ /\ phase' = [phase EXCEPT ![c] = "CHOOSING"]
          /\ Return(c)
          /\ UNCHANGED <<world, applied, handle>>
       \/ Unresolved(c) /\ UNCHANGED <<world, applied>>
    /\ UNCHANGED <<threadVars, planVars, choiceVars, screenVars, detached>>

\* discard returned (or threw) inside finish_commit.
Finished(c) ==
    /\ At(c, "finish")
    /\ Discarded(c)
    /\ Relinquish(c)
    /\ Return(c)
    /\ UNCHANGED <<threadVars, phase, planVars, handle, choiceVars, sequence,
                   world, applied>>
-----------------------------------------------------------------------------
\* CBMD_Cancel: only an open choice can be cancelled.
Cancel(c) ==
    /\ phase[c] = "CHOOSING"
    /\ ForgetHandle(c)
    /\ Enter(c, "abandon")
    /\ UNCHANGED <<threadVars, phase, planVars, choiceVars, screenVars, world,
                   detached, applied>>

\* CBMD_Resolve asks the adapter what became of an unknown commit.
Resolve(c) ==
    /\ phase[c] = "COMMIT_UNKNOWN"
    /\ Enter(c, "resolve")
    /\ UNCHANGED <<threadVars, phase, planVars, handle, choiceVars, screenVars,
                   world, detached, applied>>

ResolveReturned(c) ==
    /\ At(c, "resolve")
    /\ \/ transaction[c] \in AppliedIds /\ StartFinish(c)
       \/ /\ transaction[c] \notin AppliedIds
          /\ ForgetHandle(c)
          /\ CallNext(c, "abandon")
          /\ UNCHANGED phase
       \/ Unresolved(c)
    /\ UNCHANGED <<threadVars, planVars, choiceVars, screenVars, world, detached,
                   applied>>

\* CBMD_Reset; the transaction identity is the one field it keeps.
Reset(c) ==
    /\ Live(c) /\ ~Entered(c)
    /\ phase[c] \in {"IDLE", "COMMITTED"}
    /\ phase' = [phase EXCEPT ![c] = "IDLE"]
    /\ request' = [request EXCEPT ![c] = 0]
    /\ before' = [before EXCEPT ![c] = [ledger |-> 0, actor |-> 0]]
    /\ reviewed_choice' = [reviewed_choice EXCEPT ![c] = 0]
    /\ UNCHANGED <<threadVars, pc, running, caller, transaction, handle,
                   preview_fault, shown, screenVars, world, detached, applied>>

\* Between two calls the game changes the actor or releases banked experience.
WorldChange ==
    /\ running = NoContext
    /\ \/ /\ world.ledger < MaxRevision
          /\ world' = [ledger |-> world.ledger + 1, actor |-> world.actor]
       \/ /\ world.actor < MaxRevision
          /\ world' = [ledger |-> world.ledger, actor |-> world.actor + 1]
    /\ UNCHANGED <<threadVars, pc, running, caller, phase, planVars, handle,
                   choiceVars, screenVars, detached, applied>>
-----------------------------------------------------------------------------
Call(c) ==
    \/ \E ledger \in 0..MaxRevision : Begin(c, ledger)
    \/ Choose(c) \/ GetPreview(c) \/ Commit(c) \/ Cancel(c) \/ Resolve(c)
    \/ Reset(c) \/ Destroy(c)

CallbackReturn(c) ==
    \/ BeginCaptured(c) \/ BeginPrepared(c) \/ BeginInspected(c)
    \/ ChooseReturned(c) \/ ChooseInspected(c) \/ PreviewInspected(c)
    \/ CommitInspected(c) \/ CommitCaptured(c) \/ CommitReturned(c)
    \/ ResolveReturned(c) \/ Abandoned(c) \/ Finished(c)

Next ==
    \/ \E t \in Threads : CreateLoad(t) \/ \E c \in Contexts : CreateBind(t, c)
    \/ \E c \in Contexts : Call(c) \/ CallbackReturn(c)
    \/ WorldChange

Spec == Init /\ [][Next]_vars
-----------------------------------------------------------------------------
ControlType ==
    /\ engine_thread_key \in Threads \cup {NoThread}
    /\ creating \subseteq Threads
    /\ owner_thread \in [Contexts -> Threads \cup {NoThread}]
    /\ pc \in [Contexts -> Callbacks \cup {"none"}]
    /\ running \in Contexts \cup {NoContext}
    /\ caller \in [Contexts -> Contexts \cup {NoContext}]
    /\ phase \in [Contexts -> Phases]
    /\ screen_owner \in Contexts \cup {NoContext}

AttemptType ==
    /\ request \in [Contexts -> Nat]
    /\ before \in [Contexts -> Snapshots]
    /\ handle \in [Contexts -> 0..SeqMax]
    /\ transaction \in [Contexts -> 0..SeqMax]
    /\ reviewed_choice \in [Contexts -> Nat]
    /\ preview_fault \in [Contexts -> BOOLEAN]
    /\ sequence \in 1..SeqMax
    /\ shown \in [Contexts -> Nat]

AdapterType ==
    /\ world \in Snapshots
    /\ detached \in [1..SeqMax -> Objects]
    /\ applied \subseteq Commits

TypeOK == ControlType /\ AttemptType /\ AdapterType

Beginning(c) == pc[c] \in {"begin_capture", "begin_prepare"}
Ending(c) == pc[c] \in {"abandon", "finish"}
Open(c) == phase[c] \in {"CHOOSING", "COMMIT_UNKNOWN"}

\* The manual screen belongs to exactly the context whose attempt is open, also
\* while callbacks re-enter the library: no second attempt can start beside it,
\* and the screen is never left with an owner that has nothing open (no later
\* CBMD_Begin could then succeed).
ScreenOwnership ==
    \A c \in Contexts :
        screen_owner = c <=> Live(c) /\ (Open(c) \/ Beginning(c) \/ Ending(c))

\* Cancel, abandon and UNCHANGED tell the truth: an attempt that is still being
\* chosen, or is being given up, has not been applied, whatever commit threw.
NothingAppliedIsDropped ==
    \A c \in Contexts :
        Live(c) /\ (phase[c] = "CHOOSING" \/ pc[c] = "abandon")
            => transaction[c] \notin AppliedIds

\* A COMMITTED context holds the receipt of a level the adapter made durable.
CommittedIsApplied ==
    \A c \in Contexts : phase[c] = "COMMITTED" => transaction[c] \in AppliedIds

\* The two together: a context never says of an attempt what the engine did
\* not do (CBMD_Commit, CBMD_Resolve, CBMD_Cancel, CBMD_Destroy).
OutcomeRecorded == NothingAppliedIsDropped /\ CommittedIsApplied

\* A manual request (the ledger revision it names) levels the class at most
\* once, however often it is begun, committed again or resolved.
AppliedOnce ==
    \A x, y \in applied : x.ledger = y.ledger \/ x.id = y.id => x = y

\* What is applied is what the player last saw, with no choice left open.
CommitIsReviewed ==
    \A x \in applied : x.choice = x.shown /\ x.choice # 0 /\ ~x.pending

\* A detached object is discarded once, is never used afterwards, and is not
\* leaked: while it exists its attempt owns the screen.
DetachedObjects ==
    /\ \A h \in 1..SeqMax : detached[h].discards \in {0, 1}
    /\ \A c \in Contexts : handle[c] # 0 =>
          /\ handle[c] = transaction[c]
          /\ detached[handle[c]].choice # 0
          /\ detached[handle[c]].discards = 0
    /\ \A h \in 1..SeqMax : detached[h].choice # 0 /\ detached[h].discards = 0 =>
          \E c \in Contexts : screen_owner = c /\ transaction[c] = h

\* Two threads racing through CBMD_Create cannot both pin the library: every
\* context belongs to the one engine thread.
OneEngineThread ==
    \A c \in Contexts : Live(c) => owner_thread[c] = engine_thread_key

\* The library implements the promise of ManualLevel.
Status(t) ==
    IF t \in AppliedIds THEN "applied"
    ELSE IF t >= sequence THEN "fresh"
    ELSE IF screen_owner # NoContext /\ transaction[screen_owner] = t THEN "open"
    ELSE "dropped"

Promise == INSTANCE ManualLevel
    WITH Attempts <- 1..(SeqMax - 1), status <- [t \in 1..(SeqMax - 1) |-> Status(t)]

\* Every step of the library is a step of ManualLevel or none of its business.
KeepsPromise == Promise!Spec
=============================================================================
