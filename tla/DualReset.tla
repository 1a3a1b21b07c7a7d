------------------------------- MODULE DualReset -------------------------------
(***************************************************************************)
(* Dual-classing under the bank (research/xp-banking-native/                *)
(* reset_native.cpp, with CaptureDualPreview, PrepareDual, CompleteDual and *)
(* UncertainDual of bank_runtime.lua).  The game's reset clears the        *)
(* character's experience; the carrier must end up holding it for the old  *)
(* class, or say that nobody knows.  The record screen resets in one call, *)
(* the creation screen in two, RemoveAbilities and MakeDualClass.          *)
(*                                                                         *)
(* The wrappers run on the engine thread, and the game's code inside them  *)
(* can call them again: `stack` holds the calls that have not returned.    *)
(***************************************************************************)
EXTENDS Integers, Sequences

CONSTANTS
    Screens,  \* screen objects
    Classes,  \* classes a character can change to
    MaxXp,    \* bound on experience
    MaxLevel, \* bound on levels
    MaxInc,   \* bound on the incarnations of one process
    MaxCalls, \* bound on nested calls
    MaxLoads  \* bound on loads and restarts

ASSUME BoundAssumption == MaxXp \in Nat

VARIABLES
    actor,   \* incarnation, class kind, level, experience; `was` is history
    carrier, \* the saved account: kind, old class, preview, dual journal
    saved,   \* both as the last save holds them
    record,  \* CBMR_View of the sprite's address, or NoRecord
    stack,   \* calls of the game's code under way, innermost last
    loads    \* history: loads and restarts so far

vars == <<actor, carrier, saved, record, stack, loads>>

NoOld == [xp |-> 0, level |-> 0, class |-> 0]
NoPreview == [held |-> FALSE, inc |-> 0, revision |-> 0, xp |-> 0, level |-> 0]
NoJournal == [stage |-> "none", xp |-> 0, level |-> 0, class |-> 0]
NoRecord == [stage |-> "none", inc |-> 0, xp |-> 0, class |-> 0, path |-> "none",
             screen |-> 0, removed |-> FALSE]

Init ==
    /\ \E xp \in 1..MaxXp :
         actor = [inc |-> 1, kind |-> "single", level |-> 1, xp |-> xp, stripped |-> FALSE, was |-> NoOld]
    /\ carrier = [kind |-> "single", revision |-> 0, old |-> NoOld, preview |-> NoPreview,
                  journal |-> NoJournal]
    /\ saved = [actor |-> actor, carrier |-> carrier]
    /\ record = NoRecord
    /\ stack = <<>>
    /\ loads = 0

\* The address may have been another character's.
Mine == record.stage # "none" /\ record.inc = actor.inc

Uncertain(c) ==
    IF c.journal.stage = "none" THEN {c} ELSE {c, [c EXCEPT !.journal.stage = "uncertain"]}
-----------------------------------------------------------------------------
(* The preview: CBMR_StartEditing and CaptureDualPreview.  The game's own   *)
(* screen runs after the capture and can change the character; the earliest *)
(* evidence of a level is kept, with the experience of the latest.         *)

StartEditing ==
    /\ ~Mine
    /\ carrier.journal.stage = "none"
    /\ actor.kind = "single"
    /\ carrier' = [carrier EXCEPT !.preview =
                     [held |-> TRUE, inc |-> actor.inc, revision |-> carrier.revision,
                      xp |-> actor.xp, level |-> actor.level]]
    /\ UNCHANGED <<actor, saved, record, stack, loads>>
-----------------------------------------------------------------------------
(* Preparing.  PrepareDual refuses without a fresh preview or over an        *)
(* unresolved journal, and writes the whole journal before the reset.       *)

Clean ==
    LET p == carrier.preview
    IN  /\ p.held
        /\ p.inc = actor.inc
        /\ p.revision = carrier.revision
        /\ p.level = actor.level
        /\ p.xp = actor.xp
Preparable == carrier.journal.stage = "none" /\ actor.kind = "single" /\ Clean
Prepared(class) ==
    [carrier EXCEPT !.journal = [stage |-> "prepared", xp |-> actor.xp, level |-> actor.level,
                                 class |-> class]]
NewRecord(path, screen, class) ==
    [stage |-> "native", inc |-> actor.inc, xp |-> actor.xp, class |-> class, path |-> path,
     screen |-> screen, removed |-> FALSE]

\* A record of this lifetime stops every entry; one of another is dropped.
Enter(path, screen, class) ==
    /\ Len(stack) < MaxCalls
    /\ ~Mine
    /\ IF Preparable
       THEN /\ carrier' = Prepared(class)
            /\ record' = NewRecord(path, screen, class)
            /\ stack' = Append(stack, path)
            /\ actor' = IF path = "make"
                        THEN [actor EXCEPT !.was = [xp |-> actor.xp, level |-> actor.level, class |-> class]]
                        ELSE actor
       ELSE /\ record' = NoRecord
            /\ UNCHANGED <<actor, carrier, stack>>
    /\ UNCHANGED <<saved, loads>>

MakeDualClass(screen, class) == Enter("make", screen, class)

\* A sprite that is being serialized or copied.
MakeIneligible ==
    /\ carrier' \in Uncertain(carrier)
    /\ UNCHANGED <<actor, saved, record, stack, loads>>

RemoveAbilities(screen, class) == Enter("create", screen, class)

\* The creation screen's second call.
Removed(screen, class) ==
    /\ Mine
    /\ record.path = "create"
    /\ record.screen = screen
    /\ record.class = class
    /\ record.stage = "native"
    /\ record.removed

\* Mutant: the experience may have changed since the journal was written.
Unmoved_Assumed == TRUE

Unmoved == actor.xp = record.xp

CreateMakeDualClass(screen, class) ==
    /\ Len(stack) < MaxCalls
    /\ Removed(screen, class)
    /\ IF Unmoved
       THEN /\ record' = [record EXCEPT !.removed = FALSE]
            /\ stack' = Append(stack, "make")
            /\ actor' = [actor EXCEPT !.was = [xp |-> actor.xp, level |-> actor.level, class |-> class]]
            /\ UNCHANGED carrier
       ELSE /\ record' = [record EXCEPT !.stage = "uncertain"]
            /\ carrier' \in Uncertain(carrier)
            /\ UNCHANGED <<actor, stack>>
    /\ UNCHANGED <<saved, loads>>
-----------------------------------------------------------------------------
(* The game's code returns or throws.                                       *)

\* CompleteDual: the class and level are what the journal says.
Completable ==
    /\ record.stage = "native"
    /\ carrier.journal.stage = "prepared"
    /\ carrier.journal.class = record.class
    /\ carrier.journal.level = actor.level
Completed ==
    [carrier EXCEPT !.kind = "dual", !.revision = @ + 1,
        !.old = [xp |-> carrier.journal.xp, level |-> carrier.journal.level, class |-> carrier.journal.class],
        !.preview = NoPreview, !.journal = NoJournal]

Reset == [actor EXCEPT !.kind = "dual", !.xp = 0]

Inner == stack[Len(stack)]
Pop == stack # <<>> /\ stack' = SubSeq(stack, 1, Len(stack) - 1)
Returning(path) == Pop /\ Inner = path

RemoveReturns ==
    /\ Returning("create")
    /\ actor' = [actor EXCEPT !.stripped = TRUE]
    /\ record' = [record EXCEPT !.removed = TRUE]
    /\ UNCHANGED <<carrier, saved, loads>>

MakeReturns(completes) ==
    /\ Returning("make")
    /\ actor' = Reset
    /\ IF completes /\ Completable
       THEN record' = NoRecord /\ carrier' = Completed
       ELSE record' = [record EXCEPT !.stage = "uncertain"] /\ carrier' \in Uncertain(carrier)
    /\ UNCHANGED <<saved, loads>>

\* Whatever part of the reset was done stays done.
Throws ==
    /\ Pop
    /\ actor' \in IF Inner = "make"
                  THEN {actor, [actor EXCEPT !.kind = "dual"], [actor EXCEPT !.xp = 0], Reset}
                  ELSE {actor, [actor EXCEPT !.stripped = TRUE]}
    /\ record' = [record EXCEPT !.stage = "uncertain"]
    /\ carrier' \in Uncertain(carrier)
    /\ UNCHANGED <<saved, loads>>
-----------------------------------------------------------------------------
(* Around it.                                                               *)

\* Experience that the bank books; an open journal holds it back.
Award ==
    /\ stack = <<>>
    /\ carrier.journal.stage = "none"
    /\ actor.xp < MaxXp /\ carrier.revision < MaxXp
    /\ actor' = [actor EXCEPT !.xp = @ + 1]
    /\ carrier' = [carrier EXCEPT !.revision = @ + 1]
    /\ UNCHANGED <<saved, record, stack, loads>>

LevelUp ==
    /\ stack = <<>>
    /\ carrier.journal.stage = "none"
    /\ actor.level < MaxLevel
    /\ actor' = [actor EXCEPT !.level = @ + 1]
    /\ UNCHANGED <<carrier, saved, record, stack, loads>>

\* A write past the bank while the creation screen is open.
ForeignWrite ==
    /\ stack = <<>>
    /\ carrier.journal.stage # "none"
    /\ actor.xp < MaxXp
    /\ actor' = [actor EXCEPT !.xp = @ + 1]
    /\ UNCHANGED <<carrier, saved, record, stack, loads>>

Save ==
    /\ stack = <<>>
    /\ loads < MaxLoads
    /\ saved' = [actor |-> actor, carrier |-> carrier]
    /\ UNCHANGED <<actor, carrier, record, stack, loads>>

Reload(inc) ==
    /\ loads < MaxLoads
    /\ loads' = loads + 1
    /\ actor' = [saved.actor EXCEPT !.inc = inc]
    /\ carrier' = saved.carrier
    /\ UNCHANGED saved
Load ==
    /\ stack = <<>>
    /\ actor.inc < MaxInc
    /\ Reload(actor.inc + 1)
    /\ UNCHANGED <<record, stack>>
Restart ==
    /\ Reload(1)
    /\ record' = NoRecord
    /\ stack' = <<>>

Next ==
    \/ StartEditing
    \/ \E screen \in Screens, class \in Classes :
          \/ MakeDualClass(screen, class)
          \/ RemoveAbilities(screen, class)
          \/ CreateMakeDualClass(screen, class)
    \/ MakeIneligible \/ RemoveReturns
    \/ \E completes \in BOOLEAN : MakeReturns(completes)
    \/ Throws \/ Award \/ LevelUp \/ ForeignWrite \/ Save \/ Load \/ Restart

Spec == Init /\ [][Next]_vars
-----------------------------------------------------------------------------
\* The experience that a reset clears is the experience the old class is
\* credited with, once: without an open journal the carrier and the character
\* agree on whether it was dual-classed, an account of an old class holds what
\* the game's reset took, and an open journal still holds what the character
\* had when the game's code was let in, however it ended and whatever was
\* saved or loaded (CBMR_MakeDualClass, CBMR_CreateMakeDualClass, PrepareDual).
Evidence(old, of) == old.xp = of.xp /\ old.level = of.level /\ old.class = of.class
ResetAccounted ==
    /\ carrier.journal.stage = "none" => /\ actor.kind = carrier.kind
                                         /\ ~actor.stripped \/ actor.kind = "dual"
    /\ carrier.kind = "dual" => Evidence(carrier.old, actor.was)
    /\ carrier.journal.stage # "none" /\ actor.was # NoOld => Evidence(carrier.journal, actor.was)
=============================================================================
