------------------------------- MODULE HookHost -------------------------------
(***************************************************************************)
(* The scroll runtime's start (research/scroll-runtime/startup.cpp) and the *)
(* groups of code patches it installs (the four hook groups and the hosts  *)
(* that own them).  A group replaces the first bytes of the engine's        *)
(* routines with jumps into a page of its own; the page, its unwind table  *)
(* and the carriers the page calls must live while anything can get there. *)
(*                                                                         *)
(* One start runs from the build of the first group to "ready", or back    *)
(* through the rollback.  The engine's thread makes every step of it.      *)
(* Between any two steps the other threads enter and leave hooked routines *)
(* and other owners patch the same bytes: nothing keeps them out.  A group *)
(* is given back only while its gates count nobody, but a gate counts a    *)
(* thread neither in its first instructions in a hook nor in its last ones *)
(* (docs/scroll-casting.md, Known limitations): `unseen` names the threads *)
(* that this leaves unprotected.                                           *)
(***************************************************************************)
EXTENDS Integers, Sequences

CONSTANTS
    Order,     \* the groups as the start installs them
    SiteCount, \* how many engine routines a group patches
    Threads,   \* the threads that are not the engine's
    MaxMeddle  \* bound on the changes other owners make

Groups == 1..Len(Order)
CallGroups == {"conditionalCalls", "selectors"}
Sites(g) == 1..SiteCount[g]

ASSUME OrderAssumption ==
    /\ Order \in Seq(STRING) /\ Order # <<>>
    /\ SiteCount \in [Groups -> Nat \ {0}]
    /\ Order[1] \notin CallGroups

VARIABLES
    start,   \* "none", "running", "ready", or how a failed start ended: "refused", "retained"
    runtime, \* the native runtime exists
    pc,      \* the step of the start: op, the group at, the sites todo, and why it takes them out
    active,  \* the groups whose state object exists
    held,    \* what a group has acquired and not yet given back
    written, \* the sites a group counts as its own
    loose,   \* the sites whose page protection or code cache is not restored
    bytes,   \* what stands at a site: the engine's bytes, our jump, another owner's, theirs over ours
    thread,  \* where each other thread is: in no hook, before, while or after a gate counts it
    unseen,  \* history: threads in a hook that no check before its removal can see
    meddled  \* bounds the other owners

vars == <<start, runtime, pc, active, held, written, loose, bytes, thread, unseen, meddled>>
-----------------------------------------------------------------------------
(* The groups.                                                              *)

\* The CALL groups have no carriers of their own: they call those of the
\* entry group installed before them by the same host.
IsCalls(g) == Order[g] \in CallGroups
Host(g) == IF IsCalls(g) THEN {g - 1, g} ELSE {g} \cup {h \in Groups : h = g + 1 /\ IsCalls(h)}

Parts(g) ==
    IF Order[g] = "decode"
    THEN {"page", "table", "lifePage", "lifeTable", "lifeCarrier", "carrier", "marshalCarrier"}
    ELSE IF IsCalls(g) THEN {"page", "table"} ELSE {"page", "table", "carrier"}

\* The order in which an install acquires the parts its group has, and the
\* order in which cleanup gives them back.
Acquired == [page |-> 1, table |-> 2, lifePage |-> 3, lifeTable |-> 4,
             lifeCarrier |-> 5, carrier |-> 6, marshalCarrier |-> 7]
Given == [lifeCarrier |-> 1, marshalCarrier |-> 2, carrier |-> 3,
          table |-> 4, lifeTable |-> 5, lifePage |-> 6, page |-> 7]

Carriers == {"carrier", "lifeCarrier", "marshalCarrier"}
Gates(g) == IF IsCalls(g) THEN {"carrier"} ELSE Parts(g) \cap Carriers

\* The idle check of a carrier: its gate counts nobody.
\* Mutant: the check asks nothing.
Quiet_Always(g, c) == TRUE

Quiet(g, c) ==
    \A t \in Threads : thread[t].stage = "counted" /\ thread[t].gate = c => thread[t].at \notin Host(g)

In(g) == {t \in Threads : thread[t].at = g}

\* The threads that this check does not see although they are in the hooks.
Overlooked(g, c) ==
    {t \in Threads : thread[t].stage # "counted" /\ thread[t].gate = c /\ thread[t].at \in Host(g)}

LeadsToUs(g, s) == bytes[g][s] \in {"ours", "theirs over ours"}
Whole(g) == written[g] = Sites(g)

At(op, g, todo, why) == [op |-> op, at |-> g, todo |-> todo, why |-> why]
Top == Len(Order)
Nowhere == [at |-> 0, gate |-> "none", stage |-> "out"]
-----------------------------------------------------------------------------
Init ==
    /\ start = "none" /\ runtime = FALSE
    /\ pc = At("rest", 0, {}, "none")
    /\ active = {} /\ thread = [t \in Threads |-> Nowhere] /\ unseen = {} /\ meddled = 0
    /\ held = [g \in Groups |-> {}] /\ written = [g \in Groups |-> {}]
    /\ loose = [g \in Groups |-> {}] /\ bytes = [g \in Groups |-> [s \in Sites(g) |-> "engine"]]

\* start(): one attempt; binding or creating the runtime may fail before
\* anything is installed.
Start ==
    /\ start = "none"
    /\ \/ start' = "running" /\ runtime' = TRUE /\ pc' = At("build", 1, {}, "none")
       \/ start' = "refused" /\ UNCHANGED <<runtime, pc>>
    /\ UNCHANGED <<active, held, written, loose, bytes, thread, unseen, meddled>>

\* What follows an exception that leaves a group's install(): the host of two
\* groups takes its entry group out when no CALL group remains (the contingency
\* host even when it was the entry group that failed and stayed), then the
\* start rolls everything back.
AfterInstall(g, act) ==
    LET entries == IF IsCalls(g) THEN g - 1 ELSE g
        catches == entries \in act /\ \/ IsCalls(g) /\ g \notin act
                                      \/ Order[g] = "conditional"
    IN  IF catches THEN At("remove", entries, {}, "catch") ELSE At("remove", Top, {}, "rollback")

\* After a group is out, or was not there.
AfterRemove(g, why) ==
    IF why = "catch" THEN At("remove", Top, {}, "rollback") ELSE At("remove", g - 1, {}, "rollback")

\* Mutant: the rollback goes on past a group that could not be removed.
RemoveFails_GoesOn(why) ==
    /\ pc' = IF why = "catch" THEN At("remove", Top, {}, "rollback")
                              ELSE At("remove", pc.at - 1, {}, "rollback")
    /\ UNCHANGED start

\* A removal that throws: the host's catch goes on to the rollback, which stops.
RemoveFails(why) ==
    IF why = "catch"
    THEN pc' = At("remove", Top, {}, "rollback") /\ UNCHANGED start
    ELSE pc' = At("rest", 0, {}, "none") /\ start' = "retained"
-----------------------------------------------------------------------------
(* install()                                                                *)

Certified(g) ==
    /\ \A s \in Sites(g) : bytes[g][s] = "engine"
    /\ IsCalls(g) => Quiet(g, "carrier")

Refuse ==
    /\ pc.op = "build" /\ ~Certified(pc.at)
    /\ pc' = AfterInstall(pc.at, active)
    /\ UNCHANGED <<start, runtime, active, held, written, loose, bytes, thread, unseen, meddled>>

\* The group's state is published before anything can fail.
Acquire ==
    /\ pc.op = "build" /\ Certified(pc.at)
    /\ active' = active \cup {pc.at}
    /\ \E n \in 0..7 :
         /\ held' = [held EXCEPT ![pc.at] = {part \in Parts(pc.at) : Acquired[part] <= n}]
         /\ pc' = IF held'[pc.at] = Parts(pc.at) THEN At("write", pc.at, Sites(pc.at), "install")
                                                 ELSE At("undo", pc.at, {}, "install")
    /\ UNCHANGED <<start, runtime, written, loose, bytes, thread, unseen, meddled>>

\* A CALL group has no carriers to detach, so after the check of its removal
\* nothing looks again; and when its own install fails nothing looks at all.
Abandoned(g) == IF IsCalls(g) THEN In(g) ELSE {}

\* write(patch, true).  It throws without a change, or changes the bytes and
\* throws because protection or cache could not be restored.
Write ==
    LET g == pc.at
    IN  /\ pc.op = "write"
        /\ \E s \in pc.todo :
             /\ \A other \in pc.todo : s <= other
             /\ \/ /\ pc' = At("undo", g, written[g], "install")
                   /\ unseen' = unseen \cup Abandoned(g)
                   /\ UNCHANGED <<written, bytes, loose>>
                \/ /\ bytes[g][s] = "engine"
                   /\ bytes' = [bytes EXCEPT ![g][s] = "ours"]
                   /\ written' = [written EXCEPT ![g] = @ \cup {s}]
                   /\ \/ /\ pc' = At("write", g, pc.todo \ {s}, "install")
                         /\ UNCHANGED <<loose, unseen>>
                      \/ /\ loose' = [loose EXCEPT ![g] = @ \cup {s}]
                         /\ pc' = At("undo", g, written'[g], "install")
                         /\ unseen' = unseen \cup Abandoned(g)
    /\ UNCHANGED <<start, runtime, active, held, thread, meddled>>

\* The group stands.  After the last one the start attaches its save bridge.
Installed ==
    /\ pc.op = "write" /\ pc.todo = {}
    /\ \/ pc.at < Top /\ pc' = At("build", pc.at + 1, {}, "none") /\ UNCHANGED start
       \/ pc.at = Top /\ start' = "ready" /\ pc' = At("rest", 0, {}, "none")
       \/ pc.at = Top /\ pc' = At("remove", Top, {}, "rollback") /\ UNCHANGED start
    /\ UNCHANGED <<runtime, active, held, written, loose, bytes, thread, unseen, meddled>>
-----------------------------------------------------------------------------
(* Taking a group out.                                                      *)

\* ready_remove() of every group of the host that is still there.
Ready(g) ==
    \A h \in {p \in Host(g) : p <= g} :
        /\ h \in active
        /\ \A c \in Gates(h) : IsCalls(h) \/ c \in held[h] => Quiet(h, c)
        /\ \A s \in written[h] : bytes[h][s] = "ours"

Skip ==
    /\ pc.op = "remove" /\ pc.at > 0 /\ pc.at \notin active
    /\ pc' = AfterRemove(pc.at, pc.why)
    /\ UNCHANGED <<start, runtime, active, held, written, loose, bytes, thread, unseen, meddled>>

Remove ==
    /\ pc.op = "remove" /\ pc.at \in active
    /\ IF Ready(pc.at) THEN pc' = At("undo", pc.at, written[pc.at], pc.why) /\ UNCHANGED start
                       ELSE RemoveFails(pc.why)
    /\ unseen' = IF Ready(pc.at) /\ IsCalls(pc.at) THEN unseen \cup In(pc.at) ELSE unseen
    /\ UNCHANGED <<runtime, active, held, written, loose, bytes, thread, meddled>>

\* write(patch, false), last site first.  A failed install goes on to the
\* other sites; a removal throws at the first that fails.
Stuck(s) ==
    IF pc.why = "install"
    THEN pc' = At("undo stuck", pc.at, pc.todo \ {s}, pc.why) /\ UNCHANGED start
    ELSE RemoveFails(pc.why)

Undo ==
    LET g == pc.at
    IN  /\ pc.op \in {"undo", "undo stuck"}
        /\ \E s \in pc.todo :
             /\ \A other \in pc.todo : other <= s
             /\ \/ Stuck(s) /\ UNCHANGED <<written, bytes, loose>>
                \/ /\ bytes[g][s] = "ours"
                   /\ bytes' = [bytes EXCEPT ![g][s] = "engine"]
                   /\ written' = [written EXCEPT ![g] = @ \ {s}]
                   /\ \/ /\ loose' = [loose EXCEPT ![g] = @ \ {s}]
                         /\ pc' = At(pc.op, g, pc.todo \ {s}, pc.why) /\ UNCHANGED start
                      \/ loose' = [loose EXCEPT ![g] = @ \cup {s}] /\ Stuck(s)
    /\ UNCHANGED <<runtime, active, held, thread, unseen, meddled>>

\* A failed install with a site it could not restore keeps everything.
KeepStuck ==
    /\ pc.op = "undo stuck" /\ pc.todo = {}
    /\ pc' = AfterInstall(pc.at, active)
    /\ UNCHANGED <<start, runtime, active, held, written, loose, bytes, thread, unseen, meddled>>

\* cleanup(): protections first, then the parts one after another; each may
\* fail, and what was given back stays so.  A carrier in use is not detached.
GiveBack(g) ==
    \E n \in 0..7 :
        LET detached == {c \in held[g] \cap Carriers : Given[c] <= n}
        IN  /\ held' = [held EXCEPT ![g] = {part \in @ : Given[part] > n}]
            /\ \A c \in detached : Quiet(g, c)
            /\ unseen' = unseen \cup UNION {Overlooked(g, c) : c \in detached}

\* Mutant: a group is forgotten although a protection is still to be restored.
Settles_Never(g) == loose' = loose

Settles(g) == loose' = [loose EXCEPT ![g] = {}]

CleanUp ==
    LET g == pc.at
    IN  /\ pc.op = "undo" /\ pc.todo = {}
        /\ \/ /\ Settles(g)
              /\ GiveBack(g)
              /\ IF held'[g] = {}
                 THEN /\ active' = active \ {g} /\ UNCHANGED start
                      /\ pc' = IF pc.why = "install" THEN AfterInstall(g, active')
                                                     ELSE AfterRemove(g, pc.why)
                 ELSE /\ UNCHANGED active
                      /\ IF pc.why = "install" THEN pc' = AfterInstall(g, active) /\ UNCHANGED start
                                               ELSE RemoveFails(pc.why)
           \/ /\ loose[g] # {}
              /\ \E rest \in SUBSET loose[g] \ {{}} : loose' = [loose EXCEPT ![g] = rest]
              /\ UNCHANGED <<held, active, unseen>>
              /\ IF pc.why = "install" THEN pc' = AfterInstall(g, active) /\ UNCHANGED start
                                       ELSE RemoveFails(pc.why)
        /\ UNCHANGED <<runtime, written, bytes, thread, meddled>>

\* Every group is out: the runtime goes unless a use of it is still pending.
Destroy ==
    /\ pc.op = "remove" /\ pc.at = 0
    /\ pc' = At("rest", 0, {}, "none")
    /\ \/ runtime' = FALSE /\ start' = "refused"
       \/ start' = "retained" /\ UNCHANGED runtime
    /\ UNCHANGED <<active, held, written, loose, bytes, thread, unseen, meddled>>
-----------------------------------------------------------------------------
(* The other threads, and other owners of the same bytes.                   *)

\* A thread follows a jump of ours, at any time.  While a CALL group is taken
\* out it comes after the last check.
Enter(t, g) ==
    /\ thread[t] = Nowhere
    /\ \E s \in Sites(g) : LeadsToUs(g, s)
    /\ \E gate \in Gates(g) :
         thread' = [thread EXCEPT ![t] = [at |-> g, gate |-> gate, stage |-> "entering"]]
    /\ unseen' = IF pc.op \in {"undo", "undo stuck"} /\ pc.at = g /\ IsCalls(g)
                  THEN unseen \cup {t} ELSE unseen
    /\ UNCHANGED <<start, runtime, pc, active, held, written, loose, bytes, meddled>>

\* CarrierGate::Outside counts it while it runs the native original.
Count(t) ==
    /\ thread[t].stage = "entering"
    /\ thread' = [thread EXCEPT ![t].stage = "counted"]
    /\ UNCHANGED <<start, runtime, pc, active, held, written, loose, bytes, unseen, meddled>>

Uncount(t) ==
    /\ thread[t].stage = "counted"
    /\ thread' = [thread EXCEPT ![t].stage = "leaving"]
    /\ UNCHANGED <<start, runtime, pc, active, held, written, loose, bytes, unseen, meddled>>

Leave(t) ==
    /\ thread[t].stage = "leaving"
    /\ thread' = [thread EXCEPT ![t] = Nowhere]
    /\ unseen' = unseen \ {t}
    /\ UNCHANGED <<start, runtime, pc, active, held, written, loose, bytes, meddled>>

\* Another owner puts its jump over what it finds, or takes it off again.
Meddle(g, s) ==
    /\ meddled < MaxMeddle /\ meddled' = meddled + 1
    /\ \/ bytes[g][s] = "engine" /\ bytes' = [bytes EXCEPT ![g][s] = "theirs"]
       \/ bytes[g][s] = "theirs" /\ bytes' = [bytes EXCEPT ![g][s] = "engine"]
       \/ bytes[g][s] = "ours" /\ bytes' = [bytes EXCEPT ![g][s] = "theirs over ours"]
       \/ bytes[g][s] = "theirs over ours" /\ bytes' = [bytes EXCEPT ![g][s] = "ours"]
    /\ UNCHANGED <<start, runtime, pc, active, held, written, loose, thread, unseen>>

Next ==
    \/ Start \/ Refuse \/ Acquire \/ Write \/ Installed
    \/ Skip \/ Remove \/ Undo \/ KeepStuck \/ CleanUp \/ Destroy
    \/ \E t \in Threads : Count(t) \/ Uncount(t) \/ Leave(t) \/ \E g \in Groups : Enter(t, g)
    \/ \E g \in Groups : \E s \in Sites(g) : Meddle(g, s)

Spec == Init /\ [][Next]_vars
-----------------------------------------------------------------------------
\* What a thread in a hook runs on: the group's pages and unwind tables, the
\* carrier it came for, and every group installed before it.
Needs(t) == Parts(thread[t].at) \ (Carriers \ {thread[t].gate})
Stands(g) == g \in active /\ runtime /\ \A h \in 1..(g - 1) : Whole(h) /\ held[h] = Parts(h)
Reached(g) == \E s \in Sites(g) : LeadsToUs(g, s)

\* Whatever a byte of the engine's leads to is there: the group's page, unwind
\* table and carriers, the runtime they use and every group installed before
\* it, through any failure, partial rollback or other owner; and a thread keeps
\* what it runs on, unless it stood where no check looks (docs/scroll-casting.md
\* lines 149-157).  No unwind table outlives the page it describes.
NothingDangles ==
    /\ \A g \in Groups : Reached(g) => Stands(g) /\ held[g] = Parts(g)
    /\ \A t \in Threads \ unseen : thread[t] # Nowhere =>
         Stands(thread[t].at) /\ Needs(t) \subseteq held[thread[t].at]
    /\ \A g \in Groups : /\ "table" \in held[g] => "page" \in held[g]
                         /\ "lifeTable" \in held[g] => "lifePage" \in held[g]

\* A start that is refused and not retained leaves the engine as it found it:
\* no byte leads to us, no protection is open, no group or runtime is left, and
\* no thread is in a hook but one that no check could see.  One that is ready
\* has everything in place and has overlooked nobody.
OutcomeIsTrue ==
    /\ start = "refused" =>
         /\ \A g \in Groups : ~Reached(g) /\ loose[g] = {} /\ held[g] = {}
         /\ \A t \in Threads \ unseen : thread[t] = Nowhere
         /\ active = {} /\ ~runtime
    /\ start = "ready" => unseen = {} /\ runtime /\ \A g \in Groups : Whole(g) /\ held[g] = Parts(g)
=============================================================================
