---------------------------- MODULE DualClassProofs ----------------------------
(***************************************************************************)
(* What a dual-class reset takes is what the old class is credited with,   *)
(* for every number of screens, classes, lifetimes, nested calls, saves    *)
(* and loads (DualReset); and what the dormant class gains does not depend *)
(* on the screens it takes, and is what the installed tables allow, for    *)
(* every table, experience and number of levels (OldClassRules).           *)
(***************************************************************************)
EXTENDS DualReset, OldClassRules, FiniteSetTheorems, NaturalsInduction, WellFoundedInduction, TLAPS

Evidences == [xp : Int, level : Int, class : Classes \cup {0}]
Stages == {"none", "prepared", "uncertain"}
Actors == [inc : Int, kind : {"single", "dual"}, level : Nat \ {0}, xp : Int, stripped : BOOLEAN,
           was : Evidences]
Carriers == [kind : {"single", "dual"}, revision : Int, old : Evidences,
             preview : [held : BOOLEAN, inc : Int, revision : Int, xp : Int, level : Int],
             journal : [stage : Stages, xp : Int, level : Int, class : Classes \cup {0}]]
Records == [stage : {"none", "native", "uncertain"}, inc : Int, xp : Int, class : Classes \cup {0},
            path : {"none", "make", "create"}, screen : Screens \cup {0}, removed : BOOLEAN]
Typed ==
    /\ actor \in Actors
    /\ carrier \in Carriers
    /\ saved \in [actor : Actors, carrier : Carriers]
    /\ record \in Records
    /\ stack \in {<<>>, <<"make">>, <<"create">>}

\* A character and its account agree wherever the game's code is not running:
\* the part of ResetAccounted that a save preserves, and that a reset that has
\* begun is in the journal or in the account.
Sound(a, c) ==
    /\ c.journal.stage = "none" => a.kind = c.kind /\ (~a.stripped \/ a.kind = "dual")
    /\ c.kind = "dual" => Evidence(c.old, a.was) /\ c.journal.stage = "none"
    /\ c.journal.stage # "none" /\ a.was # NoOld => Evidence(c.journal, a.was)
    /\ a.was # NoOld => c.journal.stage # "none" \/ c.kind = "dual"

\* While the game's code runs, and while the creation screen is between its two
\* calls, the record is this lifetime's and the journal says what it prepared.
Held ==
    /\ Mine /\ record.stage = "native"
    /\ carrier.journal.stage # "none"
    /\ carrier.kind = "single"
    /\ carrier.journal.xp = record.xp
    /\ carrier.journal.class = record.class
    /\ carrier.journal.level = actor.level
Recorded ==
    /\ record.stage # "none" => record.inc <= actor.inc
    /\ stack # <<>> => Held /\ ~record.removed
    /\ stack = <<"make">> => Evidence(carrier.journal, actor.was) /\ actor.was # NoOld
    /\ Mine /\ record.stage = "native" /\ stack = <<>> => Held /\ record.removed

IInv ==
    /\ Typed
    /\ Sound(actor, carrier)
    /\ Sound(saved.actor, saved.carrier)
    /\ Recorded

USE DEF NoOld, NoPreview, NoJournal, NoRecord, Mine, Evidence, Held

LEMMA Starts == Init => IInv
<1> SUFFICES ASSUME Init PROVE IInv
  OBVIOUS
<1>1. Typed
  BY BoundAssumption DEF Init, Typed, Actors, Carriers, Records, Evidences, Stages
<1>2. Sound(actor, carrier) /\ Sound(saved.actor, saved.carrier)
  BY DEF Init, Sound
<1>3. Recorded
  BY DEF Init, Recorded
<1> QED BY <1>1, <1>2, <1>3 DEF IInv

\* Marking the journal changes nothing that the invariant speaks about.
LEMMA Marked ==
    ASSUME NEW c \in Carriers, NEW a \in Actors, Sound(a, c), NEW d \in Uncertain(c)
    PROVE  /\ d \in Carriers /\ Sound(a, d)
           /\ d.kind = c.kind /\ d.old = c.old
           /\ d.journal.stage = "none" <=> c.journal.stage = "none"
           /\ d.journal.xp = c.journal.xp /\ d.journal.level = c.journal.level
           /\ d.journal.class = c.journal.class
  BY DEF Uncertain, Sound, Carriers, Actors, Stages

LEMMA ResetIs ==
    ASSUME actor \in Actors
    PROVE  /\ Reset \in Actors /\ Reset.kind = "dual" /\ Reset.was = actor.was
           /\ Reset.inc = actor.inc
<1> DEFINE marked == [actor EXCEPT !.kind = "dual"]
<1>1. Reset \in Actors
  <2>1. marked \in Actors
    BY DEF Actors
  <2>2. Reset = [marked EXCEPT !.xp = 0]
    BY DEF Reset
  <2> HIDE DEF marked
  <2> QED BY <2>1, <2>2 DEF Actors
<1>2. Reset.kind = "dual"
  BY Zenon DEF Reset, Actors
<1>3. Reset.was = actor.was
  BY Zenon DEF Reset, Actors
<1>4. Reset.inc = actor.inc
  BY Zenon DEF Reset, Actors
<1> QED BY <1>1, <1>2, <1>3, <1>4 DEF Reset

LEMMA PreparedIs ==
    ASSUME carrier \in Carriers, actor \in Actors, NEW class \in Classes
    PROVE  /\ Prepared(class) \in Carriers
           /\ Prepared(class).kind = carrier.kind
           /\ Prepared(class).journal = [stage |-> "prepared", xp |-> actor.xp, level |-> actor.level,
                                         class |-> class]
  BY DEF Prepared, Carriers, Actors, Stages

LEMMA CompletedIs ==
    ASSUME carrier \in Carriers
    PROVE  /\ Completed \in Carriers /\ Completed.kind = "dual" /\ Completed.journal.stage = "none"
           /\ Evidence(Completed.old, carrier.journal)
<1> DEFINE evidence == [xp |-> carrier.journal.xp, level |-> carrier.journal.level, class |-> carrier.journal.class]
           journal == NoJournal
<1>1. evidence \in Evidences /\ Evidence(evidence, carrier.journal)
  BY DEF Carriers, Evidences
<1>3. journal \in [stage : Stages, xp : Int, level : Int, class : Classes \cup {0}] /\ journal.stage = "none"
  BY DEF Stages
<1> HIDE DEF evidence, journal
<1>2. Completed = [carrier EXCEPT !.kind = "dual", !.revision = @ + 1, !.old = evidence,
                      !.preview = NoPreview, !.journal = journal]
  BY DEF Completed, evidence, journal
<1>5. Completed \in Carriers
  <2> DEFINE preview == NoPreview
             kind == [carrier EXCEPT !.kind = "dual"]
             revision == [kind EXCEPT !.revision = @ + 1]
             credited == [revision EXCEPT !.old = evidence]
             cleared == [credited EXCEPT !.preview = preview]
  <2>1. Completed = [cleared EXCEPT !.journal = journal]
    BY <1>2
  <2>2. preview \in [held : BOOLEAN, inc : Int, revision : Int, xp : Int, level : Int]
    OBVIOUS
  <2> HIDE DEF preview
  <2>3. kind \in Carriers
    BY DEF Carriers
  <2> HIDE DEF kind
  <2>4. revision \in Carriers
    BY <2>3 DEF Carriers
  <2> HIDE DEF revision
  <2>5. credited \in Carriers
    BY <2>4, <1>1 DEF Carriers
  <2> HIDE DEF credited
  <2>6. cleared \in Carriers
    BY <2>5, <2>2 DEF Carriers
  <2> HIDE DEF cleared
  <2> QED BY <2>1, <2>6, <1>3 DEF Carriers
<1>6. Completed.kind = "dual"
  BY <1>2, Zenon DEF Carriers
<1>7. Completed.old = evidence
  BY <1>2, Zenon DEF Carriers
<1>8. Completed.journal = journal
  BY <1>2, Zenon DEF Carriers
<1> QED BY <1>1, <1>5, <1>6, <1>7, <1>8, <1>3

LEMMA EnterKeeps ==
    ASSUME IInv, NEW path \in {"make", "create"}, NEW screen \in Screens, NEW class \in Classes,
           Enter(path, screen, class)
    PROVE  IInv'
<1> USE DEF IInv
<1>1. stack = <<>>
  BY DEF Enter, Recorded
<1>2. CASE ~Preparable
  <2>1. Typed'
    <3>1. NoRecord \in Records
      BY DEF Records
    <3> QED BY <1>2, <3>1 DEF Enter, Typed
  <2>2. Recorded'
    BY <1>1, <1>2 DEF Enter, Recorded
  <2> QED BY <1>2, <2>1, <2>2 DEF Enter
<1>3. CASE Preparable
  <2>1. actor.was = NoOld /\ carrier.kind = "single" /\ actor.kind = "single" /\ ~actor.stripped
    BY <1>3 DEF Preparable, Sound, Typed, Actors, Carriers
  <2>2. actor'.was = IF path = "make" THEN [xp |-> actor.xp, level |-> actor.level, class |-> class] ELSE NoOld
    BY <1>3, <2>1 DEF Enter, Typed, Actors
  <2>3. /\ actor'.level = actor.level /\ actor'.inc = actor.inc /\ actor'.kind = "single"
        /\ actor'.stripped = FALSE /\ actor' \in Actors
    BY <1>3, <2>1 DEF Enter, Typed, Actors, Evidences
  <2>4. /\ carrier'.kind = "single" /\ carrier' \in Carriers
        /\ carrier'.journal = [stage |-> "prepared", xp |-> actor.xp, level |-> actor.level, class |-> class]
    BY <1>3, <2>1, PreparedIs DEF Enter, Typed
  <2>5. record' = NewRecord(path, screen, class) /\ stack' = <<path>> /\ saved' = saved
    BY <1>1, <1>3 DEF Enter
  <2>6. Typed'
    BY <2>3, <2>4, <2>5 DEF Typed, NewRecord, Records, Actors
  <2>7. Sound(actor, carrier)'
    BY <2>2, <2>4 DEF Sound
  <2>8. Recorded'
    BY <2>2, <2>3, <2>4, <2>5 DEF Recorded, NewRecord, Typed, Actors
  <2> QED BY <2>5, <2>6, <2>7, <2>8
<1> QED BY <1>2, <1>3

LEMMA CreateKeeps ==
    ASSUME IInv, NEW screen \in Screens, NEW class \in Classes, CreateMakeDualClass(screen, class)
    PROVE  IInv'
<1> USE DEF IInv
<1>1. stack = <<>> /\ Held /\ record.removed
  BY DEF CreateMakeDualClass, Removed, Recorded
<1>2. CASE Unmoved
  <2>1. /\ actor'.was = [xp |-> actor.xp, level |-> actor.level, class |-> class]
        /\ actor'.level = actor.level /\ actor'.inc = actor.inc /\ actor' \in Actors
    BY <1>2 DEF CreateMakeDualClass, Typed, Actors, Evidences
  <2>2. /\ record' \in Records /\ ~record'.removed /\ record'.stage = "native" /\ record'.inc = record.inc
        /\ record'.xp = record.xp /\ record'.class = record.class
    BY <1>1, <1>2 DEF CreateMakeDualClass, Typed, Records
  <2>3. stack' = <<"make">> /\ carrier' = carrier /\ saved' = saved
    BY <1>1, <1>2 DEF CreateMakeDualClass
  <2>4. Typed'
    BY <2>1, <2>2, <2>3 DEF Typed
  <2>5. Evidence(carrier.journal, actor'.was)
    BY <1>1, <1>2, <2>1 DEF Unmoved, CreateMakeDualClass, Removed
  <2>6. Sound(actor', carrier)
    <3>1. actor'.kind = actor.kind /\ actor'.stripped = actor.stripped
      BY <1>2 DEF CreateMakeDualClass, Typed, Actors
    <3> QED BY <1>1, <2>1, <2>5, <3>1 DEF Sound
  <2>7. actor'.was # NoOld
    BY <2>1 DEF Typed, Actors
  <2>8. Recorded'
    <3>1. record'.stage # "none" => record'.inc <= actor'.inc
      BY <1>1, <2>1, <2>2 DEF Recorded
    <3>2. Held'
      BY <1>1, <2>1, <2>2, <2>3
    <3>3. Evidence(carrier'.journal, actor'.was)
      BY <2>3, <2>5
    <3> QED BY <2>2, <2>3, <2>7, <3>1, <3>2, <3>3 DEF Recorded
  <2> QED BY <2>3, <2>4, <2>6, <2>8
<1>3. CASE ~Unmoved
  <2>1. actor' = actor /\ stack' = stack /\ saved' = saved /\ carrier' \in Uncertain(carrier)
    BY <1>3 DEF CreateMakeDualClass
  <2>2. carrier' \in Carriers /\ Sound(actor, carrier')
    BY <2>1, Marked DEF Typed
  <2>3. record' \in Records /\ record'.stage = "uncertain" /\ record'.inc = record.inc
    BY <1>3 DEF CreateMakeDualClass, Typed, Records
  <2>4. Typed'
    BY <2>1, <2>2, <2>3 DEF Typed
  <2>5. Recorded'
    BY <1>1, <2>1, <2>3 DEF Recorded
  <2> QED BY <2>1, <2>2, <2>4, <2>5
<1> QED BY <1>2, <1>3

LEMMA RemoveReturnsKeeps ==
    ASSUME IInv, RemoveReturns
    PROVE  IInv'
<1> USE DEF IInv
<1>1. /\ stack = <<"create">> /\ stack' = <<>>
      /\ carrier' = carrier /\ saved' = saved
  BY DEF RemoveReturns, Returning, Pop, Inner, Typed
<1>2. Held /\ ~record.removed
  BY <1>1 DEF Recorded
<1>3. /\ actor' \in Actors /\ actor'.kind = actor.kind /\ actor'.was = actor.was
      /\ actor'.level = actor.level /\ actor'.inc = actor.inc
  BY DEF RemoveReturns, Typed, Actors
<1>4. /\ record' \in Records /\ record'.stage = "native" /\ record'.inc = record.inc
      /\ record'.xp = record.xp /\ record'.class = record.class /\ record'.path = record.path
      /\ record'.removed
  BY <1>2 DEF RemoveReturns, Typed, Records
<1>5. Typed'
  BY <1>1, <1>3, <1>4 DEF Typed
<1>6. Sound(actor', carrier)
  BY <1>2, <1>3 DEF Sound
<1>7. Recorded'
  BY <1>1, <1>2, <1>3, <1>4 DEF Recorded
<1> QED BY <1>1, <1>5, <1>6, <1>7

LEMMA MakeReturnsKeeps ==
    ASSUME IInv, NEW completes \in BOOLEAN, MakeReturns(completes)
    PROVE  IInv'
<1> USE DEF IInv
<1>1. stack = <<"make">> /\ stack' = <<>> /\ saved' = saved
  BY DEF MakeReturns, Returning, Pop, Inner, Typed
<1>2. Held /\ Evidence(carrier.journal, actor.was) /\ actor.was # NoOld
  BY <1>1 DEF Recorded
<1>3. /\ actor' \in Actors /\ actor'.kind = "dual" /\ actor'.was = actor.was
      /\ actor'.inc = actor.inc
  BY ResetIs DEF MakeReturns, Typed
<1>4. CASE completes /\ Completable
  <2>1. record' = NoRecord
    BY <1>4 DEF MakeReturns
  <2>2. /\ carrier' \in Carriers /\ carrier'.kind = "dual" /\ carrier'.journal.stage = "none"
        /\ Evidence(carrier'.old, carrier.journal)
    BY <1>4, CompletedIs DEF MakeReturns, Typed
  <2>3. Typed'
    BY <1>1, <1>3, <2>1, <2>2 DEF Typed, Records
  <2>4. Sound(actor', carrier')
    BY <1>2, <1>3, <2>2 DEF Sound
  <2>5. Recorded'
    BY <1>1, <2>1 DEF Recorded
  <2> QED BY <1>1, <2>3, <2>4, <2>5
<1>5. CASE ~(completes /\ Completable)
  <2>1. carrier' \in Uncertain(carrier)
    BY <1>5 DEF MakeReturns
  <2>2. /\ carrier' \in Carriers /\ carrier'.kind = "single" /\ carrier'.journal.stage # "none"
        /\ Evidence(carrier'.journal, carrier.journal)
    BY <1>2, <2>1, Marked DEF Typed
  <2>3. record' \in Records /\ record'.stage = "uncertain" /\ record'.inc = record.inc
    BY <1>5 DEF MakeReturns, Typed, Records
  <2>4. Typed'
    BY <1>1, <1>3, <2>2, <2>3 DEF Typed
  <2>5. Sound(actor', carrier')
    BY <1>2, <1>3, <2>2 DEF Sound
  <2>6. Recorded'
    BY <1>1, <1>2, <1>3, <2>3 DEF Recorded
  <2> QED BY <1>1, <2>4, <2>5, <2>6
<1> QED BY <1>4, <1>5

LEMMA ThrowsKeeps ==
    ASSUME IInv, Throws
    PROVE  IInv'
<1> USE DEF IInv
<1>1. stack # <<>> /\ stack' = <<>> /\ saved' = saved /\ carrier' \in Uncertain(carrier)
  BY DEF Throws, Pop, Typed
<1>2. Held
  BY <1>1 DEF Recorded
<1>3. actor' \in Actors /\ actor'.was = actor.was /\ actor'.inc = actor.inc
  <2>1. actor \in Actors
    BY DEF Typed
  <2>2. CASE actor' \in {actor, [actor EXCEPT !.kind = "dual"]}
    BY <2>1, <2>2 DEF Actors
  <2>3. CASE actor' = [actor EXCEPT !.xp = 0]
    BY <2>1, <2>3 DEF Actors
  <2>5. CASE actor' = [actor EXCEPT !.stripped = TRUE]
    BY <2>1, <2>5 DEF Actors
  <2>4. CASE actor' = Reset
    BY <2>1, <2>4, ResetIs
  <2> QED BY <2>2, <2>3, <2>4, <2>5 DEF Throws
<1>4. /\ carrier' \in Carriers /\ carrier'.kind = "single" /\ carrier'.journal.stage # "none"
      /\ Evidence(carrier'.journal, carrier.journal)
  BY <1>1, <1>2, Marked DEF Typed
<1>5. record' \in Records /\ record'.stage = "uncertain" /\ record'.inc = record.inc
  BY DEF Throws, Typed, Records
<1>6. Typed'
  BY <1>1, <1>3, <1>4, <1>5 DEF Typed
<1>7. Sound(actor', carrier')
  BY <1>2, <1>3, <1>4 DEF Sound
<1>8. Recorded'
  BY <1>1, <1>2, <1>3, <1>5 DEF Recorded
<1> QED BY <1>1, <1>6, <1>7, <1>8

LEMMA ReloadKeeps ==
    ASSUME IInv, Load \/ Restart
    PROVE  IInv'
<1> USE DEF IInv
<1>1. \E inc \in Int : Reload(inc)
  BY DEF Load, Restart, Typed, Actors
<1>2. /\ actor' \in Actors /\ actor'.kind = saved.actor.kind /\ actor'.was = saved.actor.was
      /\ actor'.stripped = saved.actor.stripped
      /\ carrier' = saved.carrier /\ saved' = saved
  BY <1>1 DEF Reload, Typed, Actors
<1>3. Sound(actor', carrier')
  BY <1>2 DEF Sound
<1>4. CASE Load
  <2>1. actor'.inc = actor.inc + 1 /\ record' = record /\ stack' = <<>>
    BY <1>4 DEF Load, Reload, Typed, Actors
  <2>2. Typed'
    BY <1>2, <2>1 DEF Typed
  <2>3. Recorded'
    BY <2>1 DEF Recorded, Typed, Actors, Records
  <2> QED BY <1>2, <1>3, <2>2, <2>3
<1>5. CASE Restart
  <2>1. record' = NoRecord /\ stack' = <<>>
    BY <1>5 DEF Restart
  <2>2. Typed'
    BY <1>2, <2>1 DEF Typed, Records
  <2>3. Recorded'
    BY <2>1 DEF Recorded
  <2> QED BY <1>2, <1>3, <2>2, <2>3
<1> QED BY <1>4, <1>5

\* The steps that leave the record, the stack and the journal's content alone.
LEMMA QuietKeeps ==
    ASSUME IInv, StartEditing \/ MakeIneligible \/ Award \/ LevelUp \/ ForeignWrite \/ Save
    PROVE  IInv'
<1> USE DEF IInv
<1>1. record' = record /\ stack' = stack
  BY DEF StartEditing, MakeIneligible, Award, LevelUp, ForeignWrite, Save
<1>2. /\ actor' \in Actors /\ actor'.kind = actor.kind /\ actor'.was = actor.was
      /\ actor'.stripped = actor.stripped /\ actor'.inc = actor.inc
      /\ carrier.journal.stage # "none" => actor'.level = actor.level
  BY DEF StartEditing, MakeIneligible, Award, LevelUp, ForeignWrite, Save, Typed, Actors
<1>3. /\ carrier' \in Carriers /\ carrier'.kind = carrier.kind /\ carrier'.old = carrier.old
      /\ carrier'.journal.stage = "none" <=> carrier.journal.stage = "none"
      /\ Evidence(carrier'.journal, carrier.journal)
  <2>1. carrier \in Carriers /\ actor \in Actors
    BY DEF Typed
  <2>2. CASE StartEditing
    <3> DEFINE preview == [held |-> TRUE, inc |-> actor.inc, revision |-> carrier.revision,
                           xp |-> actor.xp, level |-> actor.level]
    <3>1. preview \in [held : BOOLEAN, inc : Int, revision : Int, xp : Int, level : Int]
      BY <2>1 DEF Carriers, Actors
    <3>2. carrier' = [carrier EXCEPT !.preview = preview]
      BY <2>2 DEF StartEditing
    <3> HIDE DEF preview
    <3> QED BY <2>1, <3>1, <3>2 DEF Carriers
  <2>3. CASE MakeIneligible
    BY <2>1, <2>3, Marked DEF MakeIneligible
  <2>4. CASE Award
    BY <2>1, <2>4 DEF Award, Carriers
  <2>5. CASE carrier' = carrier
    BY <2>1, <2>5
  <2> QED BY <2>2, <2>3, <2>4, <2>5 DEF LevelUp, ForeignWrite, Save
<1>4. Sound(actor', carrier')
  BY <1>2, <1>3 DEF Sound
<1>5. /\ saved' \in [actor : Actors, carrier : Carriers]
      /\ Sound(saved'.actor, saved'.carrier)
  <2>1. CASE Save
    BY <2>1 DEF Save, Typed
  <2>2. CASE saved' = saved
    BY <2>2 DEF Typed
  <2> QED BY <2>1, <2>2 DEF StartEditing, MakeIneligible, Award, LevelUp, ForeignWrite, Save
<1>6. Typed'
  BY <1>1, <1>2, <1>3, <1>5 DEF Typed
<1>7. Recorded'
  BY <1>1, <1>2, <1>3 DEF Recorded
<1> QED BY <1>4, <1>5, <1>6, <1>7

LEMMA Inductive == IInv /\ [Next]_vars => IInv'
<1> SUFFICES ASSUME IInv, [Next]_vars PROVE IInv'
  OBVIOUS
<1>1. CASE UNCHANGED vars
  BY <1>1 DEF vars, IInv, Typed, Sound, Recorded
<1>2. CASE \E screen \in Screens, class \in Classes :
             MakeDualClass(screen, class) \/ RemoveAbilities(screen, class)
  BY <1>2, EnterKeeps DEF MakeDualClass, RemoveAbilities
<1>3. CASE \E screen \in Screens, class \in Classes : CreateMakeDualClass(screen, class)
  BY <1>3, CreateKeeps
<1>4. CASE RemoveReturns \/ Throws \/ Load \/ Restart
  BY <1>4, RemoveReturnsKeeps, ThrowsKeeps, ReloadKeeps
<1>5. CASE \E completes \in BOOLEAN : MakeReturns(completes)
  BY <1>5, MakeReturnsKeeps
<1>6. CASE StartEditing \/ MakeIneligible \/ Award \/ LevelUp \/ ForeignWrite \/ Save
  BY <1>6, QuietKeeps
<1> QED BY <1>1, <1>2, <1>3, <1>4, <1>5, <1>6 DEF Next

\* What a reset clears is what the old class is credited with, once, and an
\* open journal keeps what the character had (ResetAccounted of DualReset).
THEOREM ResetIsAccounted == Spec => []ResetAccounted
<1>1. IInv => ResetAccounted
  BY DEF IInv, Sound, ResetAccounted
<1> QED BY <1>1, Starts, Inductive, PTL DEF Spec
-----------------------------------------------------------------------------
(* Induction, and sums over a finite set.                                   *)

LEMMA BelowIsWellFounded ==
    \E R : IsWellFoundedOn(R, Nat) /\ \A x, y \in Nat : x < y => <<x, y>> \in R
<1>1. \A x, y \in Nat : x < y => <<x, y>> \in OpToRel(<, Nat)
  BY DEF OpToRel
<1> QED
  BY <1>1, NatLessThanWellFounded

\* Induction, for a set of numbers.
LEMMA CountingUp ==
    ASSUME NEW T, 0 \in T, \A n \in Nat : n \in T => n + 1 \in T
    PROVE  \A n \in Nat : n \in T
<1> SUFFICES ASSUME Nat \ T # {} PROVE FALSE
  OBVIOUS
<1>1. PICK R : IsWellFoundedOn(R, Nat) /\ \A x, y \in Nat : x < y => <<x, y>> \in R
  BY BelowIsWellFounded
<1>2. Nat \ T \subseteq Nat
  OBVIOUS
<1>3. PICK x \in Nat \ T : \A y \in Nat \ T : ~(<<y, x>> \in R)
  BY <1>1, <1>2, WFMin
<1>4. x # 0 /\ x \in Nat
  BY <1>3
<1>5. x - 1 \in Nat /\ x - 1 < x
  BY <1>4
<1>6. x - 1 \notin T
  BY <1>3, <1>5
<1>7. <<x - 1, x>> \in R
  BY <1>1, <1>4, <1>5
<1> QED
  BY <1>3, <1>5, <1>6, <1>7

LEMMA SizeInduction ==
    ASSUME NEW S, IsFiniteSet(S), NEW G, {} \in G,
           \A U \in SUBSET S : U # {} /\ (\A x \in U : U \ {x} \in G) => U \in G
    PROVE  S \in G
<1> DEFINE T == {n \in Nat : \A U \in SUBSET S : Cardinality(U) = n => U \in G}
<1>1. \A U \in SUBSET S : IsFiniteSet(U) /\ Cardinality(U) \in Nat
  BY FS_Subset, FS_CardinalityType
<1>2. 0 \in T
  BY <1>1, FS_EmptySet
<1>3. ASSUME NEW n \in Nat, n \in T PROVE n + 1 \in T
  <2> SUFFICES ASSUME NEW U \in SUBSET S, Cardinality(U) = n + 1 PROVE U \in G
    OBVIOUS
  <2>1. U # {}
    BY FS_EmptySet
  <2>2. ASSUME NEW x \in U PROVE U \ {x} \in G
    <3>1. Cardinality(U \ {x}) = Cardinality(U) - 1
      BY <1>1, FS_RemoveElement
    <3>2. Cardinality(U \ {x}) = n
      BY <3>1
    <3> QED
      BY <1>3, <3>2
  <2> QED
    BY <2>1, <2>2
<1>4. \A n \in Nat : n \in T
  <2> HIDE DEF T
  <2> QED BY <1>2, <1>3, CountingUp
<1> QED
  BY <1>1, <1>4

\* The sum that Spent is: over a finite set, of what b has more than a.
Added(a, b, S) == MapThenSumSet(LAMBDA s : b[s] - a[s], S)

LEMMA AddedFact ==
    ASSUME NEW S, IsFiniteSet(S), NEW a \in [S -> Int], NEW b \in [S -> Int]
    PROVE  Added(a, b, S) \in Int
<1> DEFINE Pick1(U) == CHOOSE x \in U : TRUE
           B(sum, U) == IF U = {} THEN 0 ELSE (b[Pick1(U)] - a[Pick1(U)]) + sum[U \ {Pick1(U)}]
           D(n) == {U \in SUBSET S : Cardinality(U) <= n}
           T == {n \in Nat : \E sum : sum = [U \in D(n) |-> B(sum, U)]}
<1>1. \A U \in SUBSET S : IsFiniteSet(U) /\ Cardinality(U) \in Nat
  BY FS_Subset, FS_CardinalityType
<1>2. \A U \in SUBSET S : U # {} =>
        /\ Pick1(U) \in U /\ U \ {Pick1(U)} \in SUBSET S
        /\ Cardinality(U \ {Pick1(U)}) = Cardinality(U) - 1
  <2> SUFFICES ASSUME NEW U \in SUBSET S, U # {}
               PROVE  /\ Pick1(U) \in U /\ U \ {Pick1(U)} \in SUBSET S
                      /\ Cardinality(U \ {Pick1(U)}) = Cardinality(U) - 1
    OBVIOUS
  <2>1. Pick1(U) \in U
    OBVIOUS
  <2> HIDE DEF Pick1
  <2> QED
    BY <1>1, <2>1, FS_RemoveElement
<1>3. 0 \in T
  <2> DEFINE zero == [U \in D(0) |-> 0]
  <2>1. \A U \in D(0) : U = {}
    <3>1. ASSUME NEW U \in D(0) PROVE Cardinality(U) = 0 /\ IsFiniteSet(U)
      BY <1>1
    <3> HIDE DEF D
    <3> QED BY <3>1, FS_EmptySet
  <2>2. \A U \in D(0) : B(zero, U) = 0
    <3> HIDE DEF D, zero
    <3> QED BY <2>1
  <2>3. zero = [U \in D(0) |-> B(zero, U)]
    <3> HIDE DEF D, B
    <3> QED BY <2>2
  <2>4. \E sum : sum = [U \in D(0) |-> B(sum, U)]
    <3> HIDE DEF D, B, zero
    <3> QED BY <2>3
  <2> HIDE DEF B, D
  <2> QED
    BY <2>4
<1>4. ASSUME NEW n \in Nat, n \in T PROVE n + 1 \in T
  <2>1. PICK sum : sum = [U \in D(n) |-> B(sum, U)]
    BY <1>4
  <2> DEFINE new == [U \in D(n + 1) |-> B(sum, U)]
  <2>2. \A U \in D(n) : U \in D(n + 1)
    BY <1>1
  <2>3. \A U \in D(n) : new[U] = sum[U]
    <3> HIDE DEF B, D
    <3> QED BY <2>1, <2>2
  <2>4. ASSUME NEW U \in D(n + 1) PROVE B(new, U) = B(sum, U)
    <3>1. CASE U = {}
      BY <3>1
    <3>2. CASE U # {}
      <4>1. U \ {Pick1(U)} \in D(n)
        <5>1. Cardinality(U \ {Pick1(U)}) = Cardinality(U) - 1 /\ U \ {Pick1(U)} \in SUBSET S
          <6> HIDE DEF Pick1
          <6> QED BY <1>2, <3>2
        <5>2. Cardinality(U) <= n + 1 /\ Cardinality(U) \in Nat
          BY <1>1
        <5> HIDE DEF Pick1
        <5> QED BY <5>1, <5>2
      <4>2. new[U \ {Pick1(U)}] = sum[U \ {Pick1(U)}]
        <5> HIDE DEF new, D, Pick1
        <5> QED BY <2>3, <4>1
      <4> HIDE DEF new, Pick1, D
      <4> QED BY <3>2, <4>2
    <3> QED
      BY <3>1, <3>2
  <2>5. new = [U \in D(n + 1) |-> B(new, U)]
    <3> HIDE DEF B, D
    <3> QED BY <2>4
  <2>6. \E f : f = [U \in D(n + 1) |-> B(f, U)]
    <3> HIDE DEF B, D, new
    <3> QED BY <2>5
  <2> HIDE DEF B, D
  <2> QED
    BY <2>6
<1>5. \A n \in Nat : n \in T
  <2> HIDE DEF T
  <2> QED BY <1>3, <1>4, CountingUp
<1>6. D(Cardinality(S)) = SUBSET S
  BY <1>1, FS_Subset
<1>7. \E sum : sum = [U \in SUBSET S |-> B(sum, U)]
  <2>1. Cardinality(S) \in Nat
    BY FS_CardinalityType
  <2> HIDE DEF B, D
  <2> QED BY <1>5, <1>6, <2>1
<1> DEFINE sums == CHOOSE sum : sum = [U \in SUBSET S |-> B(sum, U)]
<1>8. Added(a, b, S) = sums[S]
  BY Zenon DEF Added, MapThenSumSet, MapThenFoldSet
<1>9. sums = [U \in SUBSET S |-> B(sums, U)]
  <2> HIDE DEF B
  <2> QED BY <1>7
<1> DEFINE G == {U \in SUBSET S : sums[U] \in Int}
<1>10. \A U \in SUBSET S : sums[U] = B(sums, U)
  <2> HIDE DEF B, sums
  <2> QED BY <1>9
<1> HIDE DEF sums
<1>11. {} \in G
  <2>1. {} \in SUBSET S /\ B(sums, {}) = 0
    OBVIOUS
  <2>2. sums[{}] = 0
    <3> HIDE DEF B
    <3> QED BY <1>10, <2>1
  <2> QED
    BY <2>1, <2>2
<1>12. ASSUME NEW U \in SUBSET S, U # {}, \A x \in U : U \ {x} \in G PROVE U \in G
  <2>1. Pick1(U) \in U /\ U \ {Pick1(U)} \in G
    <3>1. Pick1(U) \in U
      BY <1>2, <1>12
    <3> HIDE DEF G, Pick1
    <3> QED BY <1>12, <3>1
  <2>2. sums[U \ {Pick1(U)}] \in Int
    BY <2>1
  <2>3. Pick1(U) \in S
    BY <2>1
  <2>4. sums[U] = (b[Pick1(U)] - a[Pick1(U)]) + sums[U \ {Pick1(U)}]
    BY <1>10, <1>12
  <2>5. sums[U] \in Int
    <3>1. a[Pick1(U)] \in Int /\ b[Pick1(U)] \in Int
      <4> HIDE DEF Pick1
      <4> QED BY <2>3
    <3> HIDE DEF Pick1
    <3> QED BY <2>2, <2>4, <3>1
  <2> QED
    BY <2>5
<1>13. S \in G
  <2> HIDE DEF G
  <2> QED BY <1>11, <1>12, SizeInduction
<1> QED
  BY <1>8, <1>13
-----------------------------------------------------------------------------
(* The experience table: what CBMDP_GetOldTarget climbs to.                 *)

\* The table, as far as it has been read from the level t.
Column(n) == (n + 1) % (MaxByte + 1)
ClimbsTo(t, n, xp) ==
    n # 0 =>
      /\ n \in t..MaxByte
      /\ \A m \in (t + 1)..n : Met(m, xp)
      /\ rules.next[Column(n)] # Bad /\ ~Met(Column(n), xp)

Climb(climb, t, xp) ==
    LET column == (t + 1) % (MaxByte + 1)
        cell == rules.next[column]
    IN  IF cell = Bad THEN 0
        ELSE IF ~Reaches(cell, xp) THEN t
        ELSE IF column = 0 THEN 0
        ELSE climb[t + 1]

LEMMA ColumnFact ==
    ASSUME NEW t \in Levels
    PROVE  /\ Column(t) \in Levels
           /\ t < MaxByte => Column(t) = t + 1
           /\ t = MaxByte => Column(t) = 0
<1>1. MaxByte \in Nat \ {0} /\ t \in 0..MaxByte
  BY ByteAssumption DEF Levels
<1>2. CASE t < MaxByte
  <2>1. (t + 1) % (MaxByte + 1) = t + 1
    BY <1>1, <1>2
  <2> QED
    BY <1>1, <1>2, <2>1 DEF Column, Levels
<1>3. CASE t = MaxByte
  <2>1. (t + 1) % (MaxByte + 1) = 0
    BY <1>1, <1>3
  <2> QED
    BY <1>1, <1>3, <2>1 DEF Column, Levels
<1> QED
  BY <1>1, <1>2, <1>3

\* The climb exists, from the last level down.
LEMMA ClimbDefined ==
    ASSUME NEW xp
    PROVE  \E climb : /\ climb = [t \in Levels |-> Climb(climb, t, xp)]
                      /\ \A prior : OldTarget(prior, xp) = climb[prior]
<1> DEFINE D(n) == {t \in Levels : t + n >= MaxByte}
           T == {n \in Nat : \E climb : climb = [t \in D(n) |-> Climb(climb, t, xp)]}
<1>1. MaxByte \in Nat \ {0} /\ Levels = 0..MaxByte
  BY ByteAssumption DEF Levels
\* A level needs the next one at most.
<1>2. ASSUME NEW n \in Nat, NEW t \in D(n + 1), NEW f, NEW g, \A u \in D(n) : f[u] = g[u]
      PROVE  Climb(f, t, xp) = Climb(g, t, xp)
  <2>1. CASE t < MaxByte
    <3>1. t + 1 \in D(n)
      BY <1>1, <2>1
    <3>2. f[t + 1] = g[t + 1]
      <4> HIDE DEF D
      <4> QED BY <1>2, <3>1
    <3> QED
      BY <3>2 DEF Climb
  <2>2. CASE t >= MaxByte
    <3>1. (t + 1) % (MaxByte + 1) = 0
      <4>1. t = MaxByte /\ t \in Levels
        BY <1>1, <2>2
      <4> QED
        BY <4>1, ColumnFact DEF Column
    <3> QED
      BY <3>1 DEF Climb
  <2> QED
    BY <1>1, <2>1, <2>2
<1>3. 0 \in T
  <2> DEFINE none == [t \in D(0) |-> 0]
             top == [t \in D(0) |-> Climb(none, t, xp)]
  <2>1. ASSUME NEW t \in D(0) PROVE Climb(top, t, xp) = Climb(none, t, xp)
    <3>1. t = MaxByte /\ t \in Levels
      BY <1>1
    <3>2. (t + 1) % (MaxByte + 1) = 0
      BY <3>1, ColumnFact DEF Column
    <3> HIDE DEF top, none
    <3> QED
      BY <3>2 DEF Climb
  <2>2. top = [t \in D(0) |-> Climb(top, t, xp)]
    <3> HIDE DEF D, none
    <3> QED BY <2>1
  <2>3. \E f : f = [t \in D(0) |-> Climb(f, t, xp)]
    <3> HIDE DEF D, top
    <3> QED BY <2>2
  <2> HIDE DEF D
  <2> QED
    BY <2>3
<1>4. ASSUME NEW n \in Nat, n \in T PROVE n + 1 \in T
  <2>1. PICK f : f = [t \in D(n) |-> Climb(f, t, xp)]
    BY <1>4
  <2> DEFINE new == [t \in D(n + 1) |-> Climb(f, t, xp)]
  <2>2. \A t \in D(n) : t \in D(n + 1)
    BY <1>1
  <2>3. \A t \in D(n) : new[t] = f[t]
    <3> HIDE DEF D
    <3> QED BY <2>1, <2>2
  <2>4. \A t \in D(n + 1) : Climb(new, t, xp) = Climb(f, t, xp)
    <3> HIDE DEF D, new
    <3> QED BY <1>2, <2>3
  <2>5. new = [t \in D(n + 1) |-> Climb(new, t, xp)]
    <3> HIDE DEF D
    <3> QED BY <2>4
  <2>6. \E g : g = [t \in D(n + 1) |-> Climb(g, t, xp)]
    <3> HIDE DEF D, new
    <3> QED BY <2>5
  <2> HIDE DEF D
  <2> QED
    BY <2>6
<1>5. \A n \in Nat : n \in T
  <2> HIDE DEF T
  <2> QED BY <1>3, <1>4, CountingUp
<1>6. D(MaxByte) = Levels
  BY <1>1
<1>7. \E f : f = [t \in Levels |-> Climb(f, t, xp)]
  <2> HIDE DEF D
  <2> QED BY <1>1, <1>5, <1>6
<1> DEFINE climbing == CHOOSE f : f = [t \in Levels |-> Climb(f, t, xp)]
<1>8. climbing = [t \in Levels |-> Climb(climbing, t, xp)]
  BY <1>7
<1>9. \A prior : OldTarget(prior, xp) = climbing[prior]
  BY Zenon DEF OldTarget, Climb
<1> QED
  BY <1>8, <1>9

LEMMA TargetFact ==
    ASSUME rules \in RuleSets, NEW prior \in Levels, NEW xp \in Int
    PROVE  ClimbsTo(prior, OldTarget(prior, xp), xp)
<1>1. MaxByte \in Nat \ {0} /\ Levels = 0..MaxByte
  BY ByteAssumption DEF Levels
<1>2. \A n \in Levels : rules.next[n] = Bad \/ rules.next[n] \in Int
  BY RulesAssumption DEF Levels
<1>3. PICK climb : /\ climb = [t \in Levels |-> Climb(climb, t, xp)]
                   /\ OldTarget(prior, xp) = climb[prior]
  BY ClimbDefined
<1> DEFINE T == {n \in Nat : \A t \in Levels : t + n = MaxByte => ClimbsTo(t, climb[t], xp)}
<1>4. ASSUME NEW t \in Levels, t < MaxByte => ClimbsTo(t + 1, climb[t + 1], xp)
      PROVE  ClimbsTo(t, climb[t], xp)
  <2> DEFINE cell == rules.next[Column(t)]
  <2>1. climb[t] = IF cell = Bad THEN 0
                   ELSE IF ~Reaches(cell, xp) THEN t
                   ELSE IF Column(t) = 0 THEN 0
                   ELSE climb[t + 1]
    <3>1. climb[t] = Climb(climb, t, xp)
      BY <1>3
    <3> QED
      BY <3>1 DEF Climb, Column
  <2>2. Column(t) \in Levels /\ (cell = Bad \/ cell \in Int)
    BY <1>2, ColumnFact
  <2>3. cell # Bad => (Met(Column(t), xp) <=> Reaches(cell, xp))
    BY <2>2, WordAssumption DEF Met, Reaches, Unsigned
  <2>4. CASE cell = Bad
    BY <2>1, <2>4 DEF ClimbsTo
  <2>5. CASE cell # Bad /\ ~Reaches(cell, xp)
    <3>1. climb[t] = t /\ ~Met(Column(t), xp)
      BY <2>1, <2>3, <2>5
    <3>2. (t + 1)..t = {} /\ t \in t..MaxByte
      BY <1>1
    <3> QED
      BY <2>5, <3>1, <3>2 DEF ClimbsTo
  <2>6. CASE cell # Bad /\ Reaches(cell, xp) /\ Column(t) = 0
    BY <2>1, <2>6 DEF ClimbsTo
  <2>7. CASE cell # Bad /\ Reaches(cell, xp) /\ Column(t) # 0
    <3>1. t < MaxByte /\ Column(t) = t + 1
      BY <1>1, <2>7, ColumnFact
    <3>2. climb[t] = climb[t + 1] /\ Met(t + 1, xp)
      BY <2>1, <2>3, <2>7, <3>1
    <3>3. PICK x : x = climb[t + 1]
      OBVIOUS
    <3>4. ClimbsTo(t + 1, x, xp)
      BY <1>4, <3>1, <3>3
    <3>5. ASSUME x # 0 PROVE ClimbsTo(t, x, xp)
      <4>1. /\ x \in (t + 1)..MaxByte
            /\ \A m \in ((t + 1) + 1)..x : Met(m, xp)
            /\ rules.next[Column(x)] # Bad /\ ~Met(Column(x), xp)
        BY <3>4, <3>5 DEF ClimbsTo
      <4>2. ASSUME NEW m \in (t + 1)..x PROVE Met(m, xp)
        <5>1. m = t + 1 \/ m \in ((t + 1) + 1)..x
          BY <1>1, <4>1
        <5> QED
          BY <3>2, <4>1, <5>1
      <4>3. x \in t..MaxByte
        BY <1>1, <4>1
      <4> QED
        BY <4>1, <4>2, <4>3 DEF ClimbsTo
    <3>6. ClimbsTo(t, x, xp)
      BY <3>5 DEF ClimbsTo
    <3> QED
      BY <3>2, <3>3, <3>6
  <2> QED
    BY <2>4, <2>5, <2>6, <2>7
<1>5. 0 \in T
  <2> SUFFICES ASSUME NEW t \in Levels, t + 0 = MaxByte PROVE ClimbsTo(t, climb[t], xp)
    OBVIOUS
  <2>1. ~(t < MaxByte)
    BY <1>1
  <2> QED
    BY <1>4, <2>1
<1>6. ASSUME NEW n \in Nat, n \in T PROVE n + 1 \in T
  <2> SUFFICES ASSUME NEW t \in Levels, t + (n + 1) = MaxByte PROVE ClimbsTo(t, climb[t], xp)
    OBVIOUS
  <2>1. t + 1 \in Levels /\ (t + 1) + n = MaxByte
    BY <1>1
  <2>2. ClimbsTo(t + 1, climb[t + 1], xp)
    BY <1>6, <2>1
  <2> QED
    BY <1>4, <2>2
<1>7. \A n \in Nat : n \in T
  <2> HIDE DEF T
  <2> QED BY <1>5, <1>6, CountingUp
<1>8. MaxByte - prior \in Nat /\ prior + (MaxByte - prior) = MaxByte
  BY <1>1
<1>9. ClimbsTo(prior, climb[prior], xp)
  BY <1>7, <1>8
<1> QED
  BY <1>3, <1>9
-----------------------------------------------------------------------------
(* What an interval of levels gives.                                        *)

Past(f, l) == Cardinality({n \in 2..l : n >= f})

LEMMA PastFact ==
    ASSUME NEW f \in Int, NEW b \in Nat \ {0}, NEW t \in Nat, b <= t
    PROVE  /\ Past(f, b) \in Nat /\ Past(f, t) \in Nat /\ Since(f, b, t) \in Nat
           /\ Past(f, t) = Past(f, b) + Since(f, b, t)
<1> DEFINE first == IF f < 2 THEN 2 ELSE f
           Size2(l) == IF first > l THEN 0 ELSE l - first + 1
<1>1. ASSUME NEW l \in Nat PROVE Past(f, l) = Size2(l)
  <2>1. {n \in 2..l : n >= f} = first..l
    OBVIOUS
  <2>2. Cardinality(first..l) = Size2(l)
    BY FS_Interval
  <2> QED
    BY <2>1, <2>2 DEF Past
<1> QED
  BY <1>1 DEF Since

LEMMA HalvesFact ==
    ASSUME NEW n \in Nat, NEW h \in Int
    PROVE  /\ Term(n, h) \in Int
           /\ h % 2 = 0 => 2 * Term(n, h) = h * n
<1> DEFINE p == n * h
           q == (-n) * h
<1>1. p \in Int /\ q \in Int /\ q = -p
  OBVIOUS
<1>2. Term(n, h) = IF p < 0 THEN -(q \div 2) ELSE p \div 2
  BY DEF Term
<1>3. ASSUME h % 2 = 0 PROVE p % 2 = 0
  <2>1. PICK k \in Int : h = 2 * k
    BY <1>3
  <2>2. p = 2 * (n * k) /\ n * k \in Int
    BY <2>1
  <2> HIDE DEF p
  <2> QED
    BY <2>2
<1>4. h * n = p
  OBVIOUS
<1> HIDE DEF p, q
<1> QED
  BY <1>1, <1>2, <1>3, <1>4

LEMMA SharesFact ==
    ASSUME NEW p \in Int, NEW x \in Int, NEW y \in Int
    PROVE  p * x + p * y = p * (x + y)
OBVIOUS

LEMMA QuotientFact ==
    ASSUME NEW n \in Nat, NEW r \in Nat \ {0}
    PROVE  n \div r \in Int
OBVIOUS

\* What the screens have given an old class of level l.
Given(l) ==
    /\ gained.picks = (l \div rules.rate) - (1 \div rules.rate)
    /\ gained.points = rules.per_level * (l - 1)
    /\ \A n \in Levels : gained.rolls[n] = IF n \in 2..l THEN 1 ELSE 0
    /\ Whole => 2 * gained.abilities =
           rules.hla.rate * Past(rules.hla.first, l)
             + (rules.hla.new_rate - rules.hla.rate) * Past(rules.hla.change, l)

Totals == [picks : Int, points : Int, abilities : Int, rolls : [Levels -> Int]]

RuleTypes ==
    /\ rules.rate \in Nat \ {0} /\ rules.per_level \in Nat
    /\ rules.hla.first \in Int /\ rules.hla.rate \in Int
    /\ rules.hla.change \in Int /\ rules.hla.new_rate \in Int

LEMMA RuleTypesFact == rules \in RuleSets => RuleTypes
BY RulesAssumption DEF RuleTypes

LEMMA IntervalFact ==
    ASSUME RuleTypes, NEW b \in Nat \ {0}, NEW t \in Nat, b <= t
    PROVE  /\ Slots(b, t) = (t \div rules.rate) - (b \div rules.rate) /\ Slots(b, t) \in Int
           /\ SkillBudget(b, t) = rules.per_level * (t - b) /\ SkillBudget(b, t) \in Int
           /\ Uncapped(b, t) \in Int
           /\ Whole => 2 * Uncapped(b, t) =
                  rules.hla.rate * Since(rules.hla.first, b, t)
                    + (rules.hla.new_rate - rules.hla.rate) * Since(rules.hla.change, b, t)
<1>1. Slots(b, t) = (t \div rules.rate) - (b \div rules.rate)
  BY DEF Slots
<1>2. t \div rules.rate \in Int /\ b \div rules.rate \in Int
  BY QuotientFact DEF RuleTypes
<1>3. SkillBudget(b, t) = rules.per_level * (t - b) /\ SkillBudget(b, t) \in Int
  BY DEF SkillBudget, RuleTypes
<1> DEFINE h == rules.hla
           x == Since(h.first, b, t)
           y == Since(h.change, b, t)
           d == h.new_rate - h.rate
<1>4. h.rate \in Int /\ d \in Int /\ h.first \in Int /\ h.change \in Int /\ h.new_rate \in Int
  BY DEF RuleTypes
<1>5. x \in Nat /\ y \in Nat
  BY <1>4, PastFact
<1>6. Uncapped(b, t) = Term(x, h.rate) + Term(y, d)
  BY DEF Uncapped
<1>7. Whole => h.rate % 2 = 0 /\ d % 2 = 0
  <2>1. Whole => h.rate % 2 = 0 /\ h.new_rate % 2 = 0
    BY DEF Whole
  <2> QED
    BY <1>4, <2>1
<1> HIDE DEF h, x, y, d
<1>8. /\ Term(x, h.rate) \in Int /\ Term(y, d) \in Int
      /\ Whole => 2 * Term(x, h.rate) = h.rate * x /\ 2 * Term(y, d) = d * y
  BY <1>4, <1>5, <1>7, HalvesFact
<1>9. /\ Uncapped(b, t) \in Int
      /\ Whole => 2 * Uncapped(b, t) = h.rate * x + d * y
  BY <1>4, <1>5, <1>6, <1>8
<1> QED
  BY <1>1, <1>2, <1>3, <1>9 DEF h, x, y, d
-----------------------------------------------------------------------------
(* The invariant of the catch-up.                                           *)

SkillRows == [Skills -> Int]
OldClass == [level : 1..MaxByte, xp : Nat, skills : SkillRows]
Plans == [stage : {"none", "preparing", "preview", "failed"}, xp : Int, before : Levels,
          target : Levels, picks : Int, points : Int, abilities : Int, bound : BOOLEAN,
          asked : BOOLEAN, applied : BOOLEAN, from : SkillRows, selected : SkillRows,
          unused : Int, rolls : SUBSET Levels]

RulesTyped ==
    /\ rules \in RuleSets
    /\ old \in OldClass
    /\ plan \in Plans
    /\ gained \in Totals

\* A plan is that of the level and the experience the screen opened with.
Planned(p) ==
    /\ p.before \in 1..MaxByte /\ p.target \in p.before..MaxByte
    /\ p.target = OldTarget(p.before, p.xp) /\ ClimbsTo(p.before, p.target, p.xp)
    /\ p.picks = Slots(p.before, p.target) /\ p.points = SkillBudget(p.before, p.target)
    /\ p.abilities = Uncapped(p.before, p.target) /\ p.rolls = Rolls(p.before, p.target)

Taken(p) == Added(p.from, p.selected, Skills)

\* What the game has been told of it: the level with the first question, and
\* with it the skills.
Answered(p, o) ==
    /\ o.level = IF p.asked THEN p.target ELSE p.before
    /\ p.bound /\ p.asked => p.applied
    /\ p.applied => /\ p.asked
                    /\ Taken(p) <= p.points /\ p.unused = p.points - Taken(p)
                    /\ o.skills = p.selected
    /\ p.stage = "preview" => p.asked

RulesInv ==
    /\ RulesTyped
    /\ plan.stage = "none" => plan = NoPlan /\ Given(old.level)
    /\ plan.stage # "none" => Given(plan.before) /\ Planned(plan) /\ Answered(plan, old)

LEMMA TakenFact == ASSUME NEW p \in Plans PROVE Taken(p) \in Int
<1>1. p.from \in [Skills -> Int] /\ p.selected \in [Skills -> Int] /\ IsFiniteSet(Skills)
  BY ByteAssumption DEF Plans, SkillRows
<1> QED
  BY <1>1, AddedFact DEF Taken

LEMMA SpentFact == Spent = Taken(plan)
BY DEF Spent, Taken, Added

LEMMA NoPlanFact == NoPlan \in Plans /\ NoPlan.stage = "none"
<1>1. 0 \in Levels /\ {} \in SUBSET Levels
  BY ByteAssumption DEF Levels
<1>2. [s \in Skills |-> 0] \in SkillRows
  BY DEF SkillRows
<1> DEFINE zero == [s \in Skills |-> 0]
           empty == {}
<1>3. NoPlan = [stage |-> "none", xp |-> 0, before |-> 0, target |-> 0, picks |-> 0, points |-> 0,
           abilities |-> 0, bound |-> FALSE, asked |-> FALSE, applied |-> FALSE, from |-> zero,
           selected |-> zero, unused |-> 0, rolls |-> empty]
  BY DEF NoPlan
<1>4. zero \in SkillRows /\ empty \in SUBSET Levels
  BY <1>1, <1>2
<1> HIDE DEF zero, empty
<1> QED
  BY <1>1, <1>3, <1>4 DEF Plans

LEMMA RulesStart == RulesInit => RulesInv
<1> SUFFICES ASSUME RulesInit PROVE RulesInv
  OBVIOUS
<1>1. /\ rules \in RuleSets /\ plan = NoPlan
      /\ old = [level |-> 1, xp |-> 0, skills |-> [s \in Skills |-> 0]]
      /\ gained = [picks |-> 0, points |-> 0, abilities |-> 0, rolls |-> [n \in Levels |-> 0]]
  BY DEF RulesInit
<1>2. RuleTypes /\ MaxByte \in Nat \ {0} /\ Levels = 0..MaxByte
  BY <1>1, RuleTypesFact, ByteAssumption DEF Levels
<1>3. [s \in Skills |-> 0] \in SkillRows /\ [n \in Levels |-> 0] \in [Levels -> Int]
  BY DEF SkillRows
<1>4. old \in OldClass /\ old.level = 1
  BY <1>1, <1>2, <1>3 DEF OldClass
<1>5. gained \in Totals
  BY <1>1, <1>3 DEF Totals
<1>6. Given(1)
  <2>1. \A f \in Int : Past(f, 1) = 0
    <3>1. ASSUME NEW f \in Int PROVE {n \in 2..1 : n >= f} = {}
      OBVIOUS
    <3> QED
      BY <3>1, FS_EmptySet DEF Past
  <2>2. /\ gained.picks = (1 \div rules.rate) - (1 \div rules.rate)
    <3>1. 1 \div rules.rate \in Int
      BY <1>2, QuotientFact DEF RuleTypes
    <3> QED
      BY <1>1, <3>1
  <2>3. gained.points = rules.per_level * (1 - 1)
    BY <1>1, <1>2 DEF RuleTypes
  <2>4. \A n \in Levels : gained.rolls[n] = IF n \in 2..1 THEN 1 ELSE 0
    BY <1>1
  <2>5. 2 * gained.abilities = rules.hla.rate * Past(rules.hla.first, 1)
             + (rules.hla.new_rate - rules.hla.rate) * Past(rules.hla.change, 1)
    BY <1>1, <1>2, <2>1 DEF RuleTypes
  <2> QED
    BY <2>2, <2>3, <2>4, <2>5 DEF Given
<1> QED
  BY <1>1, <1>4, <1>5, <1>6, NoPlanFact DEF RulesInv, RulesTyped

SamePlan(p, q) ==
    /\ q.before = p.before /\ q.target = p.target /\ q.xp = p.xp
    /\ q.picks = p.picks /\ q.points = p.points
    /\ q.abilities = p.abilities /\ q.rolls = p.rolls

\* A step of an open screen that keeps what it was opened with.
LEMMA ScreenKeeps ==
    ASSUME RulesInv, UNCHANGED <<rules, gained>>, plan.stage # "none",
           plan' \in Plans, plan'.stage # "none", SamePlan(plan, plan'),
           old' \in OldClass, Answered(plan', old')
    PROVE  RulesInv'
<1>1. Given(plan.before)'
  <2>1. Given(plan.before) /\ plan'.before = plan.before
    BY DEF RulesInv, SamePlan
  <2> QED
    BY <2>1 DEF Given, Whole
<1>2. Planned(plan)'
  <2>1. Planned(plan)
    BY DEF RulesInv
  <2>2. OldTarget(plan.before, plan.xp)' = OldTarget(plan.before, plan.xp)
    BY Zenon DEF OldTarget, SamePlan
  <2>3. ClimbsTo(plan.before, plan.target, plan.xp)' = ClimbsTo(plan.before, plan.target, plan.xp)
    BY DEF ClimbsTo, Met, SamePlan
  <2>4. /\ Slots(plan.before, plan.target)' = Slots(plan.before, plan.target)
        /\ SkillBudget(plan.before, plan.target)' = SkillBudget(plan.before, plan.target)
        /\ Uncapped(plan.before, plan.target)' = Uncapped(plan.before, plan.target)
        /\ Rolls(plan.before, plan.target)' = Rolls(plan.before, plan.target)
    BY DEF Slots, SkillBudget, Uncapped, Rolls, SamePlan
  <2> QED
    BY <2>1, <2>2, <2>3, <2>4 DEF Planned, SamePlan
<1>3. RulesTyped'
  BY DEF RulesInv, RulesTyped
<1>4. Answered(plan, old)'
  BY DEF Answered
<1> QED
  BY <1>1, <1>2, <1>3, <1>4 DEF RulesInv

\* A step between screens, or one that puts the level back.
LEMMA ClosedKeeps ==
    ASSUME RulesInv, UNCHANGED <<rules, gained>>, plan' = NoPlan,
           old' \in OldClass, Given(old'.level)
    PROVE  RulesInv'
<1>1. Given(old.level)'
  BY DEF Given, Whole
<1>2. RulesTyped'
  BY NoPlanFact DEF RulesInv, RulesTyped
<1> QED
  BY <1>1, <1>2, NoPlanFact DEF RulesInv

LEMMA RulesParts ==
    ASSUME RulesInv
    PROVE  /\ rules \in RuleSets /\ RuleTypes /\ old \in OldClass /\ plan \in Plans /\ gained \in Totals
           /\ old.level \in 1..MaxByte /\ old.xp \in Nat /\ old.skills \in [Skills -> Int]
           /\ MaxByte \in Nat \ {0} /\ Levels = 0..MaxByte
BY RuleTypesFact, ByteAssumption DEF RulesInv, RulesTyped, OldClass, SkillRows, Levels

LEMMA OpenKeeps ==
    ASSUME RulesInv, NEW native \in Levels, Open(native)
    PROVE  RulesInv'
<1> DEFINE before == old.level
           p == [NoPlan EXCEPT !.stage = "preparing", !.xp = old.xp, !.before = before,
                    !.target = native,
                    !.picks = Slots(before, native), !.points = SkillBudget(before, native),
                    !.abilities = Uncapped(before, native),
                    !.rolls = Rolls(before, native), !.from = old.skills]
<1>1. plan.stage = "none" /\ UNCHANGED <<rules, old, gained>> /\ plan' = IF answer' # Ok THEN NoPlan ELSE p
  BY Zenon DEF Open
<1>2. answer' = Answer(native)
  BY Zenon DEF Open
<1>3. Given(old.level)
  BY <1>1 DEF RulesInv
<1>4. CASE answer' # Ok
  BY <1>1, <1>3, <1>4, ClosedKeeps, NoPlanFact, RulesParts
<1>5. CASE answer' = Ok
  <2>1. native = OldTarget(before, old.xp) /\ native # 0
    BY <1>2, <1>5 DEF Answer, Ok
  <2>2. ClimbsTo(before, native, old.xp)
    BY <2>1, TargetFact, RulesParts
  <2>3. native \in before..MaxByte /\ before \in 1..MaxByte /\ before \in Levels
    BY <2>1, <2>2, RulesParts DEF ClimbsTo
  <2>4. /\ Slots(before, native) \in Int /\ SkillBudget(before, native) \in Int
        /\ Uncapped(before, native) \in Int
    <3>1. before \in Nat \ {0} /\ native \in Nat /\ before <= native
      BY <2>3, RulesParts
    <3>2. RuleTypes
      BY RulesParts
    <3> HIDE DEF before
    <3> QED
      BY <3>1, <3>2, IntervalFact
  <2>5. Rolls(before, native) \in SUBSET Levels
    BY <2>3, RulesParts DEF Rolls
  <2> DEFINE picks == Slots(before, native)
             points == SkillBudget(before, native)
             abilities == Uncapped(before, native)
             rolls == Rolls(before, native)
  <2>6. old.skills \in SkillRows /\ old.xp \in Int
    BY RulesParts DEF SkillRows
  <2>7. plan' = p
    BY <1>1, <1>5
  <2>8. /\ picks \in Int /\ points \in Int /\ abilities \in Int /\ rolls \in SUBSET Levels
    BY <2>4, <2>5
  <2>9. before \in Levels /\ native \in Levels
    BY <2>3
  <2>10. p = [NoPlan EXCEPT !.stage = "preparing", !.xp = old.xp, !.before = before,
                    !.target = native, !.picks = picks, !.points = points,
                    !.abilities = abilities, !.rolls = rolls, !.from = old.skills]
    OBVIOUS
  <2>11. ~NoPlan.asked /\ ~NoPlan.applied /\ NoPlan \in Plans
    BY NoPlanFact DEF NoPlan
  <2> HIDE DEF p, before, picks, points, abilities, rolls
  <2>12. p \in Plans
    BY <2>9, <2>8, <2>10, <2>11, <2>6 DEF Plans
  <2>13. /\ p.before = before /\ p.target = native /\ p.xp = old.xp /\ p.picks = picks
         /\ p.points = points /\ p.abilities = abilities /\ p.rolls = rolls
         /\ ~p.asked /\ ~p.applied /\ p.stage = "preparing"
    BY <2>10, <2>11 DEF Plans
  <2>14. Planned(plan)'
    <3>a. plan'.before = before /\ plan'.xp = old.xp /\ rules' = rules
      BY <1>1, <2>7, <2>13
    <3>1. OldTarget(plan.before, plan.xp)' = OldTarget(before, old.xp)
      BY <3>a, ZenonT(60) DEF OldTarget
    <3>2. ClimbsTo(plan.before, plan.target, plan.xp)' = ClimbsTo(before, native, old.xp)
      BY <1>1, <2>7, <2>13 DEF ClimbsTo, Met
    <3>3. /\ Slots(plan.before, plan.target)' = picks
          /\ SkillBudget(plan.before, plan.target)' = points
          /\ Uncapped(plan.before, plan.target)' = abilities
          /\ Rolls(plan.before, plan.target)' = rolls
      BY <1>1, <2>7, <2>13
         DEF Slots, SkillBudget, Uncapped, Rolls, picks, points, abilities, rolls
    <3> QED
      BY <2>1, <2>2, <2>3, <2>7, <2>13, <3>1, <3>2, <3>3 DEF Planned
  <2>15. Given(plan.before)'
    <3>1. plan'.before = old.level
      BY <2>7, <2>13 DEF before
    <3> QED
      BY <1>1, <1>3, <3>1 DEF Given, Whole
  <2>16. Answered(plan, old)'
    BY <1>1, <2>7, <2>13 DEF Answered, before
  <2>17. RulesTyped'
    BY <1>1, <2>7, <2>12 DEF RulesInv, RulesTyped
  <2> QED
    BY <2>7, <2>13, <2>14, <2>15, <2>16, <2>17 DEF RulesInv
<1> QED
  BY <1>4, <1>5

\* The parts of the invariant of an open screen.
LEMMA ScreenParts ==
    ASSUME RulesInv, plan.stage # "none"
    PROVE  Given(plan.before) /\ Planned(plan) /\ Answered(plan, old)
BY DEF RulesInv

LEMMA EarnKeeps == RulesInv /\ Earn => RulesInv'
<1> SUFFICES ASSUME RulesInv, Earn PROVE RulesInv'
  OBVIOUS
<1>1. /\ plan.stage = "none" /\ plan = NoPlan /\ UNCHANGED <<rules, plan, gained>>
      /\ old' = [old EXCEPT !.xp = @ + 1]
  BY DEF Earn, RulesInv
<1>2. old' \in OldClass /\ old'.level = old.level
  BY <1>1, RulesParts DEF OldClass
<1>3. Given(old'.level)
  BY <1>1, <1>2 DEF RulesInv
<1> QED
  BY <1>1, <1>2, <1>3, ClosedKeeps, RulesParts

LEMMA PatchKeeps == RulesInv /\ HotPatch => RulesInv'
<1> SUFFICES ASSUME RulesInv, HotPatch PROVE RulesInv'
  OBVIOUS
<1>1. UNCHANGED <<rules, old, plan, gained>>
  BY DEF HotPatch
<1>2. CASE plan.stage = "none"
  <2>1. Given(old'.level) /\ plan' = NoPlan
    BY <1>1, <1>2 DEF RulesInv
  <2> QED
    BY <1>1, <1>2, <2>1, ClosedKeeps, RulesParts
<1>3. CASE plan.stage # "none"
  <2>1. Answered(plan', old') /\ SamePlan(plan, plan')
    BY <1>1, <1>3, ScreenParts DEF SamePlan
  <2> QED
    BY <1>1, <1>3, <2>1, ScreenKeeps, RulesParts
<1> QED
  BY <1>2, <1>3

LEMMA DriftKeeps == RulesInv /\ SkillDrift => RulesInv'
<1> SUFFICES ASSUME RulesInv, SkillDrift PROVE RulesInv'
  OBVIOUS
<1>1. plan.stage = "preparing" /\ ~plan.applied /\ UNCHANGED <<rules, plan, gained>>
  BY DEF SkillDrift
<1>2. PICK s \in Skills : old' = [old EXCEPT !.skills[s] = @ + 1]
  BY DEF SkillDrift
<1>3. old' \in OldClass /\ old'.level = old.level
  BY <1>2, RulesParts DEF OldClass, SkillRows
<1>4. Answered(plan, old)
  BY <1>1, ScreenParts
<1>5. Answered(plan', old') /\ SamePlan(plan, plan')
  BY <1>1, <1>3, <1>4 DEF Answered, SamePlan
<1> QED
  BY <1>1, <1>3, <1>5, ScreenKeeps, RulesParts

LEMMA SelectKeeps ==
    ASSUME RulesInv, NEW selected \in [Skills -> 0..MaxSkill], SelectSkills(selected)
    PROVE  RulesInv'
<1>1. /\ plan.stage = "preparing" /\ ~plan.asked /\ UNCHANGED <<rules, old, gained>>
      /\ plan' = [plan EXCEPT !.bound = TRUE, !.selected = selected]
  BY DEF SelectSkills
<1>2. selected \in SkillRows
  BY ByteAssumption DEF SkillRows
<1>3. plan \in Plans /\ old \in OldClass
  BY RulesParts
<1>4. plan' \in Plans
  BY <1>1, <1>2, <1>3 DEF Plans
<1>5. SamePlan(plan, plan') /\ plan'.stage = "preparing" /\ ~plan'.asked /\ plan'.applied = plan.applied
  BY <1>1, <1>3 DEF Plans, SamePlan
<1>6. Answered(plan, old)
  BY <1>1, ScreenParts
<1>7. Answered(plan', old')
  BY <1>1, <1>5, <1>6 DEF Answered, SamePlan
<1> QED
  BY <1>1, <1>3, <1>4, <1>5, <1>7, ScreenKeeps

\* The first question applies what was bound, and only within the budget.
LEMMA LevelKeeps == RulesInv /\ NextLevel => RulesInv'
<1> SUFFICES ASSUME RulesInv, NextLevel PROVE RulesInv'
  OBVIOUS
<1> DEFINE first == plan.bound /\ ~plan.applied
<1>1. plan.stage = "preparing" /\ UNCHANGED <<rules, gained>>
  BY DEF NextLevel
<1>2. plan \in Plans /\ old \in OldClass /\ Answered(plan, old) /\ Planned(plan)
  BY <1>1, RulesParts, ScreenParts
<1>3. CASE answer' # Ok
  <2>1. plan' = [plan EXCEPT !.stage = "failed"] /\ UNCHANGED old
    BY <1>3, Zenon DEF NextLevel
  <2>2. plan' \in Plans
    BY <1>2, <2>1 DEF Plans
  <2>3. /\ SamePlan(plan, plan') /\ plan'.stage = "failed" /\ plan'.asked = plan.asked
        /\ plan'.applied = plan.applied /\ plan'.bound = plan.bound /\ plan'.unused = plan.unused
        /\ plan'.from = plan.from /\ plan'.selected = plan.selected
    BY <1>2, <2>1 DEF Plans, SamePlan
  <2>4. Answered(plan', old')
    BY <1>2, <2>1, <2>3 DEF Answered, SamePlan, Taken
  <2> QED
    BY <1>1, <1>2, <2>1, <2>2, <2>3, <2>4, ScreenKeeps
<1>4. CASE answer' = Ok
  <2>1. /\ old' = [old EXCEPT !.level = plan.target, !.skills = IF first THEN plan.selected ELSE @]
        /\ plan' = [plan EXCEPT !.asked = TRUE, !.applied = @ \/ first,
                                !.unused = IF first THEN plan.points - Spent ELSE @]
    BY <1>4, Zenon DEF NextLevel
  <2>2. first => SkillAnswer = Ok
    BY <1>4, Zenon DEF NextLevel, Ok
  <2>3. Spent \in Int /\ Spent = Taken(plan)
    BY <1>2, TakenFact, SpentFact
  <2>4. first => Taken(plan) <= plan.points
    <3> SUFFICES ASSUME first PROVE Taken(plan) <= plan.points
      OBVIOUS
    <3>1. old.level = plan.before
      BY <1>2 DEF Answered
    <3>2. OldTarget(old.level, plan.xp) = plan.target
      BY <1>2, <3>1 DEF Planned
    <3>3. ~(Spent > SkillBudget(old.level, OldTarget(old.level, plan.xp)))
      BY <2>2, Zenon DEF SkillAnswer, Ok
    <3>4. ~(Spent > plan.points) /\ plan.points \in Int
      BY <1>2, <3>1, <3>2, <3>3 DEF Planned, Plans
    <3> QED
      BY <2>3, <3>4
  <2>5. plan.target \in 1..MaxByte
    BY <1>2, RulesParts DEF Planned
  <2>6. old' \in OldClass /\ old'.level = plan.target /\ old'.skills = IF first THEN plan.selected ELSE old.skills
    BY <1>2, <2>1, <2>5 DEF OldClass, Plans
  <2>7. plan' \in Plans
    <3> DEFINE unused == IF first THEN plan.points - Spent ELSE plan.unused
               applied == plan.applied \/ first
    <3>1. unused \in Int /\ applied \in BOOLEAN
      BY <1>2, <2>3 DEF Plans
    <3>2. plan' = [plan EXCEPT !.asked = TRUE, !.applied = applied, !.unused = unused]
      BY <2>1
    <3> HIDE DEF unused, applied
    <3> QED
      BY <1>2, <3>1, <3>2 DEF Plans
  <2>8. /\ SamePlan(plan, plan') /\ plan'.stage = "preparing" /\ plan'.asked
        /\ plan'.applied = (plan.applied \/ first) /\ plan'.bound = plan.bound
        /\ plan'.unused = (IF first THEN plan.points - Spent ELSE plan.unused)
        /\ plan'.from = plan.from /\ plan'.selected = plan.selected
    BY <1>1, <1>2, <2>1 DEF Plans, SamePlan
  <2>9. Taken(plan') = Taken(plan)
    BY <2>8 DEF Taken
  <2>10. Answered(plan', old')
    <3>1. CASE first
      BY <2>3, <2>4, <2>6, <2>8, <2>9, <3>1 DEF Answered, SamePlan
    <3>2. CASE ~first
      BY <1>2, <2>6, <2>8, <2>9, <3>2 DEF Answered, SamePlan
    <3> QED
      BY <3>1, <3>2
  <2> QED
    BY <1>1, <2>6, <2>7, <2>8, <2>10, ScreenKeeps
<1> QED
  BY <1>3, <1>4

LEMMA HitPointsKeeps == RulesInv /\ HitPoints => RulesInv'
<1> SUFFICES ASSUME RulesInv, HitPoints PROVE RulesInv'
  OBVIOUS
<1> DEFINE stage == IF answer' = Ok THEN "preview" ELSE "failed"
<1>1. plan.stage = "preparing" /\ plan.asked /\ UNCHANGED <<rules, old, gained>>
      /\ plan' = [plan EXCEPT !.stage = stage]
  BY DEF HitPoints
<1>2. plan \in Plans /\ old \in OldClass /\ Answered(plan, old)
  BY <1>1, RulesParts, ScreenParts
<1>3. stage \in {"preview", "failed"}
  OBVIOUS
<1> HIDE DEF stage
<1>4. plan' \in Plans
  BY <1>1, <1>2, <1>3 DEF Plans
<1>5. /\ SamePlan(plan, plan') /\ plan'.stage # "none" /\ plan'.asked
      /\ plan'.applied = plan.applied /\ plan'.bound = plan.bound /\ plan'.unused = plan.unused
      /\ plan'.from = plan.from /\ plan'.selected = plan.selected
  BY <1>1, <1>2, <1>3 DEF Plans, SamePlan
<1>6. Taken(plan') = Taken(plan)
  BY <1>5 DEF Taken
<1>7. Answered(plan', old')
  BY <1>1, <1>2, <1>5, <1>6 DEF Answered, SamePlan
<1> QED
  BY <1>1, <1>2, <1>4, <1>5, <1>7, ScreenKeeps

LEMMA CancelRulesKeeps == RulesInv /\ Cancel => RulesInv'
<1> SUFFICES ASSUME RulesInv, Cancel PROVE RulesInv'
  OBVIOUS
<1>1. /\ plan.stage # "none" /\ UNCHANGED <<rules, gained>> /\ plan' = NoPlan
      /\ old' = [old EXCEPT !.level = plan.before, !.skills = IF plan.applied THEN plan.from ELSE @]
  BY DEF Cancel
<1>2. plan \in Plans /\ old \in OldClass /\ Planned(plan) /\ Given(plan.before)
  BY <1>1, RulesParts, ScreenParts
<1>3. old' \in OldClass /\ old'.level = plan.before
  BY <1>1, <1>2 DEF OldClass, Plans, Planned
<1>4. Given(old'.level)
  BY <1>2, <1>3
<1> QED
  BY <1>1, <1>3, <1>4, NoPlanFact, ClosedKeeps

\* A screen gives the difference between what its two levels are due.
LEMMA CommitRulesKeeps == RulesInv /\ Commit => RulesInv'
<1> SUFFICES ASSUME RulesInv, Commit PROVE RulesInv'
  OBVIOUS
<1> DEFINE b == plan.before
           t == plan.target
           g == gained
           rolls == [n \in Levels |-> g.rolls[n] + IF n \in plan.rolls THEN 1 ELSE 0]
<1>1. plan.stage # "none" /\ old.level = plan.target /\ UNCHANGED <<rules, old>> /\ plan' = NoPlan
  BY DEF Commit
<1>2. gained' = [picks |-> g.picks + plan.picks, points |-> g.points + plan.points,
                 abilities |-> g.abilities + plan.abilities, rolls |-> rolls]
  BY DEF Commit
<1>3. plan \in Plans /\ gained \in Totals /\ Planned(plan) /\ Given(b) /\ RuleTypes
  BY <1>1, RulesParts, ScreenParts
<1>4. MaxByte \in Nat \ {0} /\ Levels = 0..MaxByte
  BY RulesParts
<1>5. b \in Nat \ {0} /\ t \in Nat /\ b <= t
  BY <1>3, <1>4 DEF Planned
<1>6. /\ plan.picks = (t \div rules.rate) - (b \div rules.rate)
      /\ plan.points = rules.per_level * (t - b)
      /\ plan.abilities \in Int /\ plan.abilities = Uncapped(b, t)
      /\ Whole => 2 * plan.abilities =
                  rules.hla.rate * Since(rules.hla.first, b, t)
                    + (rules.hla.new_rate - rules.hla.rate) * Since(rules.hla.change, b, t)
      /\ plan.rolls = (b + 1)..t
  <2>1. /\ plan.picks = Slots(b, t) /\ plan.points = SkillBudget(b, t)
        /\ plan.abilities = Uncapped(b, t) /\ plan.rolls = (b + 1)..t /\ plan.abilities \in Int
    BY <1>3 DEF Planned, Rolls, Plans
  <2> HIDE DEF b, t
  <2> QED
    BY <1>3, <1>5, <2>1, IntervalFact
<1>7. /\ g.picks \in Int /\ g.points \in Int /\ g.abilities \in Int /\ g.rolls \in [Levels -> Int]
      /\ plan.picks \in Int /\ plan.points \in Int
  BY <1>3 DEF Totals, Plans
<1>8. gained' \in Totals
  <2>1. rolls \in [Levels -> Int]
    BY <1>7
  <2> HIDE DEF rolls
  <2> QED
    BY <1>2, <1>6, <1>7, <2>1 DEF Totals
<1>9. gained'.picks = (t \div rules.rate) - (1 \div rules.rate)
  <2>1. g.picks = (b \div rules.rate) - (1 \div rules.rate)
    BY <1>3 DEF Given
  <2>2. t \div rules.rate \in Int /\ b \div rules.rate \in Int /\ 1 \div rules.rate \in Int
    BY <1>3, <1>5, QuotientFact DEF RuleTypes
  <2> QED
    BY <1>2, <1>6, <2>1, <2>2
<1>10. gained'.points = rules.per_level * (t - 1)
  <2>1. g.points = rules.per_level * (b - 1)
    BY <1>3 DEF Given
  <2>2. rules.per_level * (b - 1) + rules.per_level * (t - b) = rules.per_level * ((b - 1) + (t - b))
    BY <1>3, <1>5, SharesFact DEF RuleTypes
  <2>3. (b - 1) + (t - b) = t - 1
    BY <1>5
  <2> QED
    BY <1>2, <1>6, <2>1, <2>2, <2>3
<1>11. ASSUME NEW n \in Levels PROVE gained'.rolls[n] = IF n \in 2..t THEN 1 ELSE 0
  <2>1. g.rolls[n] = IF n \in 2..b THEN 1 ELSE 0
    BY <1>3 DEF Given
  <2>2. gained'.rolls[n] = g.rolls[n] + IF n \in (b + 1)..t THEN 1 ELSE 0
    BY <1>2, <1>6
  <2>3. n \in Nat
    BY <1>4
  <2> QED
    BY <1>5, <2>1, <2>2, <2>3
<1>12. ASSUME Whole
       PROVE  2 * gained'.abilities =
                rules.hla.rate * Past(rules.hla.first, t)
                  + (rules.hla.new_rate - rules.hla.rate) * Past(rules.hla.change, t)
  <2> DEFINE p == rules.hla.rate
             q == rules.hla.new_rate - rules.hla.rate
             x1 == Past(rules.hla.first, b)
             x2 == Since(rules.hla.first, b, t)
             y1 == Past(rules.hla.change, b)
             y2 == Since(rules.hla.change, b, t)
  <2>1. 2 * g.abilities = p * x1 + q * y1
    BY <1>3, <1>12 DEF Given
  <2>2. 2 * plan.abilities = p * x2 + q * y2
    BY <1>6, <1>12
  <2>3. p \in Int /\ q \in Int /\ rules.hla.first \in Int /\ rules.hla.change \in Int
    BY <1>3 DEF RuleTypes
  <2>4. x1 \in Nat /\ x2 \in Nat /\ Past(rules.hla.first, t) = x1 + x2
    BY <1>5, <2>3, PastFact
  <2>5. y1 \in Nat /\ y2 \in Nat /\ Past(rules.hla.change, t) = y1 + y2
    BY <1>5, <2>3, PastFact
  <2>6. gained'.abilities = g.abilities + plan.abilities
    BY <1>2
  <2> HIDE DEF p, q, x1, x2, y1, y2
  <2>7. p * x1 + p * x2 = p * (x1 + x2) /\ q * y1 + q * y2 = q * (y1 + y2)
    BY <2>3, <2>4, <2>5, SharesFact
  <2>8. p * x1 \in Int /\ p * x2 \in Int /\ q * y1 \in Int /\ q * y2 \in Int
    BY <2>3, <2>4, <2>5
  <2>9. 2 * gained'.abilities = p * (x1 + x2) + q * (y1 + y2)
    <3> DEFINE px1 == p * x1
               px2 == p * x2
               qy1 == q * y1
               qy2 == q * y2
    <3>1. px1 \in Int /\ px2 \in Int /\ qy1 \in Int /\ qy2 \in Int
      BY <2>8
    <3>2. 2 * g.abilities = px1 + qy1 /\ 2 * plan.abilities = px2 + qy2
      BY <2>1, <2>2
    <3>3. g.abilities \in Int /\ plan.abilities \in Int
      BY <1>6, <1>7
    <3>4. p * (x1 + x2) = px1 + px2 /\ q * (y1 + y2) = qy1 + qy2
      BY <2>7
    <3> HIDE DEF px1, px2, qy1, qy2, g
    <3>5. 2 * (g.abilities + plan.abilities) = (px1 + px2) + (qy1 + qy2)
      BY <3>1, <3>2, <3>3
    <3> QED
      BY <2>6, <3>4, <3>5
  <2> QED
    BY <2>4, <2>5, <2>9 DEF p, q
<1>13. Given(old.level)'
  BY <1>1, <1>9, <1>10, <1>11, <1>12 DEF Given, Whole
<1>14. RulesTyped'
  BY <1>1, <1>8, NoPlanFact, RulesParts DEF RulesTyped
<1> QED
  BY <1>1, <1>13, <1>14, NoPlanFact DEF RulesInv

LEMMA RulesInductive == RulesInv /\ [RulesNext]_rulesVars => RulesInv'
<1> SUFFICES ASSUME RulesInv, [RulesNext]_rulesVars PROVE RulesInv'
  OBVIOUS
<1>1. CASE UNCHANGED rulesVars
  <2>1. UNCHANGED <<rules, old, plan, gained>>
    BY <1>1 DEF rulesVars
  <2>2. CASE plan.stage = "none"
    <3>1. Given(old'.level) /\ plan' = NoPlan
      BY <2>1, <2>2 DEF RulesInv
    <3> QED
      BY <2>1, <2>2, <3>1, ClosedKeeps, RulesParts
  <2>3. CASE plan.stage # "none"
    <3>1. Answered(plan', old') /\ SamePlan(plan, plan')
      BY <2>1, <2>3, ScreenParts DEF SamePlan
    <3> QED
      BY <2>1, <2>3, <3>1, ScreenKeeps, RulesParts
  <2> QED
    BY <2>2, <2>3
<1>2. ASSUME NEW native \in Levels, Open(native) PROVE RulesInv'
  BY <1>2, OpenKeeps
<1>3. ASSUME NEW selected \in [Skills -> 0..MaxSkill], SelectSkills(selected) PROVE RulesInv'
  BY <1>3, SelectKeeps
<1> QED
  BY <1>1, <1>2, <1>3, EarnKeeps, PatchKeeps, DriftKeeps, LevelKeeps, HitPointsKeeps,
     CommitRulesKeeps, CancelRulesKeeps DEF RulesNext

LEMMA RulesAlways == RulesSpec => []RulesInv
<1> QED BY RulesStart, RulesInductive, PTL DEF RulesSpec

\* However the old class divides its catch-up into screens, what the committed
\* screens gave adds up to what one screen would have given: picks, points,
\* each level's hit points once, and with whole rates the abilities.
THEOREM GainsDoNotSplit == RulesSpec => []SplitFree
<1>1. RulesInv => SplitFree
  BY DEF RulesInv, Given, SplitFree, Past
<1> QED BY <1>1, RulesAlways, PTL

\* The climb of the experience table ends at the highest level it can reach.
LEMMA HighestFact ==
    ASSUME NEW b \in 1..MaxByte, NEW n \in b..MaxByte, NEW x \in Int, ClimbsTo(b, n, x)
    PROVE  n = Max(Reachable(b, x)) /\ rules.next[Column(n)] # Bad /\ ~Met(Column(n), x)
<1>1. MaxByte \in Nat \ {0} /\ n # 0 /\ n \in Levels
  BY ByteAssumption DEF Levels
<1>2. /\ \A m \in (b + 1)..n : Met(m, x)
      /\ rules.next[Column(n)] # Bad /\ ~Met(Column(n), x)
  BY <1>1 DEF ClimbsTo
<1>3. n \in Reachable(b, x)
  BY <1>2 DEF Reachable
<1>4. ASSUME NEW k \in Reachable(b, x) PROVE k <= n /\ k \in Nat
  <2>1. k \in b..MaxByte /\ \A m \in (b + 1)..k : Met(m, x)
    BY DEF Reachable
  <2>2. CASE k <= n
    BY <1>1, <2>1, <2>2
  <2>3. CASE k > n
    <3>1. n < MaxByte /\ n + 1 \in (b + 1)..k
      BY <1>1, <2>1, <2>3
    <3>2. Column(n) = n + 1
      BY <1>1, <3>1, ColumnFact
    <3> QED
      BY <1>2, <2>1, <3>1, <3>2
  <2> QED
    BY <1>1, <2>1, <2>2, <2>3
<1> DEFINE T == Reachable(b, x)
<1>5. n \in T /\ \A k \in T : n >= k
  BY <1>1, <1>3, <1>4
<1>6. \A k \in T : (\A j \in T : k >= j) => k = n
  BY <1>1, <1>3, <1>4
<1> HIDE DEF T
<1>7. Max(T) = n
  BY <1>5, <1>6 DEF Max
<1> QED
  BY <1>2, <1>7 DEF T

\* A plan's target is the highest level that the experience reaches in the
\* installed table, and the skills go in whole and within its budget, with the
\* rest kept: whatever a patch, a drifting skill or a second question does.
THEOREM PlansAreExact == RulesSpec => []PlanIsExact
<1>1. ASSUME RulesInv PROVE PlanIsExact
  <2>1. TargetIsReachable
    <3> SUFFICES ASSUME plan.stage # "none"
                 PROVE  LET column == (plan.target + 1) % (MaxByte + 1)
                        IN  /\ plan.target = Max(Reachable(plan.before, plan.xp))
                            /\ rules.next[column] # Bad /\ ~Met(column, plan.xp)
      BY DEF TargetIsReachable
    <3>1. Planned(plan) /\ plan \in Plans
      BY <1>1, ScreenParts, RulesParts
    <3>2. /\ plan.before \in 1..MaxByte /\ plan.target \in plan.before..MaxByte
          /\ plan.xp \in Int /\ ClimbsTo(plan.before, plan.target, plan.xp)
      BY <3>1 DEF Planned, Plans
    <3>3. /\ plan.target = Max(Reachable(plan.before, plan.xp))
          /\ rules.next[Column(plan.target)] # Bad /\ ~Met(Column(plan.target), plan.xp)
      BY <3>2, HighestFact
    <3> QED
      BY <3>3 DEF Column
  <2>2. SkillsWithinBudget
    <3>1. CASE plan.stage = "none"
      <4>1. ~plan.applied
        BY <1>1, <3>1 DEF RulesInv, NoPlan
      <4> QED
        BY <3>1, <4>1 DEF SkillsWithinBudget
    <3>2. CASE plan.stage # "none"
      <4>1. Answered(plan, old) /\ plan \in Plans
        BY <1>1, <3>2, ScreenParts, RulesParts
      <4>2. Spent = Taken(plan) /\ Taken(plan) \in Int /\ plan.points \in Int
        BY <4>1, SpentFact, TakenFact DEF Plans
      <4> QED
        BY <4>1, <4>2 DEF Answered, SkillsWithinBudget
    <3> QED
      BY <3>1, <3>2
  <2> QED
    BY <2>1, <2>2 DEF PlanIsExact
<1> QED BY <1>1, RulesAlways, PTL
=============================================================================
