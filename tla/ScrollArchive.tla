----------------------------- MODULE ScrollArchive -----------------------------
(***************************************************************************)
(* Scroll ownership through saves and loads (research/scroll-runtime:      *)
(* effect_archive.hpp, effect_archive_text.hpp, eeex_save_bridge.cpp, the  *)
(* import and export of native_api.cpp, the UUIDs of scroll_context.hpp,   *)
(* marshal_carrier_api.cpp, decode_carrier.hpp and CBMS_ScrollMarshal.lua).*)
(* The game saves a character's effects without their ancestry; an         *)
(* envelope that EEex stores beside them says, record by record, which     *)
(* scroll each came from.  Other processes may run with overrides off and  *)
(* hand on an envelope they did not read.                                  *)
(*                                                                         *)
(* An effect's bytes are its level; those of a character also hold the     *)
(* time it was last written (its op187 records), here the number of        *)
(* changes that had happened.  Casts under way are in ScrollCast.          *)
(***************************************************************************)
EXTENDS Integers, FiniteSets, SequencesExt

CONSTANTS
    Chars,       \* characters, named by their UUIDs
    Holders,     \* those whose effects are followed
    None,
    MaxEffects,  \* bound on a character's effects
    MaxUses,     \* bound on the scrolls read
    MaxChanges,  \* bound on the changes of effects
    MaxLives,    \* bound on the sprites of a process
    MaxRestarts  \* bound on processes

ASSUME ScrollArchiveAssumption ==
    /\ None \notin Chars
    /\ Holders \subseteq Chars
    /\ {MaxEffects, MaxUses, MaxChanges, MaxLives, MaxRestarts} \subseteq Nat

VARIABLES
    sprite,   \* character -> its sprite
    record,   \* character -> what the game last wrote of it
    uses,     \* history: the reader of each scroll
    scopes,   \* loads whose effects are being decoded, innermost last
    import,   \* character -> effect_imports of its sprite
    export,   \* the marshal under way: effect_exports of its sprite
    disabled, \* every override is off
    changes,  \* the game's clock
    lives,    \* sprites of this process so far
    strangers,\* history: characters whose first envelope was another's
    restarts  \* history: processes so far

vars == <<sprite, record, uses, scopes, import, export, disabled, changes, lives, strangers, restarts>>

NoEnvelope == [kind |-> "none", rows |-> <<>>, time |-> 0]
\* One of another schema, with other fields, or whose text does not parse.
Foreign == [kind |-> "foreign", rows |-> <<>>, time |-> 0]
NoSprite == [life |-> 0, stage |-> "none", effects |-> <<>>, uuid |-> FALSE,
             raw |-> NoEnvelope, error |-> FALSE, finished |-> FALSE]
NoImport == [open |-> FALSE, rows |-> <<>>, archive |-> NoEnvelope]
NoExport == [of |-> None, prepared |-> FALSE, rows |-> <<>>, envelope |-> NoEnvelope, meddled |-> FALSE]
Unowned == [use |-> 0, reader |-> 0, uuid |-> None, level |-> 0]
Unsaved == [use |-> 0, uuid |-> None, level |-> 0]

\* The levels in the bytes: the engine's own, and one a cast was given.
Native == 1
Given == 2
Levels == {Native, Given}

\* history: whole says that no process without overrides has handled the
\* effect since it was made; use is the scroll it really comes from.
Effect(use, level, c, whole) == [use |-> use, level |-> level, ctx |-> c, whole |-> whole]

Init ==
    /\ sprite = [c \in Chars |-> NoSprite]
    /\ strangers \in SUBSET Holders
    /\ record = [c \in Chars |-> [rows |-> <<>>, time |-> 0,
                                  envelope |-> IF c \in strangers THEN Foreign ELSE NoEnvelope]]
    /\ uses = <<>>
    /\ scopes = <<>>
    /\ import = [c \in Chars |-> NoImport]
    /\ export = NoExport
    /\ disabled = FALSE
    /\ changes = 0
    /\ lives = 0
    /\ restarts = 0

Healthy == ~disabled
Live(c) == sprite[c].stage \in {"bound", "live"}
\* Registry::context and Registry::set.
Context(e) == IF disabled THEN Unowned ELSE e.ctx
Put(ctx) == IF disabled THEN Unowned ELSE ctx
\* The game decodes or writes a character in one go: only loads nest.
Calm == export = NoExport /\ scopes = <<>>
Fail == disabled' = TRUE
NoFail == UNCHANGED disabled
-----------------------------------------------------------------------------
(* The registry's UUIDs.                                                    *)

LifeOf(s, uuid) == IF uuid \in Chars /\ s[uuid].uuid THEN s[uuid].life ELSE 0
LiveLife(life) == life # 0 /\ \E c \in Chars : sprite[c].life = life

\* Mutant: an effect finds its reader once, after its own load.
NeedsRebind_Once(ctx, c) == ctx.uuid = c /\ ctx.reader = 0

\* needs_rebind of Registry::actor_uuid, for a sprite that gets its UUID.
NeedsRebind(ctx, c) ==
    \/ ctx.reader = sprite[c].life /\ ctx.uuid = None
    \/ ctx.uuid = c /\ ~LiveLife(ctx.reader)

Rebound(effects, c) ==
    [i \in DOMAIN effects |->
        IF effects[i].ctx # Unowned /\ NeedsRebind(effects[i].ctx, c)
        THEN [effects[i] EXCEPT !.ctx.reader = sprite[c].life, !.ctx.uuid = c]
        ELSE effects[i]]

\* Registry::restored_origin: the reader may be there, or come later.
RestoredContext(s, row) ==
    [use |-> row.use, reader |-> LifeOf(s, row.uuid), uuid |-> row.uuid, level |-> row.level]
-----------------------------------------------------------------------------
(* The game makes, changes and ends effects.                                *)

Changes(c, effects) ==
    /\ Calm /\ Live(c)
    /\ changes < MaxChanges
    /\ changes' = changes + 1
    /\ sprite' = [sprite EXCEPT ![c].effects = effects]
    /\ UNCHANGED <<record, scopes, import, export, lives, strangers, restarts>>
Adds(c, effect) ==
    /\ c \in Holders
    /\ Len(sprite[c].effects) < MaxEffects
    /\ Changes(c, Append(sprite[c].effects, effect))

Read(reader, c) ==
    /\ Live(reader)
    /\ Len(uses) < MaxUses
    /\ uses' = Append(uses, reader)
    /\ Adds(c, Effect(Len(uses'), Native,
                      Put([use |-> Len(uses'), reader |-> sprite[reader].life,
                           uuid |-> IF sprite[reader].uuid THEN reader ELSE None, level |-> 0]),
                      ~disabled))
    /\ NoFail

Plain(c) == Adds(c, Effect(0, Native, Unowned, TRUE)) /\ NoFail /\ UNCHANGED uses

\* An effect casts a spell on c: Scope::select and Scope::child.
Cast(source, i, c) ==
    LET e == sprite[source].effects[i]
        ctx == Context(e)
    IN  /\ Live(source) /\ i \in DOMAIN sprite[source].effects
        /\ IF ctx = Unowned
           THEN NoFail /\ Adds(c, Effect(e.use, Native, Unowned, e.whole /\ ~disabled))
           ELSE IF LiveLife(ctx.reader)
           THEN NoFail /\ Adds(c, Effect(e.use, Given, [ctx EXCEPT !.level = Given], e.whole))
           ELSE Fail /\ Adds(c, Effect(e.use, Native, Unowned, FALSE))
        /\ UNCHANGED uses

\* Opcode 177 needs no reader: Registry::linked177.
Link(source, i, c) ==
    LET e == sprite[source].effects[i]
    IN  /\ Live(source) /\ i \in DOMAIN sprite[source].effects
        /\ Adds(c, Effect(e.use, e.level, Context(e), e.whole /\ ~disabled))
        /\ NoFail /\ UNCHANGED uses

Ends(c, i) ==
    /\ i \in DOMAIN sprite[c].effects
    /\ Changes(c, RemoveAt(sprite[c].effects, i))
    /\ NoFail /\ UNCHANGED uses

\* Another mod writes into the effect.
Rewritten(c, i, level) ==
    /\ i \in DOMAIN sprite[c].effects
    /\ sprite[c].effects[i].level # level
    /\ Changes(c, [sprite[c].effects EXCEPT ![i].level = level])
    /\ NoFail /\ UNCHANGED uses

\* Any other error, here or in another thread.
Fault ==
    /\ Healthy
    /\ Fail
    /\ UNCHANGED <<sprite, record, uses, scopes, import, export, changes, lives, strangers, restarts>>
-----------------------------------------------------------------------------
(* Saving a character: the exporter, the native writer, the check.          *)

\* EffectExport::emitted refuses an effect without a reader's UUID or with a
\* level that is not the one it was given.
Emittable(e) ==
    Context(e) # Unowned => e.ctx.uuid # None /\ (e.ctx.level # 0 => e.ctx.level = e.level)
SavedRow(e) ==
    [level |-> e.level,
     saved |-> IF Context(e) = Unowned THEN Unsaved
               ELSE [use |-> e.ctx.use, uuid |-> e.ctx.uuid, level |-> e.ctx.level]]
Envelope(rows, time) ==
    IF \E i \in DOMAIN rows : rows[i].saved # Unsaved
    THEN [kind |-> "ours", rows |-> rows, time |-> time]
    ELSE NoEnvelope

\* A retained envelope goes out as it came in; else exporter claims the marshal
\* and the effects are prepared.
Marshal(c) ==
    LET s == sprite[c]
        rows == [i \in DOMAIN s.effects |-> SavedRow(s.effects[i])]
    IN  /\ Calm /\ c \in Holders /\ s.stage = "live"
        /\ IF s.raw # NoEnvelope
           THEN export' = [NoExport EXCEPT !.of = c, !.envelope = s.raw] /\ NoFail /\ UNCHANGED sprite
           ELSE IF ~Healthy
           THEN export' = [NoExport EXCEPT !.of = c] /\ NoFail /\ UNCHANGED sprite
           ELSE IF \A i \in DOMAIN s.effects : Emittable(s.effects[i])
           THEN /\ export' = [of |-> c, prepared |-> TRUE, rows |-> rows,
                              envelope |-> Envelope(rows, changes), meddled |-> FALSE]
                /\ NoFail /\ UNCHANGED sprite
           ELSE export' = [NoExport EXCEPT !.of = c] /\ Fail /\ sprite' = [sprite EXCEPT ![c].error = TRUE]
        /\ UNCHANGED <<record, uses, scopes, import, changes, lives, strangers, restarts>>

\* A later exporter of another mod writes into an effect.
Meddle(i, level) ==
    /\ export # NoExport
    /\ i \in DOMAIN sprite[export.of].effects
    /\ sprite[export.of].effects[i].level # level
    /\ sprite' = [sprite EXCEPT ![export.of].effects[i].level = level]
    /\ export' = [export EXCEPT !.meddled = TRUE]
    /\ UNCHANGED <<record, uses, scopes, import, disabled, changes, lives, strangers, restarts>>

\* The native rows go out, and CBMS_ValidateEffectExport compares them.
Written ==
    LET c == export.of
        effects == sprite[c].effects
        whole == Healthy /\ ~export.meddled
        row == [i \in DOMAIN effects |-> [level |-> effects[i].level, use |-> effects[i].use,
                                          whole |-> effects[i].whole /\ whole]]
    IN  /\ export # NoExport
        /\ record' = [record EXCEPT ![c] =
                         [rows |-> row, time |-> changes, envelope |-> export.envelope]]
        /\ IF /\ export.prepared
              /\ \E i \in DOMAIN effects : effects[i].level # export.rows[i].level
           THEN Fail ELSE NoFail
        /\ export' = NoExport
        /\ UNCHANGED <<sprite, uses, scopes, import, changes, lives, strangers, restarts>>
-----------------------------------------------------------------------------
(* Loading one: loads nest, and each decoded record is the innermost's.     *)

\* CBMS_EEexBeginEffectUnmarshal; the sprite is new.
Load(c) ==
    /\ export = NoExport
    /\ sprite[c].stage = "none"
    /\ lives < MaxLives
    /\ lives' = lives + 1
    /\ sprite' = [sprite EXCEPT ![c] = [NoSprite EXCEPT !.life = lives', !.stage = "decoding"]]
    /\ scopes' = Append(scopes, c)
    /\ import' = [import EXCEPT ![c] = [NoImport EXCEPT !.open = TRUE]]
    /\ UNCHANGED <<record, uses, export, disabled, changes, strangers, restarts>>

\* DecodeCarrier::decode gives a record to the innermost load.
Loading == Last(scopes)

Decode ==
    LET c == Loading
        n == Len(sprite[c].effects) + 1
        row == record[c].rows[n]
    IN  /\ scopes # <<>>
        /\ n \in DOMAIN record[c].rows
        /\ sprite' = [sprite EXCEPT ![c].effects =
              Append(@, Effect(row.use, row.level, Unowned, row.whole))]
        /\ IF import[c].open
           THEN import' = [import EXCEPT ![c].rows = Append(@, row.level)]
           ELSE UNCHANGED import
        /\ UNCHANGED <<record, uses, scopes, export, disabled, changes, lives, strangers, restarts>>

\* importer: the envelope is kept before anything looks at it.
Import ==
    LET c == Loading
        e == record[c].envelope
    IN  /\ scopes # <<>>
        /\ e # NoEnvelope /\ sprite[c].raw = NoEnvelope
        /\ IF e.kind = "foreign"
           THEN /\ sprite' = [sprite EXCEPT ![c].raw = e, ![c].error = TRUE]
                /\ Fail /\ UNCHANGED import
           ELSE IF ~Healthy
           THEN /\ sprite' = [sprite EXCEPT ![c].raw = e, ![c].error = TRUE]
                /\ NoFail /\ UNCHANGED import
           ELSE /\ sprite' = [sprite EXCEPT ![c].raw = e]
                /\ import' = [import EXCEPT ![c].archive = e]
                /\ NoFail
        /\ UNCHANGED <<record, uses, scopes, export, changes, lives, strangers, restarts>>

Decoded ==
    LET c == Loading
    IN  /\ scopes # <<>>
        /\ Len(sprite[c].effects) = Len(record[c].rows)
        /\ record[c].envelope = sprite[c].raw
        /\ scopes' = Front(scopes)
        /\ sprite' = [sprite EXCEPT ![c].stage = "decoded"]
        /\ UNCHANGED <<record, uses, import, export, disabled, changes, lives, strangers, restarts>>

\* Mutant: a record is what it was if there are as many.
Current_Counted(archive, rows, time) == Len(archive.rows) = Len(rows)

\* EffectImport::restore compares the saved records with the decoded ones.
Current(archive, rows, time) ==
    /\ Len(archive.rows) = Len(rows)
    /\ archive.time = time
    /\ \A i \in DOMAIN rows : archive.rows[i].level = rows[i]

Restored(s, effects, archive) ==
    [i \in DOMAIN effects |->
        IF archive.rows[i].saved = Unsaved THEN effects[i]
        ELSE [effects[i] EXCEPT !.ctx = RestoredContext(s, archive.rows[i].saved)]]

\* CBMS_EEexAfterActorUUID: the UUID is bound, then the import finished.  An
\* envelope that is not about these records is dropped, for this sprite alone.
Bind(c) ==
    LET im == import[c]
        bound == [d \in Chars |-> [sprite[d] EXCEPT !.effects = Rebound(@, c), !.uuid = @ \/ d = c]]
    IN  /\ Calm /\ sprite[c].stage = "decoded"
        /\ IF Healthy
           THEN /\ sprite' = [bound EXCEPT ![c].stage = "bound", ![c].finished = im.open,
                     ![c].effects = IF im.archive # NoEnvelope /\ Current(im.archive, im.rows, record[c].time)
                                    THEN Restored(bound, @, im.archive) ELSE @]
                /\ import' = [import EXCEPT ![c] = NoImport]
           ELSE /\ sprite' = [sprite EXCEPT ![c].stage = "bound"]
                /\ UNCHANGED import
        /\ UNCHANGED <<record, uses, scopes, export, disabled, changes, lives, strangers, restarts>>

\* A reader is not rebound inside its own cast: the import stays open.
BindFails(c) ==
    /\ Calm /\ sprite[c].stage = "decoded"
    /\ Healthy
    /\ Fail
    /\ sprite' = [sprite EXCEPT ![c].stage = "bound"]
    /\ UNCHANGED <<record, uses, scopes, import, export, changes, lives, strangers, restarts>>

\* The loaded listener gives the envelope up once it is spent.
Loaded(c) ==
    /\ Calm /\ sprite[c].stage = "bound"
    /\ sprite' = [sprite EXCEPT ![c].stage = "live",
                     ![c].raw = IF ~sprite[c].error /\ sprite[c].finished /\ Healthy THEN NoEnvelope ELSE @]
    /\ UNCHANGED <<record, uses, scopes, import, export, disabled, changes, lives, strangers, restarts>>

\* CBMS_EEexActorDestroyed ends the sprite's import with it.
Destroyed(c) ==
    /\ Calm /\ sprite[c].stage \in {"decoded", "bound", "live"}
    /\ sprite' = [sprite EXCEPT ![c] = NoSprite]
    /\ import' = [import EXCEPT ![c] = NoImport]
    /\ UNCHANGED <<record, uses, scopes, export, disabled, changes, lives, strangers, restarts>>

Restart ==
    /\ restarts < MaxRestarts
    /\ restarts' = restarts + 1
    /\ sprite' = [c \in Chars |-> NoSprite]
    /\ scopes' = <<>>
    /\ import' = [c \in Chars |-> NoImport]
    /\ export' = NoExport
    /\ disabled' = FALSE
    /\ lives' = 0
    /\ UNCHANGED <<record, uses, changes, strangers>>

Next ==
    \/ \E c, d \in Chars :
          Read(c, d) \/ \E i \in 1..MaxEffects : Cast(c, i, d) \/ Link(c, i, d)
    \/ \E i \in 1..MaxEffects, level \in Levels :
          Meddle(i, level) \/ \E c \in Chars : Ends(c, i) \/ Rewritten(c, i, level)
    \/ \E c \in Chars :
          Plain(c) \/ Marshal(c) \/ Load(c) \/ Bind(c) \/ BindFails(c) \/ Loaded(c) \/ Destroyed(c)
    \/ Written \/ Decode \/ Import \/ Decoded \/ Fault \/ Restart

Spec == Init /\ [][Next]_vars
-----------------------------------------------------------------------------
\* An effect that the registry calls owned is of the scroll it says, whatever
\* was saved, kept unread, rewritten or loaded since, and no character takes
\* the place of the one who read it (EffectImport::restore, actor_uuid).
AncestryIsTrue ==
    \A c \in Chars : \A i \in DOMAIN sprite[c].effects :
        LET e == sprite[c].effects[i]
        IN  Context(e) # Unowned =>
                /\ e.ctx.use = e.use
                /\ e.ctx.uuid \in {None, uses[e.use]}
                /\ \A d \in Chars : LiveLife(e.ctx.reader) /\ sprite[d].life = e.ctx.reader => d = uses[e.use]

\* Nothing is lost on the way either: while the overrides are on, an effect
\* that no process without them has handled has its ancestry, and its reader
\* when that character is there; and an envelope that this code cannot read is
\* in every later save as it was (exporter, EffectExport, CBMS_FinishEffectImport).
Survives(e) ==
    e.whole /\ e.use # 0 => /\ e.ctx.use = e.use
                           /\ LET reader == sprite[uses[e.use]]
                              IN  reader.uuid => e.ctx.reader = reader.life
AncestrySurvives ==
    /\ ~disabled => \A c \in Chars : Live(c) =>
          \A i \in DOMAIN sprite[c].effects : Survives(sprite[c].effects[i])
    /\ \A c \in strangers : record[c].envelope = Foreign
=============================================================================
