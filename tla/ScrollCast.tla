----------------------------- MODULE ScrollCast -----------------------------
(***************************************************************************)
(* Who a scroll's effects belong to (research/scroll-runtime: the registry *)
(* of scroll_context.hpp, its API in native_api.cpp, the witnesses of      *)
(* action_witness.hpp and the hooks in *_carrier_api.cpp and               *)
(* linked177_api.cpp).  An effect made by reading a scroll applies, queues *)
(* a message or an action, and that casts a spell whose effects do the     *)
(* same; the level of the original reader has to reach exactly those       *)
(* effects.  The engine tells the hooks addresses only, so the model keeps *)
(* the truth beside them: use is the scroll an object really comes from,   *)
(* 0 for none, and the registry's contexts are compared with it.           *)
(*                                                                         *)
(* The native call stack is explicit: between two steps of one call any    *)
(* other call may run inside it.  A hook's own code is one step of the     *)
(* engine's thread.  What another thread can do to it meanwhile is to set  *)
(* the latch between the hook's check and its write: then late, and that   *)
(* one step may still give a level (docs/scroll-casting.md:166).  Force,   *)
(* Spell and FirePoint stand for their point or plain twin.  The cast of a *)
(* contingency, saves and the patching of the hooks are not modelled.      *)
(***************************************************************************)
EXTENDS Integers, FiniteSets, SequencesExt

CONSTANTS
    Actors,    \* sprite addresses that read scrolls
    Effects,   \* effect addresses
    Messages,  \* addresses of messages that fire a spell
    Fields,    \* actions: m_source and what they do
    Casters,   \* sprites that act; each is the field of its m_curAction
    Receivers, \* what a cast runs on: a caster, or None for anything else
    Verbs,     \* what actions do: Force or Spell
    None,
    Paths,     \* what the effects in the model do: see Apply
    MaxDepth,  \* 64: how deep an effect may descend from its scroll
    LiveMax,   \* 4096: witnesses that may be referenced at a time
    TotalMax,  \* 2^20: witnesses of a process
    MaxLife,   \* bound on the lives of an actor address
    MaxUses,   \* bound on the scrolls read
    MaxStack,  \* bound on the open calls
    MaxEvents  \* bound on uncounted references and calls of other threads

ASSUME ScrollAssumption ==
    /\ Casters \subseteq Fields
    /\ None \notin Actors \cup Casters
    /\ IsFiniteSet(Fields)
    /\ Effects \cap Messages = {} /\ (Effects \cup Messages) \cap (1..TotalMax) = {}
    /\ Receivers \subseteq Casters \cup {None} /\ Verbs \subseteq {"force", "spell"}
    /\ Paths \subseteq {"action", "message", "direct", "link"}
    /\ {MaxDepth, LiveMax, TotalMax, MaxUses, MaxStack, MaxEvents} \subseteq Nat
    /\ MaxLife \in Nat \ {0}

VARIABLES
    life,      \* actor address -> the life there
    known,     \* actor address -> the life the registry observed, 0 for none
    uses,      \* Origin of each scroll read: its reader's address and lives
    objects,   \* effects and messages: alive, the true use, m_casterLevel
    fields,    \* actions: the true use, the witness in m_source, the selector
    contexts,  \* the registry's context of effects, messages and witnesses
    refs,      \* witness -> references above the table's own
    witnesses, \* how many were issued, and which are live
    working,   \* sprite -> its shared working level (+4C8Ah)
    stack,     \* the open native calls, innermost last
    disabled,  \* the latch of the registry and of foreign_entry
    late,      \* another thread set it behind the check of a hook at work
    events     \* history: calls of other threads, uncounted references

vars == <<life, known, uses, objects, fields, contexts, refs, witnesses,
          working, stack, disabled, late, events>>

Keys == 1..TotalMax
Holders == Effects \cup Messages
Selectors == {"none", "fire", "effectFire", "force", "spell"}
\* A level is named by the reader it belongs to; the engine's own is Native.
Native == [actor |-> None, life |-> 0]
Unowned == [use |-> 0, depth |-> 0, level |-> Native, sel |-> "none"]
Gone == [alive |-> FALSE, use |-> 0, level |-> Native]
Idle == [use |-> 0, key |-> 0, sel |-> "none"]
-----------------------------------------------------------------------------
\* What a hook sees that asks disabled(), and Registry::context.
Latched == disabled /\ ~late
Held(c) == IF Latched THEN Unowned ELSE c
Context(o) == Held(contexts[o])

\* What may be written that was read before the latch, or read after it.
LateOr(value, native) == {value} \cup (IF late THEN {native} ELSE {})

\* Mutant: a context is stored although the registry is disabled.
Puts_Late(c) == {c}

\* Registry::set asks once more: disabled, nothing becomes owned.
Puts(c) == LateOr(Held(c), Unowned)

Top == Last(stack)
At(kind) == stack # <<>> /\ Top.kind = kind
Running(o) == \E i \in DOMAIN stack : stack[i].object = o
CanPush == Len(stack) < MaxStack
Push(frame) == CanPush /\ stack' = Append(stack, frame)
ReplaceTop(frame) == stack' = Append(Front(stack), frame)

Deep(c) == c.depth >= MaxDepth

\* The reader of a use is still the actor the registry observed.
ReaderLives(use) == known[uses[use].actor] = uses[use].gen

\* An effect or a message made by the engine, with the level and the context
\* that the hook gives it.
Make(o, use, level, c) ==
    /\ ~objects[o].alive
    /\ objects' = [objects EXCEPT ![o] = [alive |-> TRUE, use |-> use, level |-> level]]
    /\ contexts' = [contexts EXCEPT ![o] = c]

\* The hook fails: the effect stays the engine's, and overrides end.
MakeFailed(e, use) ==
    /\ ~objects[e].alive
    /\ objects' = [objects EXCEPT ![e] = [alive |-> TRUE, use |-> use, level |-> Native]]
    /\ disabled' = TRUE
    /\ UNCHANGED contexts

\* The engine makes it where no hook attaches anything.
MakeUnhooked(e, use) ==
    /\ ~objects[e].alive
    /\ objects' = [objects EXCEPT ![e] = [alive |-> TRUE, use |-> use, level |-> Native]]
    /\ UNCHANGED <<contexts, disabled>>
-----------------------------------------------------------------------------
(* Scrolls and the lifetimes of what they make.                            *)

\* CGameSprite's destructor, and another sprite at its address.
ActorReplaced(a) ==
    /\ life[a] < MaxLife /\ ~Running(a)
    /\ life' = [life EXCEPT ![a] = @ + 1]
    /\ known' = [known EXCEPT ![a] = 0]
    /\ UNCHANGED <<uses, objects, fields, contexts, refs, witnesses, working,
                   stack, disabled, events>>

\* UseItem observes its sprite; FireItem only asks later whether it was.
BeginUse(a, observes) ==
    /\ Push([kind |-> "item", object |-> a, use |-> 0])
    /\ known' = [known EXCEPT ![a] = IF observes /\ @ = 0 THEN life[a] ELSE @]
    /\ UNCHANGED <<life, uses, objects, fields, contexts, refs, witnesses,
                   working, disabled, events>>

\* The engine makes an effect of the scroll in use: attach_root.
Root(e) ==
    /\ At("item")
    /\ LET a == Top.object
           use == IF Top.use = 0 THEN Len(uses) + 1 ELSE Top.use
           owned == [Unowned EXCEPT !.use = use]
       IN /\ use <= MaxUses
          /\ ReplaceTop([Top EXCEPT !.use = use])
          /\ uses' = IF use \in DOMAIN uses THEN uses
                     ELSE Append(uses, [actor |-> a, gen |-> known[a], life |-> life[a]])
          /\ \/ /\ known[a] # 0 /\ Context(e) = Unowned
                /\ \E stored \in Puts(owned) : Make(e, use, Native, stored)
                /\ UNCHANGED disabled
             \/ /\ known[a] = 0 \/ Context(e) # Unowned
                /\ MakeFailed(e, use)
    /\ UNCHANGED <<life, known, fields, refs, witnesses, working, events>>

\* An effect of no scroll: no hook sees it made.
NewEffect(e) ==
    /\ MakeUnhooked(e, 0)
    /\ UNCHANGED <<life, known, uses, fields, refs, witnesses, working, stack, events>>

\* CBMS_EffectCopied.
Copied(from) == Context(from)

\* CGameEffect's copy, into a new effect or over another one.
CopyEffect(from, to) ==
    /\ objects[from].alive /\ from # to /\ ~Running(to)
    /\ objects' = [objects EXCEPT ![to] = objects[from]]
    /\ \E stored \in Puts(Copied(from)) : contexts' = [contexts EXCEPT ![to] = stored]
    /\ UNCHANGED <<life, known, uses, fields, refs, witnesses, working, stack,
                   disabled, events>>

\* Mutant: only an enabled registry forgets.
Forget_Enabled(o) == IF disabled THEN contexts ELSE [contexts EXCEPT ![o] = Unowned]

\* Registry::destroyed.
Forget(o) == [contexts EXCEPT ![o] = Unowned]

Destroy(o) ==
    /\ objects[o].alive /\ ~Running(o)
    /\ objects' = [objects EXCEPT ![o] = Gone]
    /\ contexts' = Forget(o)
    /\ UNCHANGED <<life, known, uses, fields, refs, witnesses, working, stack,
                   disabled, events>>
-----------------------------------------------------------------------------
(* Dispatch: opcodes 146 and 148 queue an action, queue a message or cast  *)
(* at once, opcode 177 makes another effect.                               *)

\* Every call masks its parent, also an unowned one.
Apply(e, path) ==
    /\ objects[e].alive
    /\ Push([kind |-> path, object |-> e, owned |-> Context(e) # Unowned, done |-> FALSE])
    /\ UNCHANGED <<life, known, uses, objects, fields, contexts, refs, witnesses,
                   working, disabled, events>>

Dispatching(path) == At(path) /\ ~Top.done
Dispatched == ReplaceTop([Top EXCEPT !.done = TRUE])

\* Registry::dispatch.
Carried(e, sel) ==
    IF Context(e) = Unowned THEN Unowned ELSE [Context(e) EXCEPT !.sel = sel]

\* CMessageFireSpell: Construct and Dispatch at AddMessage.
QueueMessage(m) ==
    /\ Dispatching("message") /\ Dispatched
    /\ \E stored \in Puts(IF Top.owned THEN Carried(Top.object, "fire") ELSE Unowned) :
          Make(m, objects[Top.object].use, Native, stored)
    /\ UNCHANGED <<life, known, uses, fields, refs, witnesses, working, disabled, events>>

RunMessage(m) ==
    /\ objects[m].alive /\ ~Running(m)
    /\ Push([kind |-> "run", object |-> m, done |-> FALSE])
    /\ UNCHANGED <<life, known, uses, objects, fields, contexts, refs, witnesses,
                   working, disabled, events>>

Live == witnesses.live
Retirable(k) == refs[k] = 0
Retired == {k \in Live : Retirable(k)}

\* sweep: a retired witness some string still held, or a live one with fewer
\* references than holders.  The audit's batch covers every block here.
Miscounted ==
    \/ \E k \in 1..witnesses.issued : k \notin Live /\ refs[k] # 0
    \/ \E k \in Live : refs[k] < 0

\* Blocks are issued in order and never again.
NextKey == witnesses.issued + 1

Without(keys) == [o \in DOMAIN contexts |-> IF o \in keys THEN Unowned ELSE contexts[o]]

\* CBMS_StampActionWitness: the queued action f carries the context of e in a
\* new witness, or the call fails and the action stays the engine's.
Stamp(e, f, sel) ==
    \/ /\ ~Miscounted
       /\ Cardinality(Live \ Retired) < LiveMax /\ witnesses.issued < TotalMax
       /\ fields' = [fields EXCEPT ![f] =
                        [use |-> objects[e].use, key |-> NextKey, sel |-> sel]]
       /\ \E stored \in Puts(Carried(e, sel)) :
             contexts' = [Without(Retired) EXCEPT ![NextKey] = stored]
       /\ refs' = [refs EXCEPT ![NextKey] = @ + 1]
       /\ witnesses' = [issued |-> Max({witnesses.issued, NextKey}),
                        live |-> (Live \ Retired) \cup {NextKey}]
       /\ UNCHANGED disabled
    \/ \E ended \in SUBSET Retired :
       /\ \/ Miscounted
          \/ ended = Retired /\ (\/ Cardinality(Live \ Retired) >= LiveMax
                                 \/ witnesses.issued >= TotalMax)
       /\ fields' = [fields EXCEPT ![f] = [use |-> objects[e].use, key |-> 0, sel |-> sel]]
       /\ contexts' = Without(ended)
       /\ witnesses' = [witnesses EXCEPT !.live = @ \ ended]
       /\ disabled' = TRUE
       /\ UNCHANGED refs

\* CMessageInsertAction: its action goes to a queue entry that is free.
QueueAction(f, sel) ==
    /\ Dispatching("action") /\ Dispatched
    /\ fields[f] = Idle
    /\ \/ Top.owned /\ ~Latched /\ Stamp(Top.object, f, sel)
       \/ /\ ~Top.owned \/ Latched
          /\ fields' = [fields EXCEPT ![f] =
                        [use |-> objects[Top.object].use, key |-> 0, sel |-> sel]]
          /\ UNCHANGED <<contexts, refs, witnesses, disabled>>
    /\ UNCHANGED <<life, known, uses, objects, working, events>>

\* Engine strings count their holders: f gives up its block, g shares its own.
Recount(f, shared) ==
    [k \in Keys |-> refs[k] - (IF fields[f].key = k THEN 1 ELSE 0)
                            + (IF shared = k THEN 1 ELSE 0)]

NewAction(f, sel) ==
    /\ fields' = [fields EXCEPT ![f] = [Idle EXCEPT !.sel = sel]]
    /\ refs' = Recount(f, 0)
    /\ UNCHANGED <<life, known, uses, objects, contexts, witnesses, working, stack,
                   disabled, events>>

AssignAction(f, g) ==
    /\ f # g
    /\ fields' = [fields EXCEPT ![f] = fields[g]]
    /\ refs' = Recount(f, fields[g].key)
    /\ UNCHANGED <<life, known, uses, objects, contexts, witnesses, working, stack,
                   disabled, events>>

\* A holder the engine does not count: a bitwise copy of the action.
CopyUncounted(f, g) ==
    /\ events.uncounted + events.foreign < MaxEvents
    /\ fields[f].key = 0 /\ fields[g].key # 0
    /\ fields' = [fields EXCEPT ![f] = fields[g]]
    /\ events' = [events EXCEPT !.uncounted = @ + 1]
    /\ UNCHANGED <<life, known, uses, objects, contexts, refs, witnesses, working,
                   stack, disabled>>

\* The level is read back from what was stored.
LinkedLevels(c) == LateOr(c.level, Native)

\* Linked177Decode: the effect that opcode 177 decodes inherits everything.
LinkedChild(e) ==
    /\ At("link")
    /\ LET from == Context(Top.object)
           use == objects[Top.object].use
       IN \/ Top.owned = FALSE /\ MakeUnhooked(e, use)
          \/ /\ Top.owned
             /\ Context(e) # Unowned \/ (from # Unowned /\ Deep(from))
             /\ MakeFailed(e, use)
          \/ /\ Top.owned /\ Context(e) = Unowned
             /\ from # Unowned => ~Deep(from)
             /\ \E stored \in Puts(IF from = Unowned THEN Unowned
                                    ELSE [from EXCEPT !.depth = @ + 1, !.sel = "none"]) :
                   \E level \in LinkedLevels(stored) : Make(e, use, level, stored)
             /\ UNCHANGED disabled
    /\ UNCHANGED <<life, known, uses, fields, refs, witnesses, working, stack, events>>
-----------------------------------------------------------------------------
(* Casts: each entry captures its owner, the selection asks the reader's   *)
(* level, the children get it.                                             *)

Cast(sel, r, use, c, captured) ==
    [kind |-> "cast", object |-> r, sel |-> sel, use |-> use, context |-> c,
     captured |-> captured, state |-> "entered", level |-> Native]

\* The native entry stores its own level in the sprite: Spell always, another
\* cast perhaps.
NativeWorking(sel, r) ==
    \/ r \in Casters /\ working' = [working EXCEPT ![r] = Native]
    \/ ~(sel = "spell" /\ r \in Casters) /\ UNCHANGED working

\* Invocation: what the entry found to be its owner, or a failure.
Enter(frames, sel, r, use, c, captured) ==
    /\ Len(frames) < MaxStack
    /\ stack' = Append(frames, Cast(sel, r, use, c, captured))
    /\ disabled' = (disabled \/ ~captured)
    /\ NativeWorking(sel, r)
    /\ UNCHANGED <<life, known, uses, objects, fields, contexts, refs, witnesses, events>>

Done == Append(Front(stack), [Top EXCEPT !.done = TRUE])

\* EffectFire and FirePoint called by the innermost apply, on itself or on its
\* target.
CastDirect(r) ==
    /\ Dispatching("direct")
    /\ Enter(Done, IF r = None THEN "effectFire" ELSE "fire", r, objects[Top.object].use,
             IF Top.owned THEN Context(Top.object) ELSE Unowned, TRUE)

\* Fire called by the innermost message that runs.
CastMessage(r) ==
    /\ Dispatching("run")
    /\ LET c == Context(Top.object)
           matches == c = Unowned \/ c.sel = "fire"
       IN Enter(Done, "fire", r, objects[Top.object].use,
                IF matches THEN c ELSE Unowned, matches)

\* Force or Spell of the sprite's current action: the witness in its m_source.
CastAction(r) ==
    /\ fields[r].sel # "none"
    /\ LET key == fields[r].key
           c == IF key \in Live THEN Context(key) ELSE Unowned
           fits == /\ key \in Live => refs[key] > 0
                   /\ c = Unowned \/ c.sel = fields[r].sel
       IN Enter(stack, fields[r].sel, r, fields[r].use, IF fits THEN c ELSE Unowned, fits)

Continued(frame) ==
    IF frame.captured THEN Held([frame.context EXCEPT !.sel = "none"]) ELSE Unowned

\* CBMS_ContinueCastOwner: Spell fires at its further targets.
CastFurther ==
    /\ At("cast") /\ Top.sel = "spell" /\ Top.state = "selected"
    /\ Enter(stack, "fire", Top.object, Top.use,
             Continued(Top), TRUE)

\* A cast that no carrier started, inside whatever runs.
CastOther(r) == Enter(stack, "fire", r, 0, Unowned, TRUE)

Selected(level) == ReplaceTop([Top EXCEPT !.state = "selected", !.level = level])

\* CBMS_SelectCapturedNative up to the provider: the reader must be there.
Preselect ==
    /\ At("cast") /\ Top.state = "entered"
    /\ LET c == Held(Top.context)
       IN \/ /\ c = Unowned
             /\ ReplaceTop([Top EXCEPT !.state = "selected", !.context = Unowned])
             /\ UNCHANGED disabled
          \/ /\ c # Unowned /\ ReaderLives(c.use)
             /\ ReplaceTop([Top EXCEPT !.state = "resolving"])
             /\ UNCHANGED disabled
          \/ /\ c # Unowned /\ ~ReaderLives(c.use)
             /\ Selected(Native)
             /\ disabled' = TRUE
    /\ UNCHANGED <<life, known, uses, objects, fields, contexts, refs, witnesses,
                   working, events>>

\* Mutant: the reader is not looked at again when the provider returns.
StillReads_Unchecked(use) == TRUE
StillReads(use) == ReaderLives(use)

\* The provider returns, and meanwhile it may have run anything.  A spell type
\* with a native level, or a failure of the provider, selects no level.  The
\* level is written after the last look at the latch.
Resolved(native) ==
    /\ At("cast") /\ Top.state = "resolving"
    /\ LET use == Top.context.use
           reader == uses[use].actor
           level == IF native \/ Latched \/ ~StillReads(use) THEN Native
                    ELSE [actor |-> reader, life |-> life[reader]]
       IN /\ Selected(level)
          /\ disabled' = (disabled \/ ~StillReads(use))
          /\ working' = IF Top.sel = "spell" /\ level # Native
                        THEN [working EXCEPT ![Top.object] = level] ELSE working
    /\ UNCHANGED <<life, known, uses, objects, fields, contexts, refs, witnesses, events>>

\* Mutant: the cast outside is taken to own what one inside it makes.
Owner_Outer(frame) == stack[Min({i \in DOMAIN stack : stack[i].kind = "cast"})].context
Owner(frame) == frame.context

\* CBMS_SpellEffectCarrier: an effect of the spell.
Child(e) ==
    /\ At("cast") /\ Top.state = "selected"
    /\ LET c == Held(Owner(Top))
       IN \/ c = Unowned /\ MakeUnhooked(e, Top.use)
          \/ /\ c # Unowned /\ ~Deep(c) /\ Context(e) = Unowned
             /\ \E stored \in Puts([use |-> c.use, depth |-> c.depth + 1,
                                     level |-> Top.level, sel |-> "none"]) :
                   Make(e, Top.use, Top.level, stored)
             /\ UNCHANGED disabled
          \/ /\ c # Unowned /\ (Deep(c) \/ Context(e) # Unowned)
             /\ MakeFailed(e, Top.use)
    /\ UNCHANGED <<life, known, uses, fields, refs, witnesses, working, stack, events>>

\* Mutant: the outer cast's level is not written back.
Restored_Not(outer, r) == FALSE

\* The cast directly around this one had overridden the level of its sprite.
Restored(outer, r) ==
    /\ outer.kind = "cast" /\ outer.object = r /\ outer.sel = "spell"
    /\ outer.level # Native

OuterCast == SelectLastInSeq(Front(stack), LAMBDA frame : frame.kind = "cast")

EndCast ==
    /\ At("cast") /\ Top.state # "resolving"
    /\ stack' = Front(stack)
    /\ working' = IF OuterCast # 0 /\ Restored(stack[OuterCast], Top.object)
                  THEN [working EXCEPT ![Top.object] = stack[OuterCast].level]
                  ELSE working
    /\ UNCHANGED <<life, known, uses, objects, fields, contexts, refs, witnesses,
                   disabled, events>>

\* An item use, an apply or a message returns.
EndCall ==
    /\ stack # <<>> /\ Top.kind # "cast"
    /\ stack' = Front(stack)
    /\ UNCHANGED <<life, known, uses, objects, fields, contexts, refs, witnesses,
                   working, disabled, events>>
-----------------------------------------------------------------------------
\* Any reported error, and CBMS_DisableOverrides.
Disable ==
    /\ ~disabled /\ disabled' = TRUE
    /\ UNCHANGED <<life, known, uses, objects, fields, contexts, refs, witnesses,
                   working, stack, events>>

\* Another thread enters a hooked function, and its latch comes between a check
\* of the hook the engine's thread is in and what the hook does then.  Before
\* the check it is no other than Disable.
ForeignEntry ==
    /\ ~disabled /\ disabled' = TRUE /\ late' = TRUE
    /\ UNCHANGED <<life, known, uses, objects, fields, contexts, refs, witnesses,
                   working, stack, events>>

\* It runs the original alone, which destroys or replaces what the registry
\* knows; a hook at work has read what it needs before, and writes elsewhere.
ForeignCall ==
    /\ ~late /\ UNCHANGED late
    /\ events.uncounted + events.foreign < MaxEvents
    /\ events' = [events EXCEPT !.foreign = @ + 1]
    /\ disabled' = TRUE
    /\ \/ \E o \in Holders : /\ objects[o].alive /\ ~Running(o)
                             /\ objects' = [objects EXCEPT ![o] = Gone]
                             /\ UNCHANGED life
       \/ \E a \in Actors : /\ life[a] < MaxLife
                            /\ life' = [life EXCEPT ![a] = @ + 1]
                            /\ UNCHANGED objects
    /\ UNCHANGED <<known, uses, fields, contexts, refs, witnesses, working, stack>>

Init ==
    /\ life = [a \in Actors |-> 1] /\ known = [a \in Actors |-> 0]
    /\ uses = <<>> /\ stack = <<>> /\ disabled = FALSE /\ late = FALSE
    /\ objects = [o \in Holders |-> Gone]
    /\ fields = [f \in Fields |-> Idle]
    /\ contexts = [o \in Holders \cup Keys |-> Unowned]
    /\ refs = [k \in Keys |-> 0]
    /\ witnesses = [issued |-> 0, live |-> {}]
    /\ working = [r \in Casters |-> Native]
    /\ events = [foreign |-> 0, uncounted |-> 0]

\* A step of the engine's thread ends the hook it stood in.
Engine ==
    \/ \E a \in Actors : ActorReplaced(a) \/ \E observes \in BOOLEAN : BeginUse(a, observes)
    \/ \E e \in Effects : Root(e) \/ NewEffect(e) \/ LinkedChild(e) \/ Child(e)
    \/ \E from, to \in Effects : CopyEffect(from, to)
    \/ \E o \in Holders : Destroy(o)
    \/ \E e \in Effects, path \in Paths : Apply(e, path)
    \/ \E m \in Messages : QueueMessage(m) \/ RunMessage(m)
    \/ \E f \in Fields \ Casters, sel \in Verbs : QueueAction(f, sel)
    \/ \E f \in Fields, sel \in Verbs \cup {"none"} : NewAction(f, sel)
    \/ \E f, g \in Fields : AssignAction(f, g) \/ CopyUncounted(f, g)
    \/ \E r \in Receivers : CastDirect(r) \/ CastMessage(r) \/ CastOther(r)
    \/ \E r \in Casters : CastAction(r)
    \/ CastFurther \/ Preselect \/ \E native \in BOOLEAN : Resolved(native)
    \/ EndCast \/ EndCall \/ Disable

Next == (Engine /\ late' = FALSE) \/ ForeignEntry \/ ForeignCall

Spec == Init /\ [][Next]_vars
-----------------------------------------------------------------------------
Agrees(c, use) == c.use \in {0, use}

\* Nothing is ever taken for an effect of a scroll it does not come from: no
\* reused address, nested call, copied or dangling action carries a context to
\* another use, and an action only to the cast it was queued for.
OwnedIsTrue ==
    ~disabled =>
        /\ \A o \in Holders : objects[o].alive => Agrees(contexts[o], objects[o].use)
        /\ \A f \in Fields : fields[f].key \in Live =>
              LET c == contexts[fields[f].key]
              IN Agrees(c, fields[f].use) /\ c.sel = fields[f].sel
        /\ \A i \in DOMAIN stack : stack[i].kind = "cast" =>
              Agrees(stack[i].context, stack[i].use)

\* And while overrides are on, everything that comes from a scroll is known
\* to, through messages, copies, actions and casts inside casts.
OwnedIsFound ==
    ~disabled /\ events.uncounted = 0 =>
        /\ \A o \in Holders : objects[o].use # 0 => contexts[o].use = objects[o].use
        /\ \A f \in Fields : fields[f].use # 0 =>
              fields[f].key \in Live /\ contexts[fields[f].key].use = fields[f].use
        /\ \A i \in DOMAIN stack : stack[i].kind = "cast" =>
              stack[i].context.use = stack[i].use

\* The two together: what the registry takes for a scroll's is exactly that.
OwnedExactly == OwnedIsTrue /\ OwnedIsFound

ReaderOf(use) == [actor |-> uses[use].actor, life |-> uses[use].life]

\* A level that is not the engine's is the level of the very reader the effect
\* or the cast comes from, not of another actor at that address.
LevelIsReaders ==
    /\ \A o \in Holders : objects[o].level # Native =>
          objects[o].use # 0 /\ objects[o].level = ReaderOf(objects[o].use)
    /\ \A i \in DOMAIN stack : stack[i].kind = "cast" /\ stack[i].level # Native =>
          stack[i].use # 0 /\ stack[i].level = ReaderOf(stack[i].use)

\* What EffectExport asserts of every owned effect it saves.
SavedScalarMatches ==
    ~disabled => \A e \in Effects : objects[e].alive /\ contexts[e] # Unowned =>
        contexts[e].level = objects[e].level

\* Whoever has a level that is not the engine's has the reader's, and the
\* registry says so (Scope::select, Scope::child, Registry::linked177).
LevelIsTrue == LevelIsReaders /\ SavedScalarMatches

\* A context outlives its object only where another thread destroyed it: the
\* shutdown, which waits for every context, is never held up for good.
NothingLeftBehind ==
    /\ events.foreign = 0 =>
          \A o \in Holders : contexts[o] # Unowned => objects[o].alive
    /\ \A k \in Keys : contexts[k] # Unowned => k \in Live

\* Once disabled, nothing becomes owned and no effect or cast gets a level, but
\* for the one hook at work when another thread set the latch: "that one cast
\* can still get the reader's level; every later one uses the normal level"
\* (docs/scroll-casting.md:166).  LevelIsTrue says that it is the right reader's.
NothingAfterDisable ==
    [][disabled =>
        /\ ~late'
        /\ ~late =>
            /\ \A o \in Holders \cup Keys : contexts'[o] \in {contexts[o], Unowned}
            /\ \A o \in Holders : objects'[o].level # Native =>
                  \E e \in Effects : objects[e].level = objects'[o].level
            /\ Len(stack') = Len(stack) =>
                  \A i \in DOMAIN stack : stack'[i].kind = "cast" =>
                      stack'[i].level \in {stack[i].level, Native}]_vars

\* "A nested cast on the same sprite can overwrite the shared native working
\* level.  Restore only an owned outer Spell/Point scalar."  A Spell that
\* continues after the casts inside it finds its own level in the sprite.
WorkingLevel ==
    At("cast") /\ Top.sel = "spell" /\ Top.level # Native
        => working[Top.object] = Top.level
=============================================================================
