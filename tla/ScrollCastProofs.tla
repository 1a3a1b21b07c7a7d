---------------------------- MODULE ScrollCastProofs ----------------------------
(***************************************************************************)
(* For any actors, effects, messages, actions and any nesting of calls:    *)
(* what the registry takes for a scroll's is exactly that, a level is its  *)
(* reader's, no context is left behind and nothing becomes owned once the  *)
(* overrides are off.                                                      *)
(***************************************************************************)
EXTENDS ScrollCast, FiniteSetTheorems, SequenceTheorems, TLAPS

Level == [actor : Actors \cup {None}, life : Nat]
Use == [actor : Actors, gen : Nat, life : Nat]
Object == [alive : BOOLEAN, use : Nat, level : Level]
Action == [use : Nat, key : Nat, sel : Selectors]
Ownership == [use : Nat, depth : Nat, level : Level, sel : Selectors]

Dispatches == {"action", "message", "direct", "link"}
ItemFrame == [kind : {"item"}, object : Actors, use : Nat]
ApplyFrame == [kind : Dispatches, object : Effects, owned : BOOLEAN, done : BOOLEAN]
RunFrame == [kind : {"run"}, object : Messages, done : BOOLEAN]
CastFrame ==
    [kind : {"cast"}, object : Casters \cup {None}, sel : Selectors, use : Nat,
     context : Ownership, captured : BOOLEAN, state : {"entered", "resolving", "selected"},
     level : Level]
Frame == ItemFrame \cup ApplyFrame \cup RunFrame \cup CastFrame

Typed ==
    /\ life \in [Actors -> Nat] /\ known \in [Actors -> Nat]
    /\ uses \in Seq(Use)
    /\ objects \in [Holders -> Object]
    /\ fields \in [Fields -> Action]
    /\ contexts \in [Holders \cup Keys -> Ownership]
    /\ refs \in [Keys -> Int]
    /\ witnesses \in [issued : Nat, live : SUBSET Keys]
    /\ stack \in Seq(Frame)
    /\ disabled \in BOOLEAN /\ late \in BOOLEAN /\ (late => disabled)
    /\ events \in [foreign : Nat, uncounted : Nat]

Whole == ~Latched /\ events.uncounted = 0

\* A scroll that was read while the overrides are on has its reader's life.
Readers ==
    /\ events.foreign # 0 => Latched
    /\ ~Latched =>
         /\ \A a \in Actors : known[a] \in {0, life[a]}
         /\ \A u \in DOMAIN uses : uses[u].gen = uses[u].life /\ uses[u].gen # 0

UsedBy(u) == u \in 0..Len(uses)
Owning(c) == c = Unowned \/ c.use \in 1..Len(uses)
LevelOf(level, u) == level # Native => u # 0 /\ level = ReaderOf(u)

\* An effect or a message, its context and its level.
ObjectOk(o) ==
    /\ UsedBy(objects[o].use) /\ Owning(contexts[o])
    /\ ~objects[o].alive => objects[o] = Gone
    /\ o \in Messages => objects[o].level = Native
    /\ LevelOf(objects[o].level, objects[o].use)
    /\ events.foreign = 0 /\ contexts[o] # Unowned => objects[o].alive
    /\ ~Latched => Agrees(contexts[o], objects[o].use)
    /\ ~Latched /\ o \in Effects /\ contexts[o] # Unowned => contexts[o].level = objects[o].level
    /\ Whole => contexts[o].use = objects[o].use
ObjectsOk == \A o \in Holders : ObjectOk(o)

\* A witness: its context goes when it is no longer live.
KeysOk ==
    /\ witnesses.live \subseteq 1..witnesses.issued
    /\ \A k \in Keys : Owning(contexts[k]) /\ (contexts[k] # Unowned => k \in Live)

\* An action and the witness in its m_source.
FieldOk(f) ==
    /\ UsedBy(fields[f].use)
    /\ fields[f].key <= witnesses.issued
    /\ ~Latched /\ fields[f].key \in Live =>
         /\ Agrees(contexts[fields[f].key], fields[f].use)
         /\ contexts[fields[f].key].sel = fields[f].sel
    /\ Whole /\ fields[f].use # 0 =>
         fields[f].key \in Live /\ contexts[fields[f].key].use = fields[f].use
FieldsOk == \A f \in Fields : FieldOk(f)

\* A reference is counted for every action that holds the witness.
HoldersOf(k) == {f \in Fields : fields[f].key = k}
Counted == events.uncounted = 0 => \A k \in Keys : refs[k] = Cardinality(HoldersOf(k))

\* An open call: what it runs on stays, and what it captured stays true.
FrameOk(f) ==
    /\ f.kind = "item" => UsedBy(f.use)
    /\ f.kind \in Dispatches \cup {"run"} => objects[f.object].alive
    /\ f.kind \in Dispatches /\ ~Latched => (f.owned <=> contexts[f.object] # Unowned)
    /\ f.kind = "cast" =>
         /\ UsedBy(f.use) /\ Owning(f.context)
         /\ LevelOf(f.level, f.use)
         /\ ~f.captured => Latched
         /\ f.state = "resolving" => f.context # Unowned
         /\ ~Latched => Agrees(f.context, f.use)
         /\ Whole => f.context.use = f.use
FramesOk == \A i \in DOMAIN stack : FrameOk(stack[i])

IInv ==
    /\ Typed
    /\ Readers
    /\ ObjectsOk
    /\ KeysOk
    /\ FieldsOk
    /\ Counted
    /\ FramesOk
-----------------------------------------------------------------------------
(* The stack.                                                               *)

In(s, f) == \E i \in DOMAIN s : s[i] = f

LEMMA FrameSeq ==
    ASSUME NEW s \in Seq(Frame)
    PROVE  Len(s) \in Nat /\ DOMAIN s = 1..Len(s) /\ \A f : In(s, f) => f \in Frame
<1>1. Len(s) \in Nat /\ DOMAIN s = 1..Len(s) /\ \A i \in DOMAIN s : s[i] \in Frame
  BY LenProperties, ElementOfSeq
<1> QED
  BY <1>1 DEF In

LEMMA AppendFrame ==
    ASSUME NEW s \in Seq(Frame), NEW x \in Frame
    PROVE  /\ Append(s, x) \in Seq(Frame) /\ Len(Append(s, x)) = Len(s) + 1
           /\ \A f : In(Append(s, x), f) => f = x \/ In(s, f)
           /\ \A i \in 1..Len(s) : Append(s, x)[i] = s[i]
           /\ Append(s, x)[Len(s) + 1] = x
<1>1. /\ Append(s, x) \in Seq(Frame) /\ Len(Append(s, x)) = Len(s) + 1
      /\ \A i \in 1..Len(s) : Append(s, x)[i] = s[i]
      /\ Append(s, x)[Len(s) + 1] = x
  BY AppendProperties
<1>2. Len(s) \in Nat /\ DOMAIN s = 1..Len(s) /\ DOMAIN Append(s, x) = 1..(Len(s) + 1)
  BY <1>1, FrameSeq
<1>3. 1..(Len(s) + 1) = 1..Len(s) \cup {Len(s) + 1}
  BY <1>2
<1> DEFINE a == Append(s, x)
<1> HIDE DEF a
<1>4. \A f : In(a, f) => f = x \/ In(s, f)
  BY <1>1, <1>2, <1>3 DEF In, a
<1> QED
  BY <1>1, <1>4 DEF a

LEMMA FrontFrame ==
    ASSUME NEW s \in Seq(Frame), s # <<>>
    PROVE  /\ Front(s) \in Seq(Frame) /\ Len(Front(s)) = Len(s) - 1 /\ Len(s) >= 1
           /\ \A f : In(Front(s), f) => In(s, f)
           /\ \A i \in 1..(Len(s) - 1) : Front(s)[i] = s[i]
           /\ Last(s) \in Frame /\ In(s, Last(s)) /\ Last(s) = s[Len(s)]
<1>1. Len(s) \in Nat /\ DOMAIN s = 1..Len(s) /\ Len(s) # 0
  BY FrameSeq, EmptySeq, LenProperties
<1>2. Last(s) \in Frame /\ In(s, Last(s)) /\ Last(s) = s[Len(s)]
  BY <1>1, ElementOfSeq DEF Last, In
<1>3. \A i \in 1..(Len(s) - 1) : s[i] \in Frame
  BY <1>1, ElementOfSeq
<1>4. /\ Front(s) \in Seq(Frame) /\ Len(Front(s)) = Len(s) - 1
      /\ \A i \in 1..(Len(s) - 1) : Front(s)[i] = s[i]
  BY <1>1, <1>3, SubSeqProperties DEF Front
<1>5. DOMAIN Front(s) = 1..(Len(s) - 1)
  BY <1>4, FrameSeq
<1> DEFINE front == Front(s)
<1> HIDE DEF front
<1>6. \A f : In(front, f) => In(s, f)
  BY <1>1, <1>4, <1>5 DEF In, front
<1> QED
  BY <1>1, <1>2, <1>4, <1>6 DEF front

\* The innermost call gives way to another record of it.
LEMMA ReplacedFrame ==
    ASSUME NEW s \in Seq(Frame), s # <<>>, NEW x \in Frame
    PROVE  /\ Append(Front(s), x) \in Seq(Frame) /\ Len(Append(Front(s), x)) = Len(s)
           /\ \A f : In(Append(Front(s), x), f) => f = x \/ In(s, f)
           /\ \A i \in 1..(Len(s) - 1) : Append(Front(s), x)[i] = s[i]
           /\ Append(Front(s), x)[Len(s)] = x
<1>1. /\ Front(s) \in Seq(Frame) /\ Len(Front(s)) = Len(s) - 1 /\ Len(s) >= 1 /\ Len(s) \in Nat
      /\ \A f : In(Front(s), f) => In(s, f)
      /\ \A i \in 1..(Len(s) - 1) : Front(s)[i] = s[i]
  BY FrontFrame, FrameSeq
<1> DEFINE front == Front(s)
<1> HIDE DEF front
<1>2. /\ Append(front, x) \in Seq(Frame) /\ Len(Append(front, x)) = Len(front) + 1
      /\ \A f : In(Append(front, x), f) => f = x \/ In(front, f)
      /\ \A i \in 1..Len(front) : Append(front, x)[i] = front[i]
      /\ Append(front, x)[Len(front) + 1] = x
  BY <1>1, AppendFrame DEF front
<1>3. Len(front) = Len(s) - 1
  BY <1>1 DEF front
<1> QED
  BY <1>1, <1>2, <1>3 DEF front

LEMMA FrameKinds ==
    ASSUME NEW f \in Frame
    PROVE  /\ f.kind = "item" => f \in ItemFrame
           /\ f.kind \in Dispatches => f \in ApplyFrame
           /\ f.kind = "run" => f \in RunFrame
           /\ f.kind = "cast" => f \in CastFrame
BY DEF Frame, ItemFrame, ApplyFrame, RunFrame, CastFrame, Dispatches

LEMMA FramesIn ==
    ASSUME NEW s
    PROVE  (\A i \in DOMAIN s : FrameOk(s[i])) <=> \A f : In(s, f) => FrameOk(f)
BY DEF In
-----------------------------------------------------------------------------
(* The latch.                                                               *)

\* It stays set, and what a hook sees of it too.
Latching ==
    /\ disabled' \in BOOLEAN /\ late' \in BOOLEAN /\ (late' => disabled')
    /\ Latched => Latched'

LEMMA EngineLatching ==
    ASSUME IInv, late' = FALSE, disabled' \in BOOLEAN, disabled => disabled'
    PROVE  Latching /\ (Latched' <=> disabled') /\ (~disabled => ~late)
BY DEF IInv, Typed, Latching, Latched

\* Where a hook does not fail, the latch is as it was.
LEMMA SameLatching ==
    ASSUME IInv, late' = FALSE, disabled' = disabled
    PROVE  Latching
BY EngineLatching DEF IInv, Typed

\* What is stored is the context or none, and none only behind the latch.
LEMMA PutsFact ==
    ASSUME IInv, late' = FALSE, disabled' = disabled, NEW c, NEW stored \in Puts(c)
    PROVE  stored \in {c, Unowned} /\ (~Latched' => stored = c)
BY EngineLatching DEF Puts, LateOr, Held, Latched, IInv, Typed
-----------------------------------------------------------------------------
(* What a step leaves as it is.                                             *)

Steady ==
    /\ Latched => Latched'
    /\ events'.foreign = 0 => events.foreign = 0
    /\ events'.uncounted = 0 => events.uncounted = 0
    /\ Len(uses') \in Nat /\ Len(uses) <= Len(uses')
    /\ \A u \in 1..Len(uses) : uses'[u] = uses[u]

LEMMA UsesSeq ==
    ASSUME Typed
    PROVE  /\ Len(uses) \in Nat /\ DOMAIN uses = 1..Len(uses)
           /\ \A u \in 1..Len(uses) : uses[u] \in Use
BY LenProperties, ElementOfSeq DEF Typed

\* The scrolls read so far keep their numbers and readers.
LEMMA SteadyUses ==
    ASSUME Typed, Steady
    PROVE  /\ \A u : UsedBy(u) => UsedBy(u)'
           /\ \A c : Owning(c) => Owning(c)'
           /\ \A u \in 1..Len(uses) : ReaderOf(u)' = ReaderOf(u)
           /\ \A level, u : UsedBy(u) /\ LevelOf(level, u) => LevelOf(level, u)'
<1>1. Len(uses) \in Nat /\ Len(uses') \in Nat /\ Len(uses) <= Len(uses')
  BY UsesSeq DEF Steady
<1>2. \A u : UsedBy(u) => UsedBy(u)'
  BY <1>1 DEF UsedBy
<1>3. \A c : Owning(c) => Owning(c)'
  BY <1>1 DEF Owning
<1>4. \A u \in 1..Len(uses) : ReaderOf(u)' = ReaderOf(u)
  BY DEF ReaderOf, Steady
<1>5. \A u : UsedBy(u) /\ u # 0 => u \in 1..Len(uses)
  BY <1>1 DEF UsedBy
<1>6. \A level, u : UsedBy(u) /\ LevelOf(level, u) => LevelOf(level, u)'
  BY <1>4, <1>5 DEF LevelOf
<1> QED
  BY <1>2, <1>3, <1>4, <1>6

LEMMA SteadyFlags ==
    ASSUME Steady
    PROVE  /\ ~Latched' => ~Latched
           /\ Whole' => Whole
           /\ events'.foreign = 0 => events.foreign = 0
BY DEF Steady, Whole

LEMMA ObjectSame ==
    ASSUME IInv, Steady, NEW o \in Holders, objects'[o] = objects[o], contexts'[o] = contexts[o]
    PROVE  ObjectOk(o)'
<1>1. ObjectOk(o)
  BY DEF IInv, ObjectsOk
<1>2. UsedBy(objects[o].use)' /\ Owning(contexts[o])' /\ LevelOf(objects[o].level, objects[o].use)'
  <2>1. Typed
    BY DEF IInv
  <2>2. \A u : UsedBy(u) => UsedBy(u)'
    BY <2>1, SteadyUses
  <2>3. \A c : Owning(c) => Owning(c)'
    BY <2>1, SteadyUses
  <2>4. \A level, u : UsedBy(u) /\ LevelOf(level, u) => LevelOf(level, u)'
    BY <2>1, SteadyUses
  <2>5. UsedBy(objects[o].use) /\ Owning(contexts[o]) /\ LevelOf(objects[o].level, objects[o].use)
    BY <1>1 DEF ObjectOk
  <2>6. UsedBy(objects[o].use)'
    BY <2>2, <2>5 DEF UsedBy
  <2>7. Owning(contexts[o])'
    BY <2>3, <2>5 DEF Owning
  <2>8. LevelOf(objects[o].level, objects[o].use)'
    BY <2>4, <2>5 DEF LevelOf, ReaderOf
  <2> QED
    BY <2>6, <2>7, <2>8
<1> QED
  BY <1>1, <1>2, SteadyFlags DEF ObjectOk, Agrees

LEMMA ObjectsKeep ==
    ASSUME IInv, Steady, NEW S, S \subseteq Holders,
           \A o \in Holders \ S : objects'[o] = objects[o] /\ contexts'[o] = contexts[o],
           \A o \in S : ObjectOk(o)'
    PROVE  ObjectsOk'
BY ObjectSame DEF ObjectsOk

LEMMA KeysSame ==
    ASSUME IInv, Steady, UNCHANGED <<fields, refs, witnesses>>,
           \A k \in Keys : contexts'[k] = contexts[k]
    PROVE  KeysOk' /\ FieldsOk' /\ Counted'
<1>1. Typed /\ KeysOk /\ FieldsOk /\ Counted
  BY DEF IInv
<1>2. /\ \A u : UsedBy(u) => UsedBy(u)'
      /\ \A c : Owning(c) => Owning(c)'
  BY <1>1, SteadyUses
<1>3. Live \subseteq Keys
  BY <1>1 DEF Typed, Live
<1>4. KeysOk'
  <2>1. ASSUME NEW k \in Keys PROVE Owning(contexts[k])' /\ (contexts'[k] # Unowned => k \in Live)
    BY <1>1, <1>2 DEF KeysOk, Owning
  <2> QED
    BY <1>1, <2>1 DEF KeysOk, Live
<1>5. FieldsOk'
  <2> SUFFICES ASSUME NEW f \in Fields PROVE FieldOk(f)'
    BY DEF FieldsOk
  <2>1. FieldOk(f)
    BY <1>1 DEF FieldsOk
  <2>2. UsedBy(fields[f].use)'
    BY <1>2, <2>1 DEF FieldOk, UsedBy
  <2> QED
    BY <1>3, <2>1, <2>2, SteadyFlags DEF FieldOk, Live
<1>6. Counted'
  BY <1>1 DEF Counted, HoldersOf, Steady
<1> QED
  BY <1>4, <1>5, <1>6

\* A call that runs on nothing the step changes.
LEMMA FrameSame ==
    ASSUME IInv, Steady, NEW f \in Frame, FrameOk(f),
           f.kind \in Dispatches \cup {"run"} => objects'[f.object].alive,
           f.kind \in Dispatches => contexts'[f.object] = contexts[f.object]
    PROVE  FrameOk(f)'
<1>1. Typed
  BY DEF IInv
<1>2. /\ \A u : UsedBy(u) => UsedBy(u)'
      /\ \A c : Owning(c) => Owning(c)'
      /\ \A level, u : UsedBy(u) /\ LevelOf(level, u) => LevelOf(level, u)'
  BY <1>1, SteadyUses
<1>3. f.kind = "item" => UsedBy(f.use)'
  BY <1>2 DEF FrameOk
<1>4. f.kind \in Dispatches /\ ~Latched' => (f.owned <=> contexts'[f.object] # Unowned)
  BY SteadyFlags DEF FrameOk
<1>5. ASSUME f.kind = "cast"
      PROVE  /\ UsedBy(f.use)' /\ Owning(f.context)' /\ LevelOf(f.level, f.use)'
             /\ ~f.captured => Latched'
             /\ f.state = "resolving" => f.context # Unowned
             /\ ~Latched' => Agrees(f.context, f.use)
             /\ Whole' => f.context.use = f.use
  BY <1>2, <1>5, SteadyFlags DEF FrameOk, Steady
<1> QED
  BY <1>3, <1>4, <1>5 DEF FrameOk, Agrees

RunningOn(o) == \E f : In(stack, f) /\ f.kind \in Dispatches \cup {"run"} /\ f.object = o

LEMMA FramesKeep ==
    ASSUME IInv, Steady, NEW S,
           \A o \in Holders \ S : objects'[o] = objects[o] /\ contexts'[o] = contexts[o],
           \A o \in S : ~RunningOn(o),
           \A f : In(stack', f) => In(stack, f) \/ FrameOk(f)'
    PROVE  FramesOk'
<1>1. \A f : In(stack, f) => FrameOk(f)
  BY FramesIn DEF IInv, FramesOk
<1>2. ASSUME NEW f, In(stack, f) PROVE FrameOk(f)'
  <2>1. f \in Frame
    BY <1>2, FrameSeq DEF IInv, Typed
  <2>2. f.kind \in Dispatches \cup {"run"} => f.object \in Holders
    BY <2>1, FrameKinds DEF ApplyFrame, RunFrame, Holders
  <2>3. f.kind \in Dispatches \cup {"run"} =>
          objects'[f.object] = objects[f.object] /\ contexts'[f.object] = contexts[f.object]
    BY <1>2, <2>2 DEF RunningOn
  <2>4. f.kind \in Dispatches \cup {"run"} => objects'[f.object].alive
    BY <1>1, <1>2, <2>3 DEF FrameOk
  <2> QED
    BY <1>1, <1>2, <2>1, <2>3, <2>4, FrameSame
<1>3. \A f : In(stack', f) => FrameOk(f)'
  BY <1>2
<1> QED
  BY <1>3 DEF FramesOk, In

\* The innermost calls come and go while everything else stays.
LEMMA Undisturbed ==
    ASSUME IInv, Steady, UNCHANGED <<objects, fields, contexts, refs, witnesses>>,
           \A f : In(stack', f) => In(stack, f) \/ FrameOk(f)'
    PROVE  ObjectsOk' /\ KeysOk' /\ FieldsOk' /\ Counted' /\ FramesOk'
<1>1. ObjectsOk'
  BY ObjectSame DEF ObjectsOk
<1>2. KeysOk' /\ FieldsOk' /\ Counted'
  BY KeysSame
<1>3. FramesOk'
  <2> DEFINE S == {}
  <2>1. \A o \in Holders \ S : objects'[o] = objects[o] /\ contexts'[o] = contexts[o]
    OBVIOUS
  <2>2. \A o \in S : ~RunningOn(o)
    OBVIOUS
  <2> HIDE DEF S
  <2> QED
    BY <2>1, <2>2, FramesKeep
<1> QED
  BY <1>1, <1>2, <1>3

\* A call is entered, goes on or returns.
LEMMA CallKeeps ==
    ASSUME IInv, UNCHANGED <<life, uses, objects, fields, contexts, refs, witnesses, events>>,
           Latching,
           known' \in [Actors -> Nat], \A a \in Actors : known'[a] \in {0, known[a], life[a]},
           stack' \in Seq(Frame),
           \A f : In(stack', f) => In(stack, f) \/ FrameOk(f)'
    PROVE  IInv'
<1>1. Typed /\ Readers
  BY DEF IInv
<1>2. Steady
  <2>1. Len(uses) \in Nat
    BY <1>1, UsesSeq
  <2> QED
    BY <2>1 DEF Steady, Latching
<1>3. ObjectsOk' /\ KeysOk' /\ FieldsOk' /\ Counted' /\ FramesOk'
  BY <1>2, Undisturbed
<1>4. Typed'
  BY <1>1 DEF Typed, Latching
<1>5. Readers'
  BY <1>1 DEF Readers, Latching
<1> QED
  BY <1>3, <1>4, <1>5 DEF IInv

LEMMA TopFacts ==
    ASSUME IInv, stack # <<>>
    PROVE  /\ Top \in Frame /\ In(stack, Top) /\ FrameOk(Top) /\ stack \in Seq(Frame)
           /\ Len(stack) \in Nat \ {0} /\ Top = stack[Len(stack)]
<1>1. stack \in Seq(Frame) /\ Len(stack) \in Nat
  BY FrameSeq DEF IInv, Typed
<1>2. Top \in Frame /\ In(stack, Top) /\ Top = stack[Len(stack)] /\ Len(stack) >= 1
  BY <1>1, FrontFrame DEF Top
<1>3. FrameOk(Top)
  BY <1>2, FramesIn DEF IInv, FramesOk
<1> QED
  BY <1>1, <1>2, <1>3

LEMMA PushFact ==
    ASSUME IInv, NEW x \in Frame, Push(x), FrameOk(x)'
    PROVE  stack' \in Seq(Frame) /\ \A f : In(stack', f) => In(stack, f) \/ FrameOk(f)'
<1>1. stack \in Seq(Frame)
  BY DEF IInv, Typed
<1>2. /\ stack' \in Seq(Frame)
      /\ \A f : In(stack', f) => f = x \/ In(stack, f)
  BY <1>1, AppendFrame DEF Push
<1> QED
  BY <1>2

LEMMA ReplaceFact ==
    ASSUME IInv, stack # <<>>, NEW x \in Frame, ReplaceTop(x), FrameOk(x)'
    PROVE  stack' \in Seq(Frame) /\ \A f : In(stack', f) => In(stack, f) \/ FrameOk(f)'
<1>1. stack \in Seq(Frame)
  BY DEF IInv, Typed
<1>2. /\ stack' \in Seq(Frame)
      /\ \A f : In(stack', f) => f = x \/ In(stack, f)
  BY <1>1, ReplacedFrame DEF ReplaceTop
<1> QED
  BY <1>2

LEMMA BeginUseKeeps == ASSUME IInv, late' = FALSE, NEW a \in Actors, NEW observes \in BOOLEAN, BeginUse(a, observes) PROVE IInv'
<1>1. Typed
  BY DEF IInv
<1> DEFINE x == [kind |-> "item", object |-> a, use |-> 0]
<1>2. x \in Frame /\ x.kind = "item" /\ x.use = 0
  BY DEF Frame, ItemFrame
<1>3. Push(x)
  BY DEF BeginUse
<1> HIDE DEF x
<1>4. FrameOk(x)'
  <2>1. UsedBy(0)'
    BY <1>1, UsesSeq DEF BeginUse, UsedBy
  <2> QED
    BY <1>2, <2>1 DEF FrameOk, Dispatches
<1>5. stack' \in Seq(Frame) /\ \A f : In(stack', f) => In(stack, f) \/ FrameOk(f)'
  BY <1>2, <1>3, <1>4, PushFact
<1>6. known' \in [Actors -> Nat] /\ \A b \in Actors : known'[b] \in {0, known[b], life[b]}
  BY <1>1 DEF BeginUse, Typed
<1>7. Latching
  BY SameLatching DEF BeginUse
<1> QED
  BY <1>5, <1>6, <1>7, CallKeeps DEF BeginUse

LEMMA ApplyKeeps == ASSUME IInv, late' = FALSE, NEW e \in Effects, NEW path \in Paths, Apply(e, path) PROVE IInv'
<1>1. Typed
  BY DEF IInv
<1>2. PICK x \in Frame : x = [kind |-> path, object |-> e, owned |-> Context(e) # Unowned, done |-> FALSE]
  <2>1. path \in Dispatches
    BY ScrollAssumption DEF Dispatches
  <2> DEFINE call == [kind |-> path, object |-> e, owned |-> Context(e) # Unowned, done |-> FALSE]
  <2>2. call \in ApplyFrame
    BY <2>1 DEF ApplyFrame
  <2>3. call \in Frame
    BY <2>2 DEF Frame
  <2> HIDE DEF call
  <2>4. \E x \in Frame : x = call
    BY <2>3
  <2> QED
    BY <2>4 DEF call
<1>3. Push(x)
  BY <1>2 DEF Apply
<1>4. FrameOk(x)'
  <2>1. x.kind \in Dispatches /\ x.object = e /\ x.owned = (Context(e) # Unowned)
    BY <1>2, ScrollAssumption DEF Dispatches
  <2>2. Latching
    BY SameLatching DEF Apply
  <2> QED
    BY <2>1, <2>2 DEF FrameOk, Dispatches, Apply, Context, Held, Latching
<1>5. stack' \in Seq(Frame) /\ \A f : In(stack', f) => In(stack, f) \/ FrameOk(f)'
  BY <1>3, <1>4, PushFact
<1>6. UNCHANGED <<life, known, uses, objects, fields, contexts, refs, witnesses, disabled, events>>
  BY DEF Apply
<1> QED
  BY <1>1, <1>5, <1>6, SameLatching, CallKeeps DEF Typed

LEMMA RunMessageKeeps == ASSUME IInv, late' = FALSE, NEW m \in Messages, RunMessage(m) PROVE IInv'
<1>1. Typed
  BY DEF IInv
<1> DEFINE x == [kind |-> "run", object |-> m, done |-> FALSE]
<1>2. x \in Frame /\ x.kind = "run" /\ x.object = m
  BY DEF Frame, RunFrame
<1>3. Push(x)
  BY DEF RunMessage
<1> HIDE DEF x
<1>4. FrameOk(x)'
  BY <1>2 DEF FrameOk, Dispatches, RunMessage
<1>5. stack' \in Seq(Frame) /\ \A f : In(stack', f) => In(stack, f) \/ FrameOk(f)'
  BY <1>2, <1>3, <1>4, PushFact
<1>6. UNCHANGED <<life, known, uses, objects, fields, contexts, refs, witnesses, disabled, events>>
  BY DEF RunMessage
<1> QED
  BY <1>1, <1>5, <1>6, SameLatching, CallKeeps DEF Typed

LEMMA EndKeeps == ASSUME IInv, late' = FALSE, EndCast \/ EndCall PROVE IInv'
<1>1. Typed
  BY DEF IInv
<1>2. stack # <<>> /\ stack' = Front(stack)
  BY DEF EndCast, EndCall, At
<1>3. stack' \in Seq(Frame) /\ \A f : In(stack', f) => In(stack, f)
  BY <1>1, <1>2, FrontFrame DEF Typed
<1>4. UNCHANGED <<life, known, uses, objects, fields, contexts, refs, witnesses, disabled, events>>
  BY DEF EndCast, EndCall
<1> QED
  BY <1>1, <1>3, <1>4, SameLatching, CallKeeps DEF Typed
-----------------------------------------------------------------------------
(* Casts.                                                                   *)

LEMMA KindFacts ==
    ASSUME IInv, stack # <<>>
    PROVE  /\ Top.kind = "item" => Top \in ItemFrame /\ UsedBy(Top.use)
           /\ Top.kind \in Dispatches => Top \in ApplyFrame /\ objects[Top.object].alive
           /\ Top.kind = "run" => Top \in RunFrame /\ objects[Top.object].alive
           /\ Top.kind = "cast" => Top \in CastFrame
BY TopFacts, FrameKinds DEF FrameOk

\* The innermost call has done what it was for.
LEMMA DoneFact ==
    ASSUME IInv, stack # <<>>, Top.kind \in Dispatches \cup {"run"}
    PROVE  /\ [Top EXCEPT !.done = TRUE] \in Frame
           /\ FrameOk([Top EXCEPT !.done = TRUE])
           /\ Done \in Seq(Frame) /\ \A f : In(Done, f) => FrameOk(f)
<1> DEFINE x == [Top EXCEPT !.done = TRUE]
<1>1. Top \in ApplyFrame \cup RunFrame
  BY KindFacts DEF Dispatches
<1>2. x \in Frame /\ x.kind = Top.kind /\ x.object = Top.object /\ (Top.kind \in Dispatches => x.owned = Top.owned)
  <2>1. CASE Top \in ApplyFrame
    <3>1. x \in ApplyFrame /\ x.kind = Top.kind /\ x.object = Top.object /\ x.owned = Top.owned
      BY <2>1 DEF ApplyFrame
    <3> QED
      BY <3>1 DEF Frame
  <2>2. CASE Top \in RunFrame
    <3>1. x \in RunFrame /\ x.kind = Top.kind /\ x.object = Top.object /\ Top.kind = "run"
      BY <2>2 DEF RunFrame
    <3> QED
      BY <3>1 DEF Frame, Dispatches
  <2> QED
    BY <1>1, <2>1, <2>2
<1>3. Done = Append(Front(stack), x)
  BY DEF Done
<1> HIDE DEF x
<1>4. FrameOk(x)
  BY <1>2, TopFacts DEF FrameOk, Dispatches
<1>5. stack \in Seq(Frame) /\ \A f : In(stack, f) => FrameOk(f)
  BY FramesIn DEF IInv, Typed, FramesOk
<1>6. Done \in Seq(Frame) /\ \A f : In(Done, f) => f = x \/ In(stack, f)
  BY <1>2, <1>3, <1>5, ReplacedFrame
<1> QED
  BY <1>2, <1>4, <1>5, <1>6 DEF x

LEMMA EnterKeeps ==
    ASSUME IInv, NEW frames \in Seq(Frame), \A f : In(frames, f) => FrameOk(f),
           NEW x \in CastFrame, stack' = Append(frames, x), disabled' = (disabled \/ ~x.captured),
           late' = FALSE,
           UNCHANGED <<life, known, uses, objects, fields, contexts, refs, witnesses, events>>,
           UsedBy(x.use), Owning(x.context), x.level = Native, x.state = "entered",
           ~Latched /\ x.captured => Agrees(x.context, x.use),
           Whole /\ x.captured => x.context.use = x.use
    PROVE  IInv'
<1>1. Typed
  BY DEF IInv
<1>2. x \in Frame /\ x.kind = "cast" /\ x.captured \in BOOLEAN
  BY DEF Frame, CastFrame
<1>3. stack' \in Seq(Frame) /\ \A f : In(stack', f) => f = x \/ In(frames, f)
  BY <1>2, AppendFrame
<1>4. Latching /\ (~x.captured => Latched')
  BY <1>1, <1>2, EngineLatching DEF Typed
<1>5. Steady
  <2>1. Len(uses) \in Nat
    BY <1>1, UsesSeq
  <2> QED
    BY <1>4, <2>1 DEF Steady, Latching
<1>6. FrameOk(x)'
  <2>1. UsedBy(x.use)' /\ Owning(x.context)'
    BY <1>1, <1>5, SteadyUses
  <2>2. LevelOf(x.level, x.use)'
    BY DEF LevelOf
  <2> QED
    BY <1>2, <1>4, <2>1, <2>2 DEF FrameOk, Dispatches, Whole, Agrees, Latching
<1>7. ASSUME NEW f, In(frames, f) PROVE FrameOk(f)'
  <2>1. f \in Frame /\ FrameOk(f)
    BY <1>7, FrameSeq
  <2>2. f.kind \in Dispatches \cup {"run"} => objects'[f.object].alive
    BY <2>1 DEF FrameOk
  <2> QED
    BY <1>5, <2>1, <2>2, FrameSame
<1>8. known' \in [Actors -> Nat] /\ \A a \in Actors : known'[a] \in {0, known[a], life[a]}
  BY <1>1 DEF Typed
<1>9. \A f : In(stack', f) => In(stack, f) \/ FrameOk(f)'
  BY <1>3, <1>6, <1>7
<1> QED
  BY <1>3, <1>4, <1>8, <1>9, CallKeeps

\* What a call in the engine has that any step may need.
LEMMA ObjectTypes ==
    ASSUME IInv, NEW o \in Holders
    PROVE  /\ objects[o] \in Object /\ contexts[o] \in Ownership
           /\ objects[o].alive \in BOOLEAN /\ objects[o].use \in Nat /\ objects[o].level \in Level
           /\ Context(o) \in Ownership /\ Context(o) \in {contexts[o], Unowned}
           /\ ObjectOk(o)
<1>1. objects[o] \in Object /\ contexts[o] \in Ownership /\ ObjectOk(o)
  BY DEF IInv, Typed, ObjectsOk
<1>2. Unowned \in Ownership
  BY DEF Unowned, Ownership, Native, Level, Selectors
<1> QED
  BY <1>1, <1>2 DEF Object, Context, Held

LEMMA CastFrameFact ==
    ASSUME NEW sel \in Selectors, NEW r \in Casters \cup {None}, NEW use \in Nat,
           NEW c \in Ownership, NEW captured \in BOOLEAN
    PROVE  LET x == Cast(sel, r, use, c, captured)
           IN  /\ x \in CastFrame /\ x.use = use /\ x.context = c /\ x.captured = captured
               /\ x.level = Native /\ x.state = "entered"
BY DEF Cast, CastFrame, Native, Level

LEMMA UnownedFact ==
    /\ Unowned \in Ownership /\ Unowned.use = 0
    /\ IInv => UsedBy(0) /\ Owning(Unowned)
<1>1. Unowned \in Ownership /\ Unowned.use = 0
  BY DEF Unowned, Ownership, Native, Level, Selectors
<1>2. IInv => UsedBy(0) /\ Owning(Unowned)
  BY UsesSeq DEF IInv, UsedBy, Owning
<1> QED
  BY <1>1, <1>2

LEMMA CastDirectKeeps == ASSUME IInv, late' = FALSE, NEW r \in Receivers, CastDirect(r) PROVE IInv'
<1>1. stack # <<>> /\ Top.kind = "direct"
  BY DEF CastDirect, Dispatching, At
<1>2. Top \in ApplyFrame /\ FrameOk(Top) /\ Top.kind \in Dispatches
  BY <1>1, KindFacts, TopFacts DEF Dispatches
<1> DEFINE o == Top.object
           c == IF Top.owned THEN Context(o) ELSE Unowned
           sel == IF r = None THEN "effectFire" ELSE "fire"
<1>3. o \in Holders
  BY <1>2 DEF ApplyFrame, Holders
<1>4. c \in Ownership /\ c \in {Context(o), Unowned}
  BY <1>3, ObjectTypes, UnownedFact
<1>5. PICK x \in CastFrame : x = Cast(sel, r, objects[o].use, c, TRUE)
  <2>1. r \in Casters \cup {None} /\ sel \in Selectors
    BY ScrollAssumption DEF Selectors
  <2>2. objects[o].use \in Nat
    BY <1>3, ObjectTypes
  <2> HIDE DEF c, sel, o
  <2>3. Cast(sel, r, objects[o].use, c, TRUE) \in CastFrame
    BY <1>4, <2>1, <2>2, CastFrameFact
  <2> QED
    BY <2>3
<1>6. /\ x.use = objects[o].use /\ x.context = c /\ x.captured = TRUE
      /\ x.level = Native /\ x.state = "entered"
  BY <1>5 DEF Cast
<1>7. UsedBy(x.use) /\ Owning(x.context)
  BY <1>3, <1>4, <1>6, ObjectTypes, UnownedFact DEF ObjectOk
<1>8. ~Latched => Agrees(x.context, x.use)
  BY <1>3, <1>4, <1>6, ObjectTypes, UnownedFact DEF ObjectOk, Agrees
<1>9. Whole => x.context.use = x.use
  <2> SUFFICES ASSUME Whole PROVE x.context.use = x.use
    OBVIOUS
  <2>1. Context(o) = contexts[o] /\ (Top.owned <=> contexts[o] # Unowned)
    BY <1>2 DEF Whole, Context, Held, FrameOk
  <2>2. contexts[o].use = objects[o].use
    BY <1>3, ObjectTypes DEF ObjectOk
  <2> QED
    BY <1>6, <2>1, <2>2
<1>10. /\ Done \in Seq(Frame) /\ \A f : In(Done, f) => FrameOk(f)
  BY <1>1, <1>2, DoneFact
<1>11. /\ stack' = Append(Done, x) /\ disabled' = (disabled \/ ~x.captured)
       /\ UNCHANGED <<life, known, uses, objects, fields, contexts, refs, witnesses, events>>
  BY <1>5, <1>6 DEF CastDirect, Enter
<1> HIDE DEF o, c, sel
<1> QED
  BY <1>6, <1>7, <1>8, <1>9, <1>10, <1>11, EnterKeeps

LEMMA CastMessageKeeps == ASSUME IInv, late' = FALSE, NEW r \in Receivers, CastMessage(r) PROVE IInv'
<1>1. stack # <<>> /\ Top.kind = "run"
  BY DEF CastMessage, Dispatching, At
<1>2. Top \in RunFrame
  BY <1>1, KindFacts
<1> DEFINE o == Top.object
           matches == Context(o) = Unowned \/ Context(o).sel = "fire"
           c == IF matches THEN Context(o) ELSE Unowned
<1>3. o \in Holders
  BY <1>2 DEF RunFrame, Holders
<1>4. c \in Ownership /\ c \in {Context(o), Unowned}
  BY <1>3, ObjectTypes, UnownedFact
<1>5. PICK x \in CastFrame : x = Cast("fire", r, objects[o].use, c, matches)
  <2>1. r \in Casters \cup {None} /\ "fire" \in Selectors
    BY ScrollAssumption DEF Selectors
  <2>2. objects[o].use \in Nat /\ matches \in BOOLEAN
    BY <1>3, ObjectTypes
  <2> HIDE DEF c, matches, o
  <2>3. Cast("fire", r, objects[o].use, c, matches) \in CastFrame
    BY <1>4, <2>1, <2>2, CastFrameFact
  <2> QED
    BY <2>3
<1>6. /\ x.use = objects[o].use /\ x.context = c /\ x.captured = matches
      /\ x.level = Native /\ x.state = "entered"
  BY <1>5 DEF Cast
<1>7. UsedBy(x.use) /\ Owning(x.context)
  BY <1>3, <1>4, <1>6, ObjectTypes, UnownedFact DEF ObjectOk
<1>8. ~Latched => Agrees(x.context, x.use)
  BY <1>3, <1>4, <1>6, ObjectTypes, UnownedFact DEF ObjectOk, Agrees
<1>9. Whole /\ x.captured => x.context.use = x.use
  <2> SUFFICES ASSUME Whole, x.captured PROVE x.context.use = x.use
    OBVIOUS
  <2>1. x.context = contexts[o]
    BY <1>6 DEF Whole, Context, Held
  <2>2. contexts[o].use = objects[o].use
    BY <1>3, ObjectTypes DEF ObjectOk
  <2> QED
    BY <1>6, <2>1, <2>2
<1>10. /\ Done \in Seq(Frame) /\ \A f : In(Done, f) => FrameOk(f)
  BY <1>1, DoneFact
<1>11. /\ stack' = Append(Done, x) /\ disabled' = (disabled \/ ~x.captured)
       /\ UNCHANGED <<life, known, uses, objects, fields, contexts, refs, witnesses, events>>
  BY <1>5, <1>6 DEF CastMessage, Enter
<1> HIDE DEF o, c, matches
<1> QED
  BY <1>6, <1>7, <1>8, <1>9, <1>10, <1>11, EnterKeeps

LEMMA FieldTypes ==
    ASSUME IInv, NEW f \in Fields
    PROVE  /\ fields[f] \in Action /\ fields[f].use \in Nat /\ fields[f].key \in Nat
           /\ fields[f].sel \in Selectors /\ FieldOk(f)
           /\ Live \subseteq Keys
BY DEF IInv, Typed, FieldsOk, Action, Live

LEMMA StackFrames ==
    ASSUME IInv
    PROVE  stack \in Seq(Frame) /\ \A f : In(stack, f) => FrameOk(f)
BY FramesIn DEF IInv, Typed, FramesOk

LEMMA CastActionKeeps == ASSUME IInv, late' = FALSE, NEW r \in Casters, CastAction(r) PROVE IInv'
<1>1. r \in Fields /\ r \in Casters \cup {None}
  BY ScrollAssumption
<1> DEFINE key == fields[r].key
           own == IF key \in Live THEN Context(key) ELSE Unowned
           fits == (key \in Live => refs[key] > 0) /\ (own = Unowned \/ own.sel = fields[r].sel)
           c == IF fits THEN own ELSE Unowned
<1>2. /\ own \in Ownership /\ Owning(own)
      /\ ~Latched => Agrees(own, fields[r].use)
      /\ Whole => own.use = fields[r].use
  <2>1. key \in Live => key \in Keys
    BY <1>1, FieldTypes
  <2>2. CASE key \notin Live
    BY <1>1, <2>2, UnownedFact, FieldTypes DEF FieldOk, Agrees
  <2>3. CASE key \in Live
    <3>1. contexts[key] \in Ownership /\ Owning(contexts[key])
      BY <2>1, <2>3 DEF IInv, Typed, KeysOk
    <3>2. own = contexts[key] \/ (Latched /\ own = Unowned)
      BY <2>3 DEF Context, Held
    <3>3. ~Latched => Agrees(own, fields[r].use)
      BY <1>1, <2>3, <3>2, FieldTypes DEF FieldOk
    <3>4. Whole => own.use = fields[r].use
      BY <1>1, <2>3, <3>2, <3>3, FieldTypes DEF FieldOk, Agrees, Whole
    <3> QED
      BY <3>1, <3>2, <3>3, <3>4, UnownedFact
  <2> QED
    BY <2>2, <2>3
<1>3. c \in Ownership /\ c \in {own, Unowned} /\ fits \in BOOLEAN
  BY <1>2, UnownedFact
<1>4. CastAction(r) => /\ Enter(stack, fields[r].sel, r, fields[r].use, c, fits)
  BY DEF CastAction
<1> HIDE DEF own, fits
<1>5. PICK x \in CastFrame : x = Cast(fields[r].sel, r, fields[r].use, c, fits)
  <2> HIDE DEF c
  <2>1. Cast(fields[r].sel, r, fields[r].use, c, fits) \in CastFrame
    BY <1>1, <1>3, FieldTypes, CastFrameFact
  <2> QED
    BY <2>1
<1>6. /\ x.use = fields[r].use /\ x.context = c /\ x.captured = fits
      /\ x.level = Native /\ x.state = "entered"
  BY <1>5 DEF Cast
<1>7. UsedBy(x.use) /\ Owning(x.context)
  BY <1>1, <1>2, <1>3, <1>6, FieldTypes, UnownedFact DEF FieldOk
<1>8. ~Latched => Agrees(x.context, x.use)
  BY <1>2, <1>3, <1>6, UnownedFact DEF Agrees
<1>9. Whole /\ x.captured => x.context.use = x.use
  BY <1>2, <1>6
<1>10. /\ stack' = Append(stack, x) /\ disabled' = (disabled \/ ~x.captured)
       /\ UNCHANGED <<life, known, uses, objects, fields, contexts, refs, witnesses, events>>
  BY <1>4, <1>5, <1>6 DEF Enter
<1> HIDE DEF c
<1> QED
  BY <1>6, <1>7, <1>8, <1>9, <1>10, StackFrames, EnterKeeps

LEMMA CastFurtherKeeps == ASSUME IInv, late' = FALSE, CastFurther PROVE IInv'
<1>1. stack # <<>> /\ Top.kind = "cast"
  BY DEF CastFurther, At
<1>2. Top \in CastFrame /\ FrameOk(Top)
  BY <1>1, KindFacts, TopFacts
<1> DEFINE c == Continued(Top)
<1>3. /\ c \in Ownership /\ Owning(c)
      /\ c.use = (IF Top.captured /\ ~Latched THEN Top.context.use ELSE 0)
  <2>1. Top.context \in Ownership /\ Owning(Top.context)
    BY <1>1, <1>2 DEF CastFrame, FrameOk
  <2>2. CASE Top.captured /\ ~Latched
    <3>1. c = [Top.context EXCEPT !.sel = "none"]
      BY <2>2 DEF Continued, Held
    <3>2. c \in Ownership /\ c.use = Top.context.use
      BY <2>1, <3>1 DEF Ownership, Selectors
    <3>3. Owning(c)
      <4>1. CASE Top.context = Unowned
        <5>1. [Unowned EXCEPT !.sel = "none"] = Unowned
          BY DEF Unowned
        <5> QED
          BY <3>1, <4>1, <5>1 DEF Owning
      <4>2. CASE Top.context.use \in 1..Len(uses)
        BY <3>2, <4>2 DEF Owning
      <4> QED
        BY <2>1, <4>1, <4>2 DEF Owning
    <3> QED
      BY <2>2, <3>2, <3>3
  <2>3. CASE ~(Top.captured /\ ~Latched)
    BY <2>3, UnownedFact DEF Continued, Held
  <2> QED
    BY <2>2, <2>3
<1> HIDE DEF c
<1>4. PICK x \in CastFrame : x = Cast("fire", Top.object, Top.use, c, TRUE)
  <2>1. Cast("fire", Top.object, Top.use, c, TRUE) \in CastFrame
    BY <1>2, <1>3, CastFrameFact DEF CastFrame, Selectors
  <2> QED
    BY <2>1
<1>5. /\ x.use = Top.use /\ x.context = c /\ x.captured = TRUE
      /\ x.level = Native /\ x.state = "entered"
  BY <1>4 DEF Cast
<1>6. UsedBy(x.use) /\ Owning(x.context)
  BY <1>1, <1>2, <1>3, <1>5 DEF FrameOk
<1>7. ~Latched => Agrees(x.context, x.use)
  BY <1>1, <1>2, <1>3, <1>5 DEF FrameOk, Agrees
<1>8. Whole => x.context.use = x.use
  BY <1>1, <1>2, <1>3, <1>5 DEF FrameOk, Whole
<1>9. /\ stack' = Append(stack, x) /\ disabled' = (disabled \/ ~x.captured)
      /\ UNCHANGED <<life, known, uses, objects, fields, contexts, refs, witnesses, events>>
  BY <1>4, <1>5 DEF CastFurther, Enter, c
<1> QED
  BY <1>5, <1>6, <1>7, <1>8, <1>9, StackFrames, EnterKeeps

LEMMA CastOtherKeeps == ASSUME IInv, late' = FALSE, NEW r \in Receivers, CastOther(r) PROVE IInv'
<1>1. PICK x \in CastFrame : x = Cast("fire", r, 0, Unowned, TRUE)
  <2>1. r \in Casters \cup {None} /\ "fire" \in Selectors
    BY ScrollAssumption DEF Selectors
  <2> DEFINE sel == "fire"
             use == 0
             captured == TRUE
  <2>2. sel \in Selectors /\ use \in Nat /\ captured \in BOOLEAN
    BY <2>1
  <2> HIDE DEF sel, use, captured
  <2>3. Cast(sel, r, use, Unowned, captured) \in CastFrame
    BY <2>1, <2>2, UnownedFact, CastFrameFact
  <2> QED
    BY <2>3 DEF sel, use, captured
<1>2. /\ x.use = 0 /\ x.context = Unowned /\ x.captured = TRUE
      /\ x.level = Native /\ x.state = "entered"
  BY <1>1 DEF Cast
<1>3. UsedBy(x.use) /\ Owning(x.context) /\ Agrees(x.context, x.use) /\ x.context.use = x.use
  BY <1>2, UnownedFact DEF Agrees
<1>4. /\ stack' = Append(stack, x) /\ disabled' = (disabled \/ ~x.captured)
      /\ UNCHANGED <<life, known, uses, objects, fields, contexts, refs, witnesses, events>>
  BY <1>1, <1>2 DEF CastOther, Enter
<1> QED
  BY <1>2, <1>3, <1>4, StackFrames, EnterKeeps

\* What the innermost cast becomes has the same owner and use.
LEMMA TopKeeps ==
    ASSUME IInv, stack # <<>>, NEW x \in CastFrame, ReplaceTop(x), FrameOk(x)',
           UNCHANGED <<life, known, uses, objects, fields, contexts, refs, witnesses, events>>,
           Latching
    PROVE  IInv'
<1>1. x \in Frame
  BY DEF Frame
<1>2. stack' \in Seq(Frame) /\ \A f : In(stack', f) => In(stack, f) \/ FrameOk(f)'
  BY <1>1, ReplaceFact
<1>3. known' \in [Actors -> Nat] /\ \A a \in Actors : known'[a] \in {0, known[a], life[a]}
  BY DEF IInv, Typed
<1> QED
  BY <1>2, <1>3, CallKeeps

LEMMA PreselectKeeps == ASSUME IInv, late' = FALSE, Preselect PROVE IInv'
<1>1. stack # <<>> /\ Top.kind = "cast"
  BY DEF Preselect, At
<1>2. Top \in CastFrame /\ FrameOk(Top)
  BY <1>1, KindFacts, TopFacts
<1>3. Typed
  BY DEF IInv
<1>4. /\ UNCHANGED <<life, known, uses, objects, fields, contexts, refs, witnesses, events>>
      /\ Top.state = "entered"
  BY DEF Preselect
<1>5. CASE Held(Top.context) = Unowned /\ disabled' = disabled
           /\ ReplaceTop([Top EXCEPT !.state = "selected", !.context = Unowned])
  <2> DEFINE next == [Top EXCEPT !.state = "selected", !.context = Unowned]
  <2>1. /\ next \in CastFrame /\ next.use = Top.use /\ next.context = Unowned
        /\ next.state = "selected" /\ next.level = Top.level /\ next.captured = Top.captured
        /\ next.kind = "cast"
    BY <1>2, UnownedFact DEF CastFrame
  <2>2. PICK x \in CastFrame : x = next
    BY <2>1
  <2> HIDE DEF next
  <2>3. ~Latched => Top.context = Unowned
    BY <1>5 DEF Held
  <2>4. FrameOk(x)'
    <3>1. UsedBy(x.use)' /\ LevelOf(x.level, x.use)'
      BY <1>1, <1>2, <1>4, <2>1, <2>2 DEF FrameOk, UsedBy, LevelOf, ReaderOf
    <3>2. Owning(x.context)'
      BY <2>1, <2>2 DEF Owning
    <3> QED
      BY <1>1, <1>2, <1>4, <1>5, <2>1, <2>2, <2>3, <3>1, <3>2, UnownedFact, SameLatching
         DEF FrameOk, Dispatches, Agrees, Whole, Latching
  <2>5. ReplaceTop(x)
    BY <1>5, <2>2 DEF next
  <2> QED
    BY <1>1, <1>4, <1>5, <2>4, <2>5, SameLatching, TopKeeps
<1>6. CASE Held(Top.context) # Unowned /\ disabled' = disabled
           /\ ReplaceTop([Top EXCEPT !.state = "resolving"])
  <2> DEFINE next == [Top EXCEPT !.state = "resolving"]
  <2>1. /\ next \in CastFrame /\ next.use = Top.use /\ next.context = Top.context
        /\ next.state = "resolving" /\ next.level = Top.level /\ next.captured = Top.captured
        /\ next.kind = "cast"
    BY <1>2 DEF CastFrame
  <2>2. PICK x \in CastFrame : x = next
    BY <2>1
  <2> HIDE DEF next
  <2>3. Top.context # Unowned
    BY <1>6 DEF Held
  <2>4. FrameOk(x)'
    <3>1. UsedBy(x.use)' /\ LevelOf(x.level, x.use)'
      BY <1>1, <1>2, <1>4, <2>1, <2>2 DEF FrameOk, UsedBy, LevelOf, ReaderOf
    <3>2. Owning(x.context)'
      BY <1>1, <1>2, <1>4, <2>1, <2>2 DEF FrameOk, Owning
    <3> QED
      BY <1>1, <1>2, <1>4, <1>6, <2>1, <2>2, <2>3, <3>1, <3>2, SameLatching
         DEF FrameOk, Dispatches, Agrees, Whole, Latching
  <2>5. ReplaceTop(x)
    BY <1>6, <2>2 DEF next
  <2> QED
    BY <1>1, <1>4, <1>6, <2>4, <2>5, SameLatching, TopKeeps
<1>7. CASE disabled' = TRUE /\ ReplaceTop([Top EXCEPT !.state = "selected", !.level = Native])
  <2> DEFINE next == [Top EXCEPT !.state = "selected", !.level = Native]
  <2>1. /\ next \in CastFrame /\ next.use = Top.use /\ next.context = Top.context
        /\ next.state = "selected" /\ next.level = Native
        /\ next.kind = "cast"
    BY <1>2, UnownedFact DEF CastFrame, Level, Native
  <2>2. PICK x \in CastFrame : x = next
    BY <2>1
  <2> HIDE DEF next
  <2>3. FrameOk(x)'
    <3>1. UsedBy(x.use)' /\ Owning(x.context)'
      BY <1>1, <1>2, <1>4, <2>1, <2>2 DEF FrameOk, UsedBy, Owning
    <3> QED
      BY <1>7, <2>1, <2>2, <3>1, EngineLatching DEF FrameOk, Dispatches, Whole, LevelOf
  <2>4. ReplaceTop(x)
    BY <1>7, <2>2 DEF next
  <2> QED
    BY <1>1, <1>4, <1>7, <2>3, <2>4, EngineLatching, TopKeeps
<1> QED
  BY <1>5, <1>6, <1>7 DEF Preselect, Selected

LEMMA ResolvedKeeps == ASSUME IInv, late' = FALSE, NEW native \in BOOLEAN, Resolved(native) PROVE IInv'
<1>1. stack # <<>> /\ Top.kind = "cast" /\ Top.state = "resolving"
  BY DEF Resolved, At
<1>2. Top \in CastFrame /\ FrameOk(Top)
  BY <1>1, KindFacts, TopFacts
<1>3. Typed /\ Readers
  BY DEF IInv
<1> DEFINE use == Top.context.use
           reader == uses[use].actor
           level == IF native \/ Latched \/ ~StillReads(use) THEN Native
                    ELSE [actor |-> reader, life |-> life[reader]]
           next == [Top EXCEPT !.state = "selected", !.level = level]
<1>4. /\ UNCHANGED <<life, known, uses, objects, fields, contexts, refs, witnesses, events>>
      /\ disabled' = (disabled \/ ~StillReads(use))
      /\ ReplaceTop(next)
  BY DEF Resolved, Selected
<1>5. Top.context # Unowned /\ Owning(Top.context) /\ use \in 1..Len(uses)
  BY <1>1, <1>2 DEF FrameOk, Owning
<1>6. uses[use] \in Use /\ reader \in Actors
  BY <1>3, <1>5, UsesSeq DEF Use
<1>7. level \in Level
  BY <1>3, <1>6 DEF Level, Native, Typed
<1>8. level # Native => ~Latched /\ level = ReaderOf(Top.use) /\ Top.use # 0
  <2> SUFFICES ASSUME level # Native
               PROVE  ~Latched /\ level = ReaderOf(Top.use) /\ Top.use # 0
    OBVIOUS
  <2>1. ~Latched /\ known[reader] = uses[use].gen /\ level = [actor |-> reader, life |-> life[reader]]
    BY DEF StillReads, ReaderLives
  <2>2. uses[use].gen = uses[use].life /\ uses[use].gen # 0
    BY <1>3, <1>5, <2>1, UsesSeq DEF Readers
  <2>3. known[reader] \in {0, life[reader]}
    BY <1>3, <1>6, <2>1 DEF Readers
  <2>4. use = Top.use /\ use # 0
    BY <1>1, <1>2, <1>5, <2>1, UsesSeq DEF FrameOk, Agrees
  <2> HIDE DEF use
  <2>5. life[reader] = uses[use].life
    BY <2>1, <2>2, <2>3
  <2> QED
    BY <2>1, <2>4, <2>5 DEF ReaderOf
<1> HIDE DEF level
<1>9. /\ next \in CastFrame /\ next.use = Top.use /\ next.context = Top.context
      /\ next.state = "selected" /\ next.level = level /\ next.captured = Top.captured
      /\ next.kind = "cast"
  BY <1>2, <1>7 DEF CastFrame
<1>10. PICK x \in CastFrame : x = next
  BY <1>9
<1> HIDE DEF next
<1>11. Latching
  <2>1. disabled' \in BOOLEAN /\ (disabled => disabled')
    BY <1>3, <1>4 DEF Typed, StillReads, ReaderLives
  <2> QED
    BY <2>1, EngineLatching
<1>12. FrameOk(x)'
  <2>1. UsedBy(x.use)' /\ Owning(x.context)'
    BY <1>1, <1>2, <1>4, <1>9, <1>10 DEF FrameOk, UsedBy, Owning
  <2>2. LevelOf(x.level, x.use)'
    BY <1>4, <1>8, <1>9, <1>10 DEF LevelOf, ReaderOf
  <2> QED
    BY <1>1, <1>2, <1>4, <1>9, <1>10, <1>11, <2>1, <2>2
       DEF FrameOk, Dispatches, Agrees, Whole, Latching
<1>13. ReplaceTop(x)
  BY <1>4, <1>10
<1> QED
  BY <1>1, <1>4, <1>11, <1>12, <1>13, TopKeeps
-----------------------------------------------------------------------------
(* Effects and messages.                                                    *)

LEMMA Addresses == Holders \cap Keys = {} /\ Effects \cap Messages = {} /\ Holders = Effects \cup Messages
BY ScrollAssumption DEF Holders, Keys

LEMMA NotRunning ==
    ASSUME IInv, NEW o, ~objects[o].alive \/ ~Running(o)
    PROVE  ~RunningOn(o)
<1> SUFFICES ASSUME NEW f, In(stack, f), f.kind \in Dispatches \cup {"run"}, f.object = o PROVE FALSE
  BY DEF RunningOn
<1>1. objects[o].alive
  BY StackFrames DEF FrameOk
<1>2. Running(o)
  BY DEF In, Running
<1> QED
  BY <1>1, <1>2

\* One effect or message changes, and perhaps the innermost call.
LEMMA HolderKeeps ==
    ASSUME IInv, Steady, NEW e \in Holders, ~RunningOn(e),
           objects' \in [Holders -> Object], contexts' \in [Holders \cup Keys -> Ownership],
           \A o \in Holders \ {e} : objects'[o] = objects[o],
           \A o \in (Holders \cup Keys) \ {e} : contexts'[o] = contexts[o],
           UNCHANGED <<life, known, fields, refs, witnesses, events>>,
           uses' \in Seq(Use), Readers', Latching, ObjectOk(e)',
           stack' \in Seq(Frame), \A f : In(stack', f) => In(stack, f) \/ FrameOk(f)'
    PROVE  IInv'
<1>1. Typed'
  BY DEF IInv, Typed, Latching
<1> DEFINE S == {e}
<1>2. /\ \A o \in Holders \ S : objects'[o] = objects[o] /\ contexts'[o] = contexts[o]
      /\ \A o \in S : ~RunningOn(o)
      /\ S \subseteq Holders
  OBVIOUS
<1>3. \A o \in S : ObjectOk(o)'
  OBVIOUS
<1>4. \A k \in Keys : contexts'[k] = contexts[k]
  BY Addresses
<1> HIDE DEF S
<1>5. ObjectsOk'
  BY <1>2, <1>3, ObjectsKeep
<1>6. KeysOk' /\ FieldsOk' /\ Counted'
  BY <1>4, KeysSame
<1>7. FramesOk'
  BY <1>2, FramesKeep
<1> QED
  BY <1>1, <1>5, <1>6, <1>7 DEF IInv

\* The hook's own steps leave the readers alone.
LEMMA SameReaders ==
    ASSUME IInv, UNCHANGED <<life, known, uses, events>>, Latching
    PROVE  Steady /\ Readers' /\ uses' \in Seq(Use)
<1>1. Typed /\ Readers
  BY DEF IInv
<1>2. Len(uses) \in Nat
  BY <1>1, UsesSeq
<1> QED
  BY <1>1, <1>2 DEF Steady, Readers, Typed, Latching

\* A new effect or message with its context.
LEMMA MadeFact ==
    ASSUME IInv, Steady, UNCHANGED events, NEW e \in Holders, ~objects[e].alive,
           NEW u \in Nat, NEW level \in Level, NEW c \in Ownership,
           objects' = [objects EXCEPT ![e] = [alive |-> TRUE, use |-> u, level |-> level]],
           contexts' = [contexts EXCEPT ![e] = c],
           UsedBy(u)', LevelOf(level, u)', e \in Messages => level = Native, Owning(c)',
           ~Latched' => Agrees(c, u),
           ~Latched' /\ e \in Effects /\ c # Unowned => c.level = level,
           Whole' => c.use = u
    PROVE  /\ ~RunningOn(e)
           /\ objects' \in [Holders -> Object] /\ contexts' \in [Holders \cup Keys -> Ownership]
           /\ \A o \in Holders \ {e} : objects'[o] = objects[o]
           /\ \A o \in (Holders \cup Keys) \ {e} : contexts'[o] = contexts[o]
           /\ ObjectOk(e)'
<1>1. objects \in [Holders -> Object] /\ contexts \in [Holders \cup Keys -> Ownership]
  BY DEF IInv, Typed
<1>2. [alive |-> TRUE, use |-> u, level |-> level] \in Object
  BY DEF Object
<1>3. ~RunningOn(e)
  BY NotRunning
<1>4. /\ objects'[e] = [alive |-> TRUE, use |-> u, level |-> level]
      /\ contexts'[e] = c
  BY <1>1
<1>5. objects'[e].alive = TRUE /\ objects'[e].use = u /\ objects'[e].level = level
  BY <1>4
<1>6. ObjectOk(e)'
  BY <1>4, <1>5 DEF ObjectOk, Agrees, Owning, UsedBy, LevelOf, ReaderOf
<1> QED
  BY <1>1, <1>2, <1>3, <1>6

\* Where no hook attaches anything, the context is the one that was left: none
\* while the overrides are on.
LEMMA NoContext ==
    ASSUME IInv, NEW e \in Holders, ~objects[e].alive, ~Latched
    PROVE  contexts[e] = Unowned
<1>1. events.foreign = 0
  BY DEF IInv, Readers
<1> QED
  BY <1>1, ObjectTypes DEF ObjectOk

LEMMA UnhookedFact ==
    ASSUME IInv, Steady, UNCHANGED <<events, contexts>>, NEW e \in Holders, ~objects[e].alive,
           NEW u \in Nat,
           objects' = [objects EXCEPT ![e] = [alive |-> TRUE, use |-> u, level |-> Native]],
           UsedBy(u)', Whole' => u = 0
    PROVE  /\ ~RunningOn(e)
           /\ objects' \in [Holders -> Object] /\ contexts' \in [Holders \cup Keys -> Ownership]
           /\ \A o \in Holders \ {e} : objects'[o] = objects[o]
           /\ \A o \in (Holders \cup Keys) \ {e} : contexts'[o] = contexts[o]
           /\ ObjectOk(e)'
<1>1. contexts \in [Holders \cup Keys -> Ownership]
  BY DEF IInv, Typed
<1>2. PICK c \in Ownership : c = contexts[e]
  BY ObjectTypes
<1>3. contexts' = [contexts EXCEPT ![e] = c]
  BY <1>1, <1>2
<1>4. Owning(c)'
  <2>1. Owning(c)
    BY <1>2, ObjectTypes DEF ObjectOk
  <2>2. Typed
    BY DEF IInv
  <2> QED
    BY <2>1, <2>2, SteadyUses
<1>5. ~Latched' => c = Unowned
  BY <1>2, NoContext, SteadyFlags
<1>6. Native \in Level /\ LevelOf(Native, u)'
  BY DEF Native, Level, LevelOf
<1>7. /\ ~Latched' => Agrees(c, u)
      /\ ~Latched' /\ e \in Effects /\ c # Unowned => c.level = Native
      /\ Whole' => c.use = u
  BY <1>5, UnownedFact DEF Agrees, Whole
<1> DEFINE level == Native
<1> HIDE DEF level
<1>8. level \in Level /\ LevelOf(level, u)' /\ level = Native
      /\ (~Latched' /\ e \in Effects /\ c # Unowned => c.level = level)
      /\ objects' = [objects EXCEPT ![e] = [alive |-> TRUE, use |-> u, level |-> level]]
  BY <1>6, <1>7 DEF level
<1> QED
  BY <1>3, <1>4, <1>7, <1>8, MadeFact

\* Nothing of the stack changes, or the innermost call has done its part.
LEMMA SameCalls == ASSUME IInv, stack' = stack
                   PROVE  stack' \in Seq(Frame) /\ \A f : In(stack', f) => In(stack, f)
BY DEF IInv, Typed

LEMMA NewEffectKeeps == ASSUME IInv, late' = FALSE, NEW e \in Effects, NewEffect(e) PROVE IInv'
<1>1. /\ e \in Holders /\ ~objects[e].alive
      /\ objects' = [objects EXCEPT ![e] = [alive |-> TRUE, use |-> 0, level |-> Native]]
      /\ UNCHANGED <<life, known, uses, fields, contexts, refs, witnesses, stack, disabled, events>>
  BY DEF NewEffect, MakeUnhooked, Holders
<1>2. Latching
  BY <1>1, SameLatching
<1>3. Steady /\ Readers' /\ uses' \in Seq(Use)
  BY <1>1, <1>2, SameReaders
<1>4. UsedBy(0)'
  BY <1>1, UnownedFact DEF UsedBy
<1>5. /\ ~RunningOn(e)
      /\ objects' \in [Holders -> Object] /\ contexts' \in [Holders \cup Keys -> Ownership]
      /\ \A o \in Holders \ {e} : objects'[o] = objects[o]
      /\ \A o \in (Holders \cup Keys) \ {e} : contexts'[o] = contexts[o]
      /\ ObjectOk(e)'
  <2> DEFINE u == 0
  <2>1. u \in Nat /\ u = 0 /\ UsedBy(u)'
    BY <1>4
  <2>2. objects' = [objects EXCEPT ![e] = [alive |-> TRUE, use |-> u, level |-> Native]]
    BY <1>1
  <2> HIDE DEF u
  <2> QED
    BY <1>1, <1>3, <2>1, <2>2, UnhookedFact
<1> QED
  BY <1>1, <1>2, <1>3, <1>5, SameCalls, HolderKeeps

LEMMA CopyEffectKeeps == ASSUME IInv, late' = FALSE, NEW from \in Effects, NEW to \in Effects, CopyEffect(from, to) PROVE IInv'
<1>1. /\ from \in Holders /\ to \in Holders /\ objects[from].alive /\ ~RunningOn(to)
      /\ objects' = [objects EXCEPT ![to] = objects[from]]
      /\ \E stored \in Puts(Context(from)) : contexts' = [contexts EXCEPT ![to] = stored]
      /\ UNCHANGED <<life, known, uses, fields, refs, witnesses, stack, disabled, events>>
  BY NotRunning DEF CopyEffect, Holders, Copied
<1>2. Latching
  BY <1>1, SameLatching
<1>3. Steady /\ Readers' /\ uses' \in Seq(Use)
  BY <1>1, <1>2, SameReaders
<1>4. /\ objects \in [Holders -> Object] /\ contexts \in [Holders \cup Keys -> Ownership]
      /\ objects[from] \in Object /\ contexts[from] \in Ownership /\ ObjectOk(from)
  BY <1>1, ObjectTypes DEF IInv, Typed
<1>5. PICK c \in Ownership :
        /\ contexts' = [contexts EXCEPT ![to] = c]
        /\ Owning(c)
        /\ c \in {contexts[from], Unowned}
        /\ ~Latched' => c = contexts[from]
  <2>1. PICK c \in Puts(Context(from)) : contexts' = [contexts EXCEPT ![to] = c]
    BY <1>1
  <2>2. c \in {Context(from), Unowned} /\ (~Latched' => c = Context(from))
    BY <1>1, PutsFact
  <2>3. Context(from) \in {contexts[from], Unowned} /\ (~Latched' => Context(from) = contexts[from])
    BY <1>2 DEF Context, Held, Latching
  <2> QED
    BY <1>4, <2>1, <2>2, <2>3, UnownedFact DEF ObjectOk
<1>6. objects'[to] = objects[from] /\ contexts'[to] = c
  BY <1>1, <1>4, <1>5
<1>7. ObjectOk(to)'
  <2>1. UsedBy(objects[from].use) /\ LevelOf(objects[from].level, objects[from].use)
    BY <1>4 DEF ObjectOk
  <2>2. from \notin Messages /\ to \notin Messages /\ from \in Effects /\ to \in Effects
    BY Addresses
  <2>3. UsedBy(objects[to].use)'
    BY <1>1, <1>6, <2>1 DEF UsedBy
  <2>4. LevelOf(objects[to].level, objects[to].use)'
    BY <1>1, <1>6, <2>1 DEF LevelOf, ReaderOf
  <2>5. Owning(contexts[to])'
    BY <1>1, <1>5, <1>6 DEF Owning
  <2>6. /\ ~Latched' => Agrees(contexts'[to], objects'[to].use)
        /\ ~Latched' /\ contexts'[to] # Unowned => contexts'[to].level = objects'[to].level
        /\ Whole' => contexts'[to].use = objects'[to].use
    BY <1>1, <1>2, <1>4, <1>5, <1>6, <2>2 DEF ObjectOk, Whole, Latching
  <2> QED
    BY <1>1, <1>5, <1>6, <2>2, <2>3, <2>4, <2>5, <2>6 DEF ObjectOk, Agrees
<1>8. /\ objects' \in [Holders -> Object] /\ contexts' \in [Holders \cup Keys -> Ownership]
      /\ \A o \in Holders \ {to} : objects'[o] = objects[o]
      /\ \A o \in (Holders \cup Keys) \ {to} : contexts'[o] = contexts[o]
  BY <1>1, <1>4, <1>5
<1> QED
  BY <1>1, <1>2, <1>3, <1>7, <1>8, SameCalls, HolderKeeps

LEMMA GoneFact ==
    /\ Gone \in Object /\ Gone.alive = FALSE /\ Gone.use = 0 /\ Gone.level = Native
BY DEF Gone, Object, Native, Level

LEMMA DestroyKeeps == ASSUME IInv, late' = FALSE, NEW o \in Holders, Destroy(o) PROVE IInv'
<1>1. /\ ~RunningOn(o)
      /\ objects' = [objects EXCEPT ![o] = Gone]
      /\ contexts' = [contexts EXCEPT ![o] = Unowned]
      /\ UNCHANGED <<life, known, uses, fields, refs, witnesses, stack, disabled, events>>
  BY NotRunning DEF Destroy, Forget
<1>2. Latching
  BY <1>1, SameLatching
<1>3. Steady /\ Readers' /\ uses' \in Seq(Use)
  BY <1>1, <1>2, SameReaders
<1>4. objects \in [Holders -> Object] /\ contexts \in [Holders \cup Keys -> Ownership]
  BY DEF IInv, Typed
<1>5. objects'[o] = Gone /\ contexts'[o] = Unowned
  BY <1>1, <1>4
<1>6. ObjectOk(o)'
  <2>1. UsedBy(0)'
    BY <1>1, UnownedFact DEF UsedBy
  <2> QED
    BY <1>5, <2>1, GoneFact, UnownedFact DEF ObjectOk, Agrees, LevelOf, Owning
<1>7. /\ objects' \in [Holders -> Object] /\ contexts' \in [Holders \cup Keys -> Ownership]
      /\ \A x \in Holders \ {o} : objects'[x] = objects[x]
      /\ \A x \in (Holders \cup Keys) \ {o} : contexts'[x] = contexts[x]
  BY <1>1, <1>4, GoneFact, UnownedFact
<1> QED
  BY <1>1, <1>2, <1>3, <1>6, <1>7, SameCalls, HolderKeeps

\* An effect or message made by the innermost call, which goes on as x.
LEMMA MakeKeeps ==
    ASSUME IInv, UNCHANGED <<life, known, uses, fields, refs, witnesses, events>>,
           Latching,
           NEW e \in Holders, ~objects[e].alive,
           NEW u \in Nat, NEW level \in Level, NEW c \in Ownership,
           objects' = [objects EXCEPT ![e] = [alive |-> TRUE, use |-> u, level |-> level]],
           contexts' = [contexts EXCEPT ![e] = c],
           UsedBy(u), LevelOf(level, u), e \in Messages => level = Native, Owning(c),
           ~Latched' => Agrees(c, u),
           ~Latched' /\ e \in Effects /\ c # Unowned => c.level = level,
           ~Latched' /\ events.uncounted = 0 => c.use = u,
           stack' \in Seq(Frame), \A f : In(stack', f) => In(stack, f) \/ FrameOk(f)'
    PROVE  IInv'
<1>1. Steady /\ Readers' /\ uses' \in Seq(Use)
  BY SameReaders
<1>2. UsedBy(u)' /\ LevelOf(level, u)' /\ Owning(c)'
  BY <1>1, SteadyUses DEF IInv
<1>3. Whole' => c.use = u
  BY DEF Whole
<1>4. /\ ~RunningOn(e)
      /\ objects' \in [Holders -> Object] /\ contexts' \in [Holders \cup Keys -> Ownership]
      /\ \A o \in Holders \ {e} : objects'[o] = objects[o]
      /\ \A o \in (Holders \cup Keys) \ {e} : contexts'[o] = contexts[o]
      /\ ObjectOk(e)'
  BY <1>1, <1>2, <1>3, MadeFact
<1> QED
  BY <1>1, <1>4, HolderKeeps

\* The same where no hook attaches anything, or it fails.
LEMMA UnhookedKeeps ==
    ASSUME IInv, UNCHANGED <<life, known, uses, fields, contexts, refs, witnesses, events, stack>>,
           Latching,
           NEW e \in Holders, ~objects[e].alive, NEW u \in Nat,
           objects' = [objects EXCEPT ![e] = [alive |-> TRUE, use |-> u, level |-> Native]],
           UsedBy(u), ~Latched' /\ events.uncounted = 0 => u = 0
    PROVE  IInv'
<1>1. Steady /\ Readers' /\ uses' \in Seq(Use)
  BY SameReaders
<1>2. UsedBy(u)'
  BY <1>1, SteadyUses DEF IInv
<1>3. Whole' => u = 0
  BY DEF Whole
<1>4. /\ ~RunningOn(e)
      /\ objects' \in [Holders -> Object] /\ contexts' \in [Holders \cup Keys -> Ownership]
      /\ \A o \in Holders \ {e} : objects'[o] = objects[o]
      /\ \A o \in (Holders \cup Keys) \ {e} : contexts'[o] = contexts[o]
      /\ ObjectOk(e)'
  BY <1>1, <1>2, <1>3, UnhookedFact
<1> QED
  BY <1>1, <1>4, SameCalls, HolderKeeps

LEMMA ChildKeeps == ASSUME IInv, late' = FALSE, NEW e \in Effects, Child(e) PROVE IInv'
<1>1. stack # <<>> /\ Top.kind = "cast"
  BY DEF Child, At
<1>2. Top \in CastFrame /\ FrameOk(Top)
  BY <1>1, KindFacts, TopFacts
<1>3. PICK u \in Nat, level \in Level, owner \in Ownership :
        u = Top.use /\ level = Top.level /\ owner = Top.context
  BY <1>2 DEF CastFrame
<1>4. /\ UsedBy(u) /\ Owning(owner) /\ LevelOf(level, u)
      /\ ~Latched => Agrees(owner, u)
      /\ Whole => owner.use = u
  BY <1>1, <1>2, <1>3 DEF FrameOk
<1>5. /\ e \in Holders /\ e \notin Messages
      /\ UNCHANGED <<life, known, uses, fields, refs, witnesses, events, stack>>
  BY Addresses DEF Child
<1>6. Held(owner) \in {owner, Unowned} /\ (~Latched => Held(owner) = owner)
  BY DEF Held
<1>61. disabled' = disabled => Latching
  BY SameLatching
<1> DEFINE own == Held(owner)
           c == [use |-> own.use, depth |-> own.depth + 1, level |-> level, sel |-> "none"]
<1>7. own \in Ownership
  BY <1>6, UnownedFact
<1>8. CASE own = Unowned /\ MakeUnhooked(e, u)
  <2>1. ~Latched /\ events.uncounted = 0 => u = 0
    BY <1>4, <1>6, <1>8, UnownedFact DEF Whole
  <2>2. /\ ~objects[e].alive /\ UNCHANGED <<contexts, disabled>>
        /\ objects' = [objects EXCEPT ![e] = [alive |-> TRUE, use |-> u, level |-> Native]]
    BY <1>8 DEF MakeUnhooked
  <2> QED
    BY <1>4, <1>5, <1>61, <2>1, <2>2, UnhookedKeeps DEF Latching
<1>9. CASE own # Unowned /\ UNCHANGED disabled /\ \E stored \in Puts(c) : Make(e, u, level, stored)
  <2>1. ~Latched /\ own = owner /\ owner.use \in 1..Len(uses)
    BY <1>4, <1>6, <1>9 DEF Owning, Held
  <2>2. c \in Ownership /\ c.use = owner.use /\ c.level = level
    BY <1>7, <2>1 DEF Ownership, Selectors
  <2> HIDE DEF c
  <2>3. PICK stored \in Puts(c) :
           /\ ~objects[e].alive
           /\ objects' = [objects EXCEPT ![e] = [alive |-> TRUE, use |-> u, level |-> level]]
           /\ contexts' = [contexts EXCEPT ![e] = stored]
    BY <1>9 DEF Make
  <2>4. Owning(c) /\ Agrees(c, u) /\ (events.uncounted = 0 => c.use = u)
    BY <1>4, <2>1, <2>2 DEF Owning, Agrees, Whole
  <2>5. stored \in {c, Unowned} /\ (~Latched' => stored = c)
    BY <1>9, PutsFact
  <2>6. stored \in Ownership /\ Owning(stored)
    BY <2>2, <2>4, <2>5, UnownedFact
  <2> QED
    BY <1>4, <1>5, <1>61, <1>9, <2>2, <2>3, <2>4, <2>5, <2>6, SameCalls, MakeKeeps
<1>10. CASE own # Unowned /\ MakeFailed(e, u)
  <2>1. /\ ~objects[e].alive /\ UNCHANGED contexts /\ disabled' = TRUE
        /\ objects' = [objects EXCEPT ![e] = [alive |-> TRUE, use |-> u, level |-> Native]]
    BY <1>10 DEF MakeFailed
  <2>2. Latching /\ Latched'
    BY <2>1, EngineLatching
  <2> QED
    BY <1>4, <1>5, <2>1, <2>2, UnhookedKeeps
<1>11. Child(e) => \/ own = Unowned /\ MakeUnhooked(e, u)
                   \/ /\ own # Unowned /\ UNCHANGED disabled
                      /\ \E stored \in Puts(c) : Make(e, u, level, stored)
                   \/ own # Unowned /\ MakeFailed(e, u)
  BY <1>3 DEF Child, Owner
<1> QED
  BY <1>8, <1>9, <1>10, <1>11

\* What the effect that applies gives to what it makes.
LEMMA ApplierFacts ==
    ASSUME IInv, stack # <<>>, Top.kind \in Dispatches
    PROVE  /\ Top \in ApplyFrame /\ Top.object \in Effects /\ Top.object \in Holders
           /\ UsedBy(objects[Top.object].use) /\ Owning(Context(Top.object))
           /\ LevelOf(objects[Top.object].level, objects[Top.object].use)
           /\ ~Latched =>
                /\ Context(Top.object) = contexts[Top.object]
                /\ Top.owned <=> contexts[Top.object] # Unowned
                /\ Agrees(contexts[Top.object], objects[Top.object].use)
                /\ contexts[Top.object] # Unowned => contexts[Top.object].level = objects[Top.object].level
           /\ Whole => contexts[Top.object].use = objects[Top.object].use
<1>1. Top \in ApplyFrame /\ Top.object \in Effects /\ Top.object \in Holders /\ FrameOk(Top)
  BY KindFacts, TopFacts DEF ApplyFrame, Holders
<1>2. ObjectOk(Top.object) /\ Context(Top.object) \in {contexts[Top.object], Unowned}
  BY <1>1, ObjectTypes
<1>3. Owning(Context(Top.object))
  BY <1>2, UnownedFact DEF ObjectOk
<1> QED
  BY <1>1, <1>2, <1>3 DEF ObjectOk, FrameOk, Context, Held

LEMMA LinkedChildKeeps == ASSUME IInv, late' = FALSE, NEW e \in Effects, LinkedChild(e) PROVE IInv'
<1>1. stack # <<>> /\ Top.kind = "link" /\ Top.kind \in Dispatches
  BY DEF LinkedChild, At, Dispatches
<1> DEFINE o == Top.object
<1>2. PICK u \in Nat, from \in Ownership : u = objects[o].use /\ from = Context(o)
  BY <1>1, ApplierFacts, ObjectTypes
<1>3. /\ UsedBy(u) /\ Owning(from)
      /\ ~Latched /\ ~Top.owned => from = Unowned
      /\ ~Latched => Agrees(from, u)
      /\ Whole => from.use = u
  BY <1>1, <1>2, ApplierFacts DEF Whole
<1>4. from # Unowned => ~Latched /\ LevelOf(from.level, u)
  BY <1>1, <1>2, ApplierFacts DEF Context, Held
<1>5. /\ e \in Holders /\ e \notin Messages
      /\ UNCHANGED <<life, known, uses, fields, refs, witnesses, events, stack>>
  BY Addresses DEF LinkedChild
<1>6. disabled' = disabled => Latching
  BY SameLatching
<1>7. CASE Top.owned = FALSE /\ MakeUnhooked(e, u)
  <2>1. ~Latched /\ events.uncounted = 0 => u = 0
    BY <1>3, <1>7, UnownedFact DEF Whole
  <2>2. /\ ~objects[e].alive /\ UNCHANGED <<contexts, disabled>>
        /\ objects' = [objects EXCEPT ![e] = [alive |-> TRUE, use |-> u, level |-> Native]]
    BY <1>7 DEF MakeUnhooked
  <2> QED
    BY <1>3, <1>5, <1>6, <2>1, <2>2, UnhookedKeeps DEF Latching
<1>8. CASE MakeFailed(e, u)
  <2>1. /\ ~objects[e].alive /\ UNCHANGED contexts /\ disabled' = TRUE
        /\ objects' = [objects EXCEPT ![e] = [alive |-> TRUE, use |-> u, level |-> Native]]
    BY <1>8 DEF MakeFailed
  <2>2. Latching /\ Latched'
    BY <2>1, EngineLatching
  <2> QED
    BY <1>3, <1>5, <2>1, <2>2, UnhookedKeeps
<1> DEFINE c == IF from = Unowned THEN Unowned ELSE [from EXCEPT !.depth = @ + 1, !.sel = "none"]
<1>9. CASE /\ UNCHANGED disabled
           /\ \E stored \in Puts(c) : \E level \in LinkedLevels(stored) : Make(e, u, level, stored)
  <2>2. c \in Ownership /\ c.use = from.use /\ c.level = from.level /\ (c # Unowned => from # Unowned)
    <3>1. CASE from = Unowned
      BY <3>1, UnownedFact
    <3>2. CASE from # Unowned
      <4>1. c = [from EXCEPT !.depth = from.depth + 1, !.sel = "none"]
        BY <3>2
      <4>2. from.depth + 1 \in Nat /\ "none" \in Selectors
        BY DEF Ownership, Selectors
      <4> HIDE DEF c
      <4>3. c \in Ownership
        BY <4>1, <4>2 DEF Ownership
      <4> QED
        BY <3>2, <4>1, <4>3 DEF Ownership
    <3> QED
      BY <3>1, <3>2
  <2> HIDE DEF c
  <2>1. PICK stored \in Puts(c) : \E level \in LinkedLevels(stored) : Make(e, u, level, stored)
    BY <1>9
  <2>3. PICK level \in LinkedLevels(stored) :
           /\ ~objects[e].alive
           /\ objects' = [objects EXCEPT ![e] = [alive |-> TRUE, use |-> u, level |-> level]]
           /\ contexts' = [contexts EXCEPT ![e] = stored]
    BY <2>1 DEF Make
  <2>4. Owning(c)
    BY <1>3, <2>2 DEF Owning
  <2>5. stored \in {c, Unowned} /\ (~Latched' => stored = c)
    BY <1>9, PutsFact
  <2>6. stored \in Ownership /\ Owning(stored)
    BY <2>2, <2>4, <2>5, UnownedFact
  <2>7. level \in {stored.level, Native} /\ (~Latched' => level = stored.level)
    BY <1>9, EngineLatching DEF LinkedLevels, LateOr, IInv, Typed
  <2>8. stored.level \in {from.level, Native} /\ Native \in Level /\ from.level \in Level
    BY <2>2, <2>5 DEF Unowned, Native, Level, Ownership
  <2>9. level \in Level /\ LevelOf(level, u)
    BY <1>4, <2>7, <2>8 DEF LevelOf, Unowned
  <2>10. ~Latched => Agrees(c, u) /\ (events.uncounted = 0 => c.use = u)
    BY <1>3, <2>2 DEF Agrees, Whole
  <2>11. ~Latched' => ~Latched
    BY <1>6, <1>9 DEF Latching
  <2> QED
    BY <1>3, <1>5, <1>6, <1>9, <2>3, <2>5, <2>6, <2>7, <2>9, <2>10, <2>11, SameCalls, MakeKeeps
<1>10. LinkedChild(e) => \/ Top.owned = FALSE /\ MakeUnhooked(e, u)
                         \/ MakeFailed(e, u)
                         \/ /\ UNCHANGED disabled
                            /\ \E stored \in Puts(c) :
                                  \E level \in LinkedLevels(stored) : Make(e, u, level, stored)
  BY <1>2 DEF LinkedChild
<1> QED
  BY <1>7, <1>8, <1>9, <1>10

\* The innermost call has made what it was for.
LEMMA DoneKeeps ==
    ASSUME IInv, Steady, stack # <<>>, Top.kind \in Dispatches, ReplaceTop([Top EXCEPT !.done = TRUE]),
           objects'[Top.object] = objects[Top.object], contexts'[Top.object] = contexts[Top.object]
    PROVE  stack' \in Seq(Frame) /\ \A f : In(stack', f) => In(stack, f) \/ FrameOk(f)'
<1>1. PICK x \in Frame : x = [Top EXCEPT !.done = TRUE]
  BY DoneFact
<1>2. FrameOk(x)
  BY <1>1, DoneFact
<1>3. x.kind = Top.kind /\ x.object = Top.object
  BY <1>1, KindFacts DEF ApplyFrame
<1>4. objects[x.object].alive
  BY <1>2, <1>3 DEF FrameOk
<1>5. FrameOk(x)'
  BY <1>2, <1>3, <1>4, FrameSame
<1> QED
  BY <1>1, <1>5, ReplaceFact

LEMMA QueueMessageKeeps == ASSUME IInv, late' = FALSE, NEW m \in Messages, QueueMessage(m) PROVE IInv'
<1>1. stack # <<>> /\ Top.kind = "message" /\ Top.kind \in Dispatches
  BY DEF QueueMessage, Dispatching, At, Dispatches
<1> DEFINE o == Top.object
<1>2. PICK u \in Nat, from \in Ownership : u = objects[o].use /\ from = Context(o)
  BY <1>1, ApplierFacts, ObjectTypes
<1>3. /\ UsedBy(u) /\ Owning(from)
      /\ ~Latched => Agrees(from, u)
      /\ Whole => from.use = u /\ (Top.owned <=> from # Unowned)
  BY <1>1, <1>2, ApplierFacts DEF Whole
<1>4. from # Unowned => ~Latched
  BY <1>2 DEF Context, Held
<1>5. /\ m \in Holders /\ m \notin Effects /\ o \in Effects /\ o # m
      /\ UNCHANGED <<life, known, uses, fields, refs, witnesses, events, disabled>>
      /\ Latching
  BY <1>1, ApplierFacts, Addresses, SameLatching DEF QueueMessage
<1> DEFINE c == IF Top.owned /\ from # Unowned THEN [from EXCEPT !.sel = "fire"] ELSE Unowned
<1>6. PICK stored \in Puts(c) :
        /\ ~objects[m].alive
        /\ objects' = [objects EXCEPT ![m] = [alive |-> TRUE, use |-> u, level |-> Native]]
        /\ contexts' = [contexts EXCEPT ![m] = stored]
  <2>1. (IF Top.owned THEN Carried(o, "fire") ELSE Unowned) = c
    BY <1>2 DEF Carried
  <2>2. \E stored \in Puts(c) : Make(m, u, Native, stored)
    BY <1>2, <2>1 DEF QueueMessage
  <2> HIDE DEF c
  <2> QED
    BY <2>2 DEF Make
<1>7. /\ c \in Ownership /\ Owning(c) /\ (c.use = from.use \/ c = Unowned)
      /\ Whole => c.use = from.use
  <2>1. CASE Top.owned /\ from # Unowned
    <3>1. c \in Ownership /\ c.use = from.use
      BY <2>1 DEF Ownership, Selectors
    <3> QED
      BY <1>3, <2>1, <3>1 DEF Owning
  <2>2. CASE ~(Top.owned /\ from # Unowned)
    BY <1>3, <2>2, UnownedFact
  <2> QED
    BY <2>1, <2>2
<1> HIDE DEF c
<1>14. stored \in {c, Unowned} /\ (~Latched' => ~Latched /\ stored = c)
  BY <1>5, PutsFact DEF Latching
<1>15. stored \in Ownership /\ Owning(stored)
  BY <1>7, <1>14, UnownedFact
<1>8. ~Latched => Agrees(c, u) /\ (events.uncounted = 0 => c.use = u)
  BY <1>3, <1>7, UnownedFact DEF Agrees, Whole
<1>9. Native \in Level /\ LevelOf(Native, u)
  BY DEF Native, Level, LevelOf
<1>10. Steady
  BY <1>5, SameReaders
<1>11. /\ objects'[o] = objects[o] /\ contexts'[o] = contexts[o]
       /\ ReplaceTop([Top EXCEPT !.done = TRUE])
  BY <1>5, <1>6, ObjectTypes DEF IInv, Typed, QueueMessage, Dispatched
<1>12. stack' \in Seq(Frame) /\ \A f : In(stack', f) => In(stack, f) \/ FrameOk(f)'
  BY <1>1, <1>10, <1>11, DoneKeeps
<1> DEFINE level == Native
<1>13. /\ level \in Level /\ LevelOf(level, u) /\ level = Native
       /\ objects' = [objects EXCEPT ![m] = [alive |-> TRUE, use |-> u, level |-> level]]
  BY <1>6, <1>9
<1> HIDE DEF level
<1> QED
  BY <1>3, <1>5, <1>6, <1>8, <1>12, <1>13, <1>14, <1>15, MakeKeeps

LEMMA RootKeeps == ASSUME IInv, late' = FALSE, NEW e \in Effects, Root(e) PROVE IInv'
<1>1. stack # <<>> /\ Top.kind = "item" /\ Top \in ItemFrame /\ UsedBy(Top.use)
  BY KindFacts DEF Root, At
<1>2. /\ Typed /\ Readers /\ Len(uses) \in Nat /\ DOMAIN uses = 1..Len(uses)
      /\ Top.object \in Actors /\ Top.use \in Nat
  BY <1>1, UsesSeq DEF IInv, ItemFrame
<1> DEFINE a == Top.object
           use == IF Top.use = 0 THEN Len(uses) + 1 ELSE Top.use
           read == [actor |-> a, gen |-> known[a], life |-> life[a]]
<1>3. PICK u \in Nat : u = use
  BY <1>2
<1>4. /\ ReplaceTop([Top EXCEPT !.use = u])
      /\ uses' = IF u \in DOMAIN uses THEN uses ELSE Append(uses, read)
      /\ UNCHANGED <<life, known, fields, refs, witnesses, events>>
      /\ \/ /\ known[a] # 0
            /\ \E stored \in Puts([Unowned EXCEPT !.use = u]) : Make(e, u, Native, stored)
            /\ UNCHANGED disabled
         \/ MakeFailed(e, u)
  BY <1>3 DEF Root
<1>5. u \in 1..(Len(uses) + 1)
  BY <1>1, <1>2, <1>3 DEF UsedBy
<1>6. /\ uses' \in Seq(Use) /\ Len(uses') \in Nat /\ Len(uses) <= Len(uses') /\ u \in 1..Len(uses')
      /\ \A i \in 1..Len(uses) : uses'[i] = uses[i]
      /\ \A i \in 1..Len(uses') : i \notin 1..Len(uses) => uses'[i] = read
  <2>1. CASE u \in DOMAIN uses
    BY <1>2, <1>4, <2>1 DEF Typed
  <2>2. CASE u \notin DOMAIN uses
    <3>1. uses' = Append(uses, read) /\ u = Len(uses) + 1
      BY <1>2, <1>4, <1>5, <2>2
    <3>2. read \in Use
      BY <1>2 DEF Use, Typed
    <3> HIDE DEF read
    <3>3. /\ uses' \in Seq(Use) /\ Len(uses') = Len(uses) + 1
          /\ \A i \in 1..Len(uses) : uses'[i] = uses[i]
          /\ uses'[Len(uses) + 1] = read
      BY <1>2, <3>1, <3>2, AppendProperties DEF Typed
    <3>4. \A i \in 1..Len(uses') : i \notin 1..Len(uses) => i = Len(uses) + 1
      BY <1>2, <3>3
    <3> QED
      BY <1>2, <3>1, <3>3, <3>4
  <2> QED
    BY <2>1, <2>2
<1>7. e \in Holders /\ e \in Effects /\ e \notin Messages /\ ~objects[e].alive
  BY <1>4, Addresses DEF Make, MakeFailed
<1>8. Latching /\ (~Latched' => known[a] # 0)
  <2>1. disabled \in BOOLEAN
    BY <1>2 DEF Typed
  <2>2. (known[a] # 0 /\ disabled' = disabled) \/ disabled' = TRUE
    BY <1>4 DEF MakeFailed
  <2>3. Latching /\ (Latched' <=> disabled')
    BY <2>1, <2>2, EngineLatching
  <2> QED
    BY <2>2, <2>3
<1>9. Steady
  BY <1>4, <1>6, <1>8 DEF Steady, Latching
<1>10. Readers'
  <2>1. events'.foreign # 0 => Latched'
    BY <1>2, <1>4, <1>8 DEF Readers, Latching
  <2>2. ASSUME ~Latched' PROVE \A b \in Actors : known'[b] \in {0, life'[b]}
    BY <1>2, <1>4, <1>8, <2>2 DEF Readers, Latching
  <2>3. ASSUME ~Latched', NEW i \in DOMAIN uses' PROVE uses'[i].gen = uses'[i].life /\ uses'[i].gen # 0
    <3>1. i \in 1..Len(uses')
      BY <1>6, <2>3, LenProperties
    <3>2. CASE i \in 1..Len(uses)
      BY <1>2, <1>6, <1>8, <2>3, <3>2 DEF Readers, Latching
    <3>3. CASE i \notin 1..Len(uses)
      <4>1. uses'[i] = read /\ known[a] # 0 /\ known[a] \in {0, life[a]}
        BY <1>2, <1>6, <1>8, <2>3, <3>1, <3>3 DEF Readers, Latching
      <4> QED
        BY <4>1
    <3> QED
      BY <3>2, <3>3
  <2> QED
    BY <2>1, <2>2, <2>3 DEF Readers
<1>11. UsedBy(u)' /\ (\A c \in Ownership : c.use = u => Owning(c)')
  BY <1>6 DEF UsedBy, Owning
<1>12. stack' \in Seq(Frame) /\ \A f : In(stack', f) => In(stack, f) \/ FrameOk(f)'
  <2>1. PICK x \in Frame : x = [Top EXCEPT !.use = u] /\ x.kind = "item" /\ x.use = u
    <3>1. [Top EXCEPT !.use = u] \in ItemFrame
      BY <1>1 DEF ItemFrame
    <3> QED
      BY <1>1, <3>1 DEF Frame, ItemFrame
  <2>2. FrameOk(x)'
    BY <1>11, <2>1 DEF FrameOk, Dispatches
  <2> QED
    BY <1>1, <1>4, <2>1, <2>2, ReplaceFact
<1>13. CASE /\ UNCHANGED disabled
            /\ \E stored \in Puts([Unowned EXCEPT !.use = u]) : Make(e, u, Native, stored)
  <2>1. [Unowned EXCEPT !.use = u] \in Ownership /\ [Unowned EXCEPT !.use = u].use = u
        /\ [Unowned EXCEPT !.use = u].level = Native
    BY DEF Unowned, Ownership, Native, Level, Selectors
  <2>2. PICK own \in Puts([Unowned EXCEPT !.use = u]) : Make(e, u, Native, own)
    BY <1>13
  <2>10. own \in {[Unowned EXCEPT !.use = u], Unowned} /\ (~Latched' => own = [Unowned EXCEPT !.use = u])
    BY <1>13, PutsFact
  <2>3. /\ own = Unowned \/ own.use = u
        /\ ~Latched' => own.use = u
        /\ own.level = Native
        /\ own \in Ownership
    BY <2>1, <2>10, UnownedFact DEF Unowned
  <2>4. /\ objects' = [objects EXCEPT ![e] = [alive |-> TRUE, use |-> u, level |-> Native]]
        /\ contexts' = [contexts EXCEPT ![e] = own]
    BY <2>2 DEF Make
  <2>5. Owning(own)'
    BY <1>11, <2>3 DEF Owning
  <2>6. PICK level \in Level : level = Native
    BY DEF Native, Level
  <2>7. LevelOf(level, u)'
    BY <2>6 DEF LevelOf
  <2>8. /\ ~Latched' => Agrees(own, u)
        /\ ~Latched' /\ e \in Effects /\ own # Unowned => own.level = level
        /\ Whole' => own.use = u
    BY <2>3, <2>6 DEF Agrees, Whole
  <2>9. /\ ~RunningOn(e)
        /\ objects' \in [Holders -> Object] /\ contexts' \in [Holders \cup Keys -> Ownership]
        /\ \A o \in Holders \ {e} : objects'[o] = objects[o]
        /\ \A o \in (Holders \cup Keys) \ {e} : contexts'[o] = contexts[o]
        /\ ObjectOk(e)'
    BY <1>4, <1>7, <1>9, <1>11, <2>3, <2>4, <2>5, <2>6, <2>7, <2>8, MadeFact
  <2> QED
    BY <1>4, <1>6, <1>7, <1>8, <1>9, <1>10, <1>12, <2>9, HolderKeeps
<1>14. CASE MakeFailed(e, u)
  <2>1. /\ UNCHANGED contexts /\ disabled' = TRUE
        /\ objects' = [objects EXCEPT ![e] = [alive |-> TRUE, use |-> u, level |-> Native]]
    BY <1>14 DEF MakeFailed
  <2>2. Whole' => u = 0
    BY <2>1, EngineLatching DEF Whole
  <2>3. /\ ~RunningOn(e)
        /\ objects' \in [Holders -> Object] /\ contexts' \in [Holders \cup Keys -> Ownership]
        /\ \A o \in Holders \ {e} : objects'[o] = objects[o]
        /\ \A o \in (Holders \cup Keys) \ {e} : contexts'[o] = contexts[o]
        /\ ObjectOk(e)'
    BY <1>4, <1>7, <1>9, <1>11, <2>1, <2>2, UnhookedFact
  <2> QED
    BY <1>4, <1>6, <1>7, <1>8, <1>9, <1>10, <1>12, <2>3, HolderKeeps
<1> QED
  BY <1>4, <1>13, <1>14
-----------------------------------------------------------------------------
(* Actors, and other threads.                                               *)

LEMMA ActorReplacedKeeps == ASSUME IInv, late' = FALSE, NEW a \in Actors, ActorReplaced(a) PROVE IInv'
<1>1. Typed /\ Readers
  BY DEF IInv
<1>2. UNCHANGED <<uses, objects, fields, contexts, refs, witnesses, stack, disabled, events>>
  BY DEF ActorReplaced
<1>3. life' \in [Actors -> Nat] /\ known' \in [Actors -> Nat]
  BY <1>1 DEF ActorReplaced, Typed
<1>4. \A b \in Actors : known'[b] \in {0, known[b]} /\ (b # a => life'[b] = life[b]) /\ known'[a] = 0
  BY <1>1 DEF ActorReplaced, Typed
<1>9. Latching
  BY <1>2, SameLatching
<1>5. Readers'
  BY <1>1, <1>2, <1>4, <1>9 DEF Readers, Latching
<1>6. Typed'
  BY <1>1, <1>2, <1>3, <1>9 DEF Typed, Latching
<1>7. Steady
  BY <1>1, <1>2, <1>9, UsesSeq DEF Steady, Latching
<1>8. ObjectsOk' /\ KeysOk' /\ FieldsOk' /\ Counted' /\ FramesOk'
  BY <1>2, <1>7, Undisturbed
<1> QED
  BY <1>5, <1>6, <1>8 DEF IInv

LEMMA DisableKeeps == ASSUME IInv, late' = FALSE, Disable PROVE IInv'
BY SameCalls, CallKeeps, EngineLatching DEF Disable, IInv, Typed

\* What the latch falls behind is still as it was: late, the invariant goes on.
LEMMA ForeignEntryKeeps == ASSUME IInv, ForeignEntry PROVE IInv'
BY SameCalls, CallKeeps DEF ForeignEntry, IInv, Typed, Latching, Latched

LEMMA ForeignCallKeeps == ASSUME IInv, ForeignCall PROVE IInv'
<1>1. Typed /\ Readers
  BY DEF IInv
<1>9. Latching /\ Latched'
  BY DEF ForeignCall, Latching, Latched, IInv, Typed
<1>2. /\ disabled' = TRUE
      /\ UNCHANGED <<known, uses, fields, contexts, refs, witnesses, stack>>
      /\ events' = [events EXCEPT !.foreign = @ + 1]
  BY DEF ForeignCall
<1>3. events' \in [foreign : Nat, uncounted : Nat] /\ events'.foreign # 0 /\ events'.uncounted = events.uncounted
  <2>1. events \in [foreign : Nat, uncounted : Nat]
    BY <1>1 DEF Typed
  <2>2. PICK n \in Nat : n = events.foreign + 1
    BY <2>1
  <2>3. events' = [events EXCEPT !.foreign = n] /\ n # 0
    BY <1>2, <2>1, <2>2
  <2> QED
    BY <2>1, <2>3
<1>4. Steady
  BY <1>1, <1>2, <1>3, <1>9, UsesSeq DEF Steady
<1>5. Readers'
  BY <1>9 DEF Readers
<1>6. KeysOk' /\ FieldsOk' /\ Counted'
  BY <1>2, <1>4, KeysSame
<1>7. CASE \E a \in Actors : life' = [life EXCEPT ![a] = @ + 1] /\ UNCHANGED objects
  <2>1. life' \in [Actors -> Nat] /\ objects' = objects
    BY <1>1, <1>7 DEF Typed
  <2>2. Typed'
    BY <1>1, <1>2, <1>3, <1>9, <2>1 DEF Typed, Latching
  <2>3. \A f : In(stack', f) => In(stack, f) \/ FrameOk(f)'
    BY <1>2
  <2>4. ObjectsOk' /\ FramesOk'
    BY <1>2, <1>4, <2>1, <2>3, Undisturbed
  <2> QED
    BY <1>5, <1>6, <2>2, <2>4 DEF IInv
<1>8. ASSUME NEW o \in Holders, ~Running(o), objects' = [objects EXCEPT ![o] = Gone], UNCHANGED life
      PROVE  IInv'
  <2>1. objects' \in [Holders -> Object]
    BY <1>1, <1>8, GoneFact DEF Typed
  <2>2. Typed'
    BY <1>1, <1>2, <1>3, <1>8, <1>9, <2>1 DEF Typed, Latching
  <2>3. objects'[o] = Gone /\ \A x \in Holders \ {o} : objects'[x] = objects[x]
    BY <1>1, <1>8 DEF Typed
  <2>4. ObjectOk(o)'
    <3>1. UsedBy(0)' /\ Owning(contexts[o])'
      BY <1>2, <1>8, ObjectTypes, UnownedFact DEF ObjectOk, UsedBy, Owning
    <3> QED
      BY <1>2, <1>3, <1>9, <2>3, <3>1, GoneFact DEF ObjectOk, LevelOf, Whole
  <2> DEFINE S == {o}
  <2>5. /\ S \subseteq Holders
        /\ \A x \in S : ObjectOk(x)'
        /\ \A x \in S : ~RunningOn(x)
    BY <1>8, <2>4, NotRunning
  <2>6. \A x \in Holders \ S : objects'[x] = objects[x] /\ contexts'[x] = contexts[x]
    BY <1>2, <2>3
  <2>7. \A f : In(stack', f) => In(stack, f) \/ FrameOk(f)'
    BY <1>2
  <2> HIDE DEF S
  <2>8. ObjectsOk'
    BY <1>4, <2>5, <2>6, ObjectsKeep
  <2>9. FramesOk'
    BY <1>4, <2>5, <2>6, <2>7, FramesKeep
  <2> QED
    BY <1>5, <1>6, <2>2, <2>8, <2>9 DEF IInv
<1> QED
  BY <1>7, <1>8 DEF ForeignCall
-----------------------------------------------------------------------------
(* Actions and their witnesses.                                             *)

LEMMA ActionsKeep ==
    ASSUME IInv, UNCHANGED <<life, known, uses, objects>>,
           Latching,
           events' \in [foreign : Nat, uncounted : Nat], events'.foreign = events.foreign,
           events'.uncounted = 0 => events.uncounted = 0,
           fields' \in [Fields -> Action], contexts' \in [Holders \cup Keys -> Ownership],
           \A o \in Holders : contexts'[o] = contexts[o],
           refs' \in [Keys -> Int], witnesses' \in [issued : Nat, live : SUBSET Keys],
           KeysOk', FieldsOk', Counted',
           stack' \in Seq(Frame), \A f : In(stack', f) => In(stack, f) \/ FrameOk(f)'
    PROVE  IInv'
<1>1. Typed /\ Readers
  BY DEF IInv
<1>2. Steady
  BY <1>1, UsesSeq DEF Steady, Latching
<1>3. Typed'
  BY <1>1 DEF Typed, Latching
<1>4. Readers'
  BY <1>1 DEF Readers, Latching
<1>5. ObjectsOk'
  BY <1>2, ObjectSame DEF ObjectsOk
<1>6. FramesOk'
  <2> DEFINE S == {}
  <2>1. /\ \A o \in Holders \ S : objects'[o] = objects[o] /\ contexts'[o] = contexts[o]
        /\ \A o \in S : ~RunningOn(o)
    OBVIOUS
  <2> HIDE DEF S
  <2> QED
    BY <1>2, <2>1, FramesKeep
<1> QED
  BY <1>3, <1>4, <1>5, <1>6 DEF IInv

LEMMA HoldersFinite ==
    ASSUME NEW k
    PROVE  IsFiniteSet(HoldersOf(k)) /\ Cardinality(HoldersOf(k)) \in Nat
           /\ \A f \in HoldersOf(k) : Cardinality(HoldersOf(k)) # 0
<1>1. HoldersOf(k) \subseteq Fields /\ IsFiniteSet(Fields)
  BY ScrollAssumption DEF HoldersOf
<1>2. IsFiniteSet(HoldersOf(k))
  BY <1>1, FS_Subset
<1>3. Cardinality(HoldersOf(k)) \in Nat
  BY <1>2, FS_CardinalityType
<1>4. Cardinality(HoldersOf(k)) = 0 => HoldersOf(k) = {}
  BY <1>2, FS_EmptySet
<1> QED
  BY <1>2, <1>3, <1>4

\* A witness has one holder more or one less.
LEMMA HolderChanges ==
    ASSUME IInv, NEW f \in Fields, NEW x \in Action, fields' = [fields EXCEPT ![f] = x],
           NEW k \in Keys
    PROVE  Cardinality(HoldersOf(k)') =
             Cardinality(HoldersOf(k)) - (IF fields[f].key = k THEN 1 ELSE 0)
                                       + (IF x.key = k THEN 1 ELSE 0)
<1>1. fields \in [Fields -> Action]
  BY DEF IInv, Typed
<1>2. fields'[f] = x /\ \A g \in Fields \ {f} : fields'[g] = fields[g]
  BY <1>1
<1> DEFINE H == HoldersOf(k)
           N == HoldersOf(k)'
<1>3. IsFiniteSet(H) /\ Cardinality(H) \in Nat
  BY HoldersFinite
<1>4. f \in H <=> fields[f].key = k
  BY DEF HoldersOf
<1>5. N = IF x.key = k THEN H \cup {f} ELSE H \ {f}
  BY <1>2 DEF HoldersOf
<1> HIDE DEF H, N
<1>6. /\ Cardinality(H \cup {f}) = (IF f \in H THEN Cardinality(H) ELSE Cardinality(H) + 1)
      /\ Cardinality(H \ {f}) = (IF f \in H THEN Cardinality(H) - 1 ELSE Cardinality(H))
  BY <1>3, FS_AddElement, FS_RemoveElement
<1>7. Cardinality(N) = Cardinality(H) - (IF fields[f].key = k THEN 1 ELSE 0)
                                      + (IF x.key = k THEN 1 ELSE 0)
  BY <1>3, <1>4, <1>5, <1>6
<1> QED
  BY <1>7 DEF H, N

LEMMA Recounted ==
    ASSUME IInv, NEW f \in Fields, NEW x \in Action, fields' = [fields EXCEPT ![f] = x],
           refs' = Recount(f, x.key), UNCHANGED events
    PROVE  refs' \in [Keys -> Int] /\ Counted'
<1>1. refs \in [Keys -> Int] /\ Counted
  BY DEF IInv, Typed
<1>2. \A k \in Keys : refs'[k] = refs[k] - (IF fields[f].key = k THEN 1 ELSE 0)
                                         + (IF x.key = k THEN 1 ELSE 0)
  BY DEF Recount
<1>3. refs' \in [Keys -> Int]
  BY <1>1 DEF Recount
<1>4. ASSUME events.uncounted = 0, NEW k \in Keys PROVE refs'[k] = Cardinality(HoldersOf(k))'
  <2> DEFINE n == Cardinality(HoldersOf(k))
             m == Cardinality(HoldersOf(k)')
             less == IF fields[f].key = k THEN 1 ELSE 0
             more == IF x.key = k THEN 1 ELSE 0
  <2>1. refs[k] = n
    BY <1>1, <1>4 DEF Counted
  <2>2. m = n - less + more
    BY HolderChanges
  <2>3. refs'[k] = refs[k] - less + more
    BY <1>2
  <2> HIDE DEF n, m, less, more
  <2>4. refs'[k] = m
    BY <2>1, <2>2, <2>3
  <2> QED
    BY <2>4 DEF m
<1> QED
  BY <1>3, <1>4 DEF Counted

\* An action that changes: the others keep what they have.
LEMMA OtherField ==
    ASSUME IInv, UNCHANGED <<uses, contexts, witnesses>>, Latched => Latched',
           events'.uncounted = 0 => events.uncounted = 0,
           NEW f \in Fields, NEW g \in Fields, fields'[f] = fields[g]
    PROVE  FieldOk(f)'
<1>1. FieldOk(g)
  BY FieldTypes
<1>2. UsedBy(fields[f].use)'
  BY <1>1 DEF FieldOk, UsedBy
<1> QED
  BY <1>1, <1>2 DEF FieldOk, Whole, Agrees, Live

LEMMA SameKeys ==
    ASSUME IInv, UNCHANGED <<uses, contexts, witnesses>>
    PROVE  KeysOk'
BY DEF IInv, KeysOk, Owning, Live

LEMMA NewActionKeeps ==
    ASSUME IInv, late' = FALSE, NEW f \in Fields, NEW sel \in Verbs \cup {"none"}, NewAction(f, sel) PROVE IInv'
<1>1. Typed
  BY DEF IInv
<1>2. sel \in Selectors
  BY ScrollAssumption DEF Selectors
<1>3. PICK x \in Action : x = [Idle EXCEPT !.sel = sel] /\ x.use = 0 /\ x.key = 0
  <2>1. [Idle EXCEPT !.sel = sel] = [use |-> 0, key |-> 0, sel |-> sel]
    BY DEF Idle
  <2>2. [use |-> 0, key |-> 0, sel |-> sel] \in Action
    BY <1>2 DEF Action
  <2> QED
    BY <2>1, <2>2
<1>4. /\ fields' = [fields EXCEPT ![f] = x] /\ refs' = Recount(f, x.key)
      /\ UNCHANGED <<life, known, uses, objects, contexts, witnesses, working, stack, disabled, events>>
      /\ Latching /\ (Latched => Latched')
  BY <1>3, SameLatching DEF NewAction, Latching
<1>5. refs' \in [Keys -> Int] /\ Counted'
  BY <1>4, Recounted
<1>6. /\ fields' \in [Fields -> Action] /\ fields'[f] = x
      /\ \A g \in Fields \ {f} : fields'[g] = fields[g]
  BY <1>1, <1>4 DEF Typed
<1>7. FieldsOk'
  <2> SUFFICES ASSUME NEW g \in Fields PROVE FieldOk(g)'
    BY DEF FieldsOk
  <2>1. CASE g = f
    <3>1. UsedBy(0)' /\ witnesses'.issued \in Nat
      BY <1>1, <1>4, UnownedFact DEF UsedBy, Typed
    <3>2. 0 \notin Live
      BY <1>1 DEF Typed, Live, Keys
    <3> QED
      BY <1>3, <1>4, <1>6, <2>1, <3>1, <3>2 DEF FieldOk, Live
  <2>2. CASE g # f
    BY <1>4, <1>6, <2>2, OtherField
  <2> QED
    BY <2>1, <2>2
<1>8. KeysOk'
  BY <1>4, SameKeys
<1> QED
  BY <1>1, <1>4, <1>5, <1>6, <1>7, <1>8, SameCalls, ActionsKeep DEF Typed

LEMMA AssignActionKeeps ==
    ASSUME IInv, late' = FALSE, NEW f \in Fields, NEW g \in Fields, AssignAction(f, g) PROVE IInv'
<1>1. Typed
  BY DEF IInv
<1>2. PICK x \in Action : x = fields[g]
  BY <1>1 DEF Typed
<1>3. /\ fields' = [fields EXCEPT ![f] = x] /\ refs' = Recount(f, x.key)
      /\ UNCHANGED <<life, known, uses, objects, contexts, witnesses, working, stack, disabled, events>>
      /\ Latching /\ (Latched => Latched')
  BY <1>2, SameLatching DEF AssignAction, Latching
<1>4. refs' \in [Keys -> Int] /\ Counted'
  BY <1>3, Recounted
<1>5. /\ fields' \in [Fields -> Action]
      /\ \A h \in Fields : fields'[h] = IF h = f THEN fields[g] ELSE fields[h]
  BY <1>1, <1>2, <1>3 DEF Typed
<1>6. FieldsOk'
  BY <1>3, <1>5, OtherField DEF FieldsOk
<1>7. KeysOk'
  BY <1>3, SameKeys
<1> QED
  BY <1>1, <1>3, <1>4, <1>5, <1>6, <1>7, SameCalls, ActionsKeep DEF Typed

LEMMA CopyUncountedKeeps ==
    ASSUME IInv, late' = FALSE, NEW f \in Fields, NEW g \in Fields, CopyUncounted(f, g) PROVE IInv'
<1>1. Typed
  BY DEF IInv
<1>2. /\ fields' = [fields EXCEPT ![f] = fields[g]] /\ events' = [events EXCEPT !.uncounted = @ + 1]
      /\ UNCHANGED <<life, known, uses, objects, contexts, refs, witnesses, working, stack, disabled>>
      /\ Latching /\ (Latched => Latched')
  BY SameLatching DEF CopyUncounted, Latching
<1>3. /\ events' \in [foreign : Nat, uncounted : Nat]
      /\ events'.foreign = events.foreign /\ events'.uncounted # 0
  <2>1. events \in [foreign : Nat, uncounted : Nat] /\ events.uncounted \in Nat
    BY <1>1 DEF Typed
  <2>2. PICK n \in Nat : n = events.uncounted + 1 /\ n # 0
    BY <2>1
  <2>3. events' = [events EXCEPT !.uncounted = n]
    BY <1>2, <2>2
  <2> QED
    BY <2>1, <2>2, <2>3
<1>4. Counted'
  BY <1>3 DEF Counted
<1>5. /\ fields' \in [Fields -> Action]
      /\ \A h \in Fields : fields'[h] = IF h = f THEN fields[g] ELSE fields[h]
  BY <1>1, <1>2 DEF Typed
<1>6. FieldsOk'
  <2> SUFFICES ASSUME NEW h \in Fields PROVE FieldOk(h)'
    BY DEF FieldsOk
  <2>1. PICK source \in Fields : fields'[h] = fields[source]
    BY <1>5
  <2> QED
    BY <1>2, <1>3, <2>1, OtherField
<1>7. KeysOk'
  BY <1>2, SameKeys
<1> QED
  BY <1>1, <1>2, <1>3, <1>4, <1>5, <1>6, <1>7, SameCalls, ActionsKeep DEF Typed

LEMMA MaxNext == ASSUME NEW n \in Nat PROVE Max({n, n + 1}) = n + 1
<1>1. \E x \in {n, n + 1} : \A y \in {n, n + 1} : x >= y
  BY n + 1 \in {n, n + 1}
<1>2. \A x \in {n, n + 1} : (\A y \in {n, n + 1} : x >= y) => x = n + 1
  OBVIOUS
<1> QED
  BY <1>1, <1>2 DEF Max

\* Retired witnesses lose their contexts, effects and messages never do.
LEMMA WithoutFact ==
    ASSUME IInv, NEW ended \in SUBSET Retired
    PROVE  /\ Without(ended) \in [Holders \cup Keys -> Ownership]
           /\ \A o \in Holders : Without(ended)[o] = contexts[o]
           /\ \A k \in Keys : Without(ended)[k] = IF k \in ended THEN Unowned ELSE contexts[k]
<1>1. contexts \in [Holders \cup Keys -> Ownership] /\ Live \subseteq Keys
  BY DEF IInv, Typed, Live
<1>2. ended \subseteq Keys
  BY <1>1 DEF Retired
<1> QED
  BY <1>1, <1>2, Addresses, UnownedFact DEF Without

\* A queued action without a witness.
LEMMA PlainKeeps ==
    ASSUME IInv, stack # <<>>, Top.kind \in Dispatches, ReplaceTop([Top EXCEPT !.done = TRUE]),
           NEW f \in Fields, fields[f] = Idle, NEW sel \in Selectors,
           fields' = [fields EXCEPT ![f] = [use |-> objects[Top.object].use, key |-> 0, sel |-> sel]],
           UNCHANGED <<life, known, uses, objects, refs, events>>,
           NEW ended \in SUBSET Retired, contexts' = Without(ended),
           witnesses' = [witnesses EXCEPT !.live = @ \ ended],
           Latching,
           ended # {} => Latched', Whole' => objects[Top.object].use = 0
    PROVE  IInv'
<1>1. Typed /\ KeysOk /\ Counted
  BY DEF IInv
<1>2. PICK x \in Action : x = [use |-> objects[Top.object].use, key |-> 0, sel |-> sel]
                          /\ x.use = objects[Top.object].use /\ x.key = 0
  <2>1. objects[Top.object].use \in Nat
    BY ApplierFacts, ObjectTypes
  <2>2. [use |-> objects[Top.object].use, key |-> 0, sel |-> sel] \in Action
    BY <2>1 DEF Action
  <2> QED
    BY <2>2
<1>3. /\ fields' \in [Fields -> Action] /\ fields'[f] = x
      /\ \A g \in Fields \ {f} : fields'[g] = fields[g]
  BY <1>1, <1>2 DEF Typed
<1>4. /\ contexts' \in [Holders \cup Keys -> Ownership]
      /\ \A o \in Holders : contexts'[o] = contexts[o]
      /\ \A k \in Keys : contexts'[k] = IF k \in ended THEN Unowned ELSE contexts[k]
  BY WithoutFact
<1>5. /\ witnesses' \in [issued : Nat, live : SUBSET Keys]
      /\ witnesses'.issued = witnesses.issued /\ witnesses'.live = Live \ ended /\ Live \subseteq Keys
  BY <1>1 DEF Typed, Live
<1>6. KeysOk'
  <2>1. ASSUME NEW k \in Keys
        PROVE  Owning(contexts[k])' /\ (contexts'[k] # Unowned => k \in witnesses'.live)
    BY <1>1, <1>4, <1>5, UnownedFact DEF KeysOk, Owning
  <2>2. witnesses'.live \subseteq 1..witnesses'.issued
    BY <1>1, <1>5 DEF KeysOk, Live
  <2> QED
    BY <2>1, <2>2 DEF KeysOk, Live
<1>7. FieldsOk'
  <2> SUFFICES ASSUME NEW g \in Fields PROVE FieldOk(g)'
    BY DEF FieldsOk
  <2>1. CASE g = f
    <3>1. UsedBy(x.use)'
      BY <1>2, ApplierFacts DEF UsedBy
    <3>2. 0 \notin witnesses'.live /\ 0 <= witnesses'.issued
      BY <1>5 DEF Keys
    <3> QED
      BY <1>2, <1>3, <2>1, <3>1, <3>2 DEF FieldOk, Live, UsedBy
  <2>2. CASE g # f
    <3>1. fields'[g] = fields[g] /\ FieldOk(g) /\ fields[g].key \in Nat
      BY <1>3, <2>2, FieldTypes
    <3>2. UsedBy(fields[g].use)'
      BY <3>1 DEF FieldOk, UsedBy
    <3>3. ~Latched' => /\ ~Latched /\ witnesses'.live = Live
                       /\ \A k \in Keys : contexts'[k] = contexts[k]
      BY <1>4, <1>5 DEF Latching
    <3>4. \A k \in Live : k \in Keys
      BY <1>5
    <3> QED
      BY <1>5, <3>1, <3>2, <3>3, <3>4 DEF FieldOk, Live, Whole, Agrees
  <2> QED
    BY <2>1, <2>2
<1>8. Counted'
  <2> SUFFICES ASSUME events.uncounted = 0, NEW k \in Keys PROVE refs[k] = Cardinality(HoldersOf(k)')
    BY DEF Counted
  <2>1. refs[k] = Cardinality(HoldersOf(k))
    BY <1>1 DEF Counted
  <2>2. HoldersOf(k)' = HoldersOf(k)
    <3>1. \A g \in Fields : fields'[g].key = fields[g].key
      BY <1>2, <1>3 DEF Idle
    <3> QED
      BY <3>1 DEF HoldersOf
  <2> QED
    BY <2>1, <2>2
<1>9. Steady
  BY <1>1, UsesSeq DEF Steady, Latching
<1>10. stack' \in Seq(Frame) /\ \A g : In(stack', g) => In(stack, g) \/ FrameOk(g)'
  <2>1. Top.object \in Holders
    BY ApplierFacts
  <2> QED
    BY <1>4, <1>9, <2>1, DoneKeeps
<1>11. refs' \in [Keys -> Int] /\ events' \in [foreign : Nat, uncounted : Nat]
  BY <1>1 DEF Typed
<1> QED
  BY <1>3, <1>4, <1>5, <1>6, <1>7, <1>8, <1>10, <1>11, ActionsKeep

\* A queued action with a new witness.
LEMMA StampedKeeps ==
    ASSUME IInv, stack # <<>>, Top.kind \in Dispatches, ReplaceTop([Top EXCEPT !.done = TRUE]),
           Top.owned, ~Latched,
           NEW f \in Fields, fields[f] = Idle, NEW sel \in Selectors,
           witnesses.issued < TotalMax,
           fields' = [fields EXCEPT ![f] = [use |-> objects[Top.object].use, key |-> NextKey, sel |-> sel]],
           NEW stored \in Puts(Carried(Top.object, sel)), late' = FALSE,
           contexts' = [Without(Retired) EXCEPT ![NextKey] = stored],
           refs' = [refs EXCEPT ![NextKey] = @ + 1],
           witnesses' = [issued |-> Max({witnesses.issued, NextKey}),
                         live |-> (Live \ Retired) \cup {NextKey}],
           UNCHANGED <<life, known, uses, objects, events, disabled>>
    PROVE  IInv'
<1>1. Typed /\ KeysOk /\ Counted
  BY DEF IInv
<1>2. PICK n \in Keys : n = NextKey /\ n = witnesses.issued + 1
  BY <1>1, ScrollAssumption DEF Typed, NextKey, Keys
<1>3. witnesses.issued \in Nat /\ Live \subseteq 1..witnesses.issued /\ Live \subseteq Keys /\ n \notin Live
  BY <1>1, <1>2 DEF Typed, KeysOk, Live
<1>4. PICK x \in Action : x = [use |-> objects[Top.object].use, key |-> n, sel |-> sel]
                          /\ x.use = objects[Top.object].use /\ x.key = n /\ x.sel = sel
  <2>1. objects[Top.object].use \in Nat /\ n \in Nat
    BY ApplierFacts, ObjectTypes DEF Keys
  <2>2. [use |-> objects[Top.object].use, key |-> n, sel |-> sel] \in Action
    BY <2>1 DEF Action
  <2> QED
    BY <2>2
<1>5. /\ fields' = [fields EXCEPT ![f] = x] /\ fields' \in [Fields -> Action] /\ fields'[f] = x
      /\ \A g \in Fields \ {f} : fields'[g] = fields[g]
  BY <1>1, <1>2, <1>4 DEF Typed
<1>6. /\ witnesses' \in [issued : Nat, live : SUBSET Keys]
      /\ witnesses'.issued = n /\ witnesses'.live = (Live \ Retired) \cup {n}
  <2>1. Max({witnesses.issued, NextKey}) = n /\ n \in Nat
    BY <1>2, <1>3, MaxNext
  <2> QED
    BY <1>2, <1>3, <2>1 DEF Keys
<1>7. PICK c \in Ownership :
        /\ c = stored /\ Owning(c)
        /\ ~Latched' => /\ c.sel = sel /\ c.use = contexts[Top.object].use
                        /\ Agrees(c, objects[Top.object].use)
  <2>1. /\ Context(Top.object) = contexts[Top.object] /\ contexts[Top.object] # Unowned
        /\ contexts[Top.object] \in Ownership /\ Owning(contexts[Top.object])
        /\ Agrees(contexts[Top.object], objects[Top.object].use)
    BY ApplierFacts, ObjectTypes
  <2>2. PICK from \in Ownership : from = contexts[Top.object]
    BY <2>1
  <2>3. Carried(Top.object, sel) = [from EXCEPT !.sel = sel]
    BY <2>1, <2>2 DEF Carried
  <2>4. [from EXCEPT !.sel = sel] \in Ownership /\ [from EXCEPT !.sel = sel].use = from.use
        /\ [from EXCEPT !.sel = sel].sel = sel
    BY DEF Ownership
  <2>5. from.use \in 1..Len(uses)
    BY <2>1, <2>2 DEF Owning
  <2>6. stored \in {Carried(Top.object, sel), Unowned} /\ (~Latched' => stored = Carried(Top.object, sel))
    BY PutsFact
  <2>7. stored \in Ownership /\ Owning(stored)
    BY <2>3, <2>4, <2>5, <2>6, UnownedFact DEF Owning
  <2> QED
    BY <2>1, <2>2, <2>3, <2>4, <2>5, <2>6, <2>7 DEF Agrees
<1>8. /\ contexts' \in [Holders \cup Keys -> Ownership]
      /\ \A o \in Holders : contexts'[o] = contexts[o]
      /\ contexts'[n] = c
      /\ \A k \in Keys \ {n} : contexts'[k] = IF k \in Retired THEN Unowned ELSE contexts[k]
  <2> DEFINE w == Without(Retired)
  <2>1. /\ w \in [Holders \cup Keys -> Ownership]
        /\ \A o \in Holders : w[o] = contexts[o]
        /\ \A k \in Keys : w[k] = IF k \in Retired THEN Unowned ELSE contexts[k]
    BY WithoutFact
  <2>2. contexts' = [w EXCEPT ![n] = c]
    BY <1>2, <1>7
  <2> HIDE DEF w
  <2> QED
    BY <1>2, <2>1, <2>2, Addresses
<1>9. KeysOk'
  <2>1. ASSUME NEW k \in Keys
        PROVE  Owning(contexts[k])' /\ (contexts'[k] # Unowned => k \in witnesses'.live)
    <3>1. CASE k = n
      BY <1>6, <1>7, <1>8, <3>1 DEF Owning
    <3>2. CASE k # n
      <4>1. contexts'[k] = (IF k \in Retired THEN Unowned ELSE contexts[k])
        BY <1>8, <3>2
      <4> QED
        BY <1>1, <1>6, <4>1 DEF KeysOk, Owning
    <3> QED
      BY <3>1, <3>2
  <2>2. witnesses'.live \subseteq 1..witnesses'.issued
    <3>1. \A k \in 1..witnesses.issued : k \in 1..n
      BY <1>2, <1>3
    <3> QED
      BY <1>2, <1>3, <1>6, <3>1 DEF Keys
  <2> QED
    BY <2>1, <2>2 DEF KeysOk, Live
<1>10. FieldsOk'
  <2> SUFFICES ASSUME NEW g \in Fields PROVE FieldOk(g)'
    BY DEF FieldsOk
  <2>1. CASE g = f
    <3>1. UsedBy(x.use)'
      BY <1>4, ApplierFacts DEF UsedBy
    <3>2. n \in witnesses'.live /\ n <= witnesses'.issued /\ contexts'[n] = c
      BY <1>2, <1>6, <1>8, <1>3
    <3>3. Whole' => c.use = x.use
      BY <1>4, <1>7, ApplierFacts DEF Whole
    <3> QED
      BY <1>4, <1>5, <1>7, <2>1, <3>1, <3>2, <3>3 DEF FieldOk, Live, UsedBy, Agrees
  <2>2. CASE g # f
    <3>1. fields'[g] = fields[g] /\ FieldOk(g) /\ fields[g].key \in Nat
      BY <1>5, <2>2, FieldTypes
    <3>2. UsedBy(fields[g].use)'
      BY <3>1 DEF FieldOk, UsedBy
    <3>3. fields[g].key <= witnesses.issued /\ fields[g].key # n /\ fields[g].key <= n
      BY <1>2, <1>3, <3>1 DEF FieldOk
    <3>4. ASSUME fields[g].key \in witnesses'.live
          PROVE  fields[g].key \in Live /\ contexts'[fields[g].key] = contexts[fields[g].key]
      BY <1>3, <1>6, <1>8, <3>3, <3>4
    <3>5. ASSUME Whole', fields[g].use # 0
          PROVE  fields[g].key \in witnesses'.live /\ contexts[fields[g].key].use = fields[g].use
      <4>1. fields[g].key \in Live /\ contexts[fields[g].key].use = fields[g].use /\ events.uncounted = 0
        BY <3>1, <3>5 DEF FieldOk, Whole
      <4>2. refs[fields[g].key] = Cardinality(HoldersOf(fields[g].key)) /\ g \in HoldersOf(fields[g].key)
        BY <1>1, <1>3, <4>1 DEF Counted, HoldersOf
      <4>3. fields[g].key \notin Retired
        BY <4>2, HoldersFinite DEF Retired, Retirable
      <4> QED
        BY <1>6, <4>1, <4>3
    <3>6. /\ ~Latched' /\ fields'[g].key \in witnesses'.live =>
                Agrees(contexts'[fields'[g].key], fields'[g].use)
                /\ contexts'[fields'[g].key].sel = fields'[g].sel
          /\ Whole' /\ fields'[g].use # 0 =>
                fields'[g].key \in witnesses'.live /\ contexts'[fields'[g].key].use = fields'[g].use
      BY <3>1, <3>4, <3>5 DEF FieldOk
    <3> QED
      BY <1>6, <3>1, <3>2, <3>3, <3>6 DEF FieldOk, Live, Agrees
  <2> QED
    BY <2>1, <2>2
<1>11. refs' \in [Keys -> Int]
  BY <1>1, <1>2 DEF Typed
<1>12. Counted'
  <2> SUFFICES ASSUME events.uncounted = 0, NEW k \in Keys PROVE refs'[k] = Cardinality(HoldersOf(k)')
    BY DEF Counted
  <2>1. refs[k] = Cardinality(HoldersOf(k)) /\ refs'[k] = refs[k] + (IF k = n THEN 1 ELSE 0)
    BY <1>1, <1>2 DEF Counted, Typed
  <2>2. Cardinality(HoldersOf(k)') =
          Cardinality(HoldersOf(k)) - (IF fields[f].key = k THEN 1 ELSE 0) + (IF x.key = k THEN 1 ELSE 0)
    <3>1. fields' = [fields EXCEPT ![f] = x]
      BY <1>5
    <3> QED
      BY <3>1, HolderChanges
  <2>3. fields[f].key # k /\ Cardinality(HoldersOf(k)) \in Nat
    BY HoldersFinite DEF Idle, Keys
  <2> DEFINE h == Cardinality(HoldersOf(k))
             h2 == Cardinality(HoldersOf(k)')
  <2>4. h2 = h + (IF n = k THEN 1 ELSE 0) /\ refs'[k] = h + (IF k = n THEN 1 ELSE 0)
    BY <1>4, <2>1, <2>2, <2>3
  <2> QED
    BY <2>4
<1>13. Latching /\ Steady
  <2>1. Latching
    BY SameLatching
  <2> QED
    BY <1>1, <2>1, UsesSeq DEF Steady, Latching
<1>14. stack' \in Seq(Frame) /\ \A g : In(stack', g) => In(stack, g) \/ FrameOk(g)'
  <2>1. Top.object \in Holders
    BY ApplierFacts
  <2> QED
    BY <1>8, <1>13, <2>1, DoneKeeps
<1> QED
  BY <1>1, <1>5, <1>6, <1>8, <1>9, <1>10, <1>11, <1>12, <1>13, <1>14, ActionsKeep DEF Typed

LEMMA QueueActionKeeps ==
    ASSUME IInv, late' = FALSE, NEW f \in Fields \ Casters, NEW sel \in Verbs, QueueAction(f, sel)
    PROVE  IInv'
<1>1. stack # <<>> /\ Top.kind = "action" /\ Top.kind \in Dispatches
  BY DEF QueueAction, Dispatching, At, Dispatches
<1>2. /\ ReplaceTop([Top EXCEPT !.done = TRUE]) /\ f \in Fields /\ fields[f] = Idle
      /\ UNCHANGED <<life, known, uses, objects, events>>
  BY DEF QueueAction, Dispatched
<1>3. sel \in Selectors /\ disabled \in BOOLEAN
  BY ScrollAssumption DEF Selectors, IInv, Typed
<1> DEFINE plain == [fields EXCEPT ![f] = [use |-> objects[Top.object].use, key |-> 0, sel |-> sel]]
<1>4. CASE /\ ~Top.owned \/ Latched
           /\ fields' = plain /\ UNCHANGED <<contexts, refs, witnesses, disabled>>
  <2>1. PICK ended \in SUBSET Retired : ended = {}
    OBVIOUS
  <2>2. contexts' = Without(ended)
    BY <1>4, <2>1 DEF Without, IInv, Typed
  <2>3. witnesses' = [witnesses EXCEPT !.live = @ \ ended]
    BY <1>4, <2>1 DEF IInv, Typed
  <2>4. Latching
    BY <1>4, SameLatching
  <2>5. Whole' => objects[Top.object].use = 0
    BY <1>1, <1>2, <1>4, <2>4, ApplierFacts, UnownedFact DEF Whole, Latching
  <2> QED
    BY <1>1, <1>2, <1>3, <1>4, <2>5, <2>1, <2>2, <2>3, <2>4, PlainKeeps
<1>5. ASSUME NEW ended \in SUBSET Retired, fields' = plain, contexts' = Without(ended),
             witnesses' = [witnesses EXCEPT !.live = @ \ ended], disabled' = TRUE, UNCHANGED refs
      PROVE  IInv'
  <2>1. Latching /\ Latched'
    BY <1>5, EngineLatching
  <2> QED
    BY <1>1, <1>2, <1>3, <1>5, <2>1, PlainKeeps DEF Whole
<1>6. ASSUME Top.owned, ~Latched, witnesses.issued < TotalMax,
             fields' = [fields EXCEPT ![f] = [use |-> objects[Top.object].use, key |-> NextKey, sel |-> sel]],
             NEW stored \in Puts(Carried(Top.object, sel)),
             contexts' = [Without(Retired) EXCEPT ![NextKey] = stored],
             refs' = [refs EXCEPT ![NextKey] = @ + 1],
             witnesses' = [issued |-> Max({witnesses.issued, NextKey}),
                           live |-> (Live \ Retired) \cup {NextKey}],
             UNCHANGED disabled
      PROVE  IInv'
  BY <1>1, <1>2, <1>3, <1>6, StampedKeeps
<1> QED
  BY <1>4, <1>5, <1>6 DEF QueueAction, Stamp
-----------------------------------------------------------------------------
LEMMA InitIInv == Init => IInv
<1> SUFFICES ASSUME Init PROVE IInv
  OBVIOUS
<1>1. Typed
  <2>1. Idle \in Action /\ Gone \in Object /\ Unowned \in Ownership
    BY GoneFact, UnownedFact DEF Idle, Action, Selectors
  <2>2. uses \in Seq(Use) /\ stack \in Seq(Frame)
    BY DEF Init
  <2>3. life \in [Actors -> Nat] /\ known \in [Actors -> Nat]
    BY DEF Init
  <2>4. objects \in [Holders -> Object] /\ fields \in [Fields -> Action]
        /\ contexts \in [Holders \cup Keys -> Ownership]
    BY <2>1 DEF Init
  <2>5. refs \in [Keys -> Int] /\ disabled \in BOOLEAN /\ late \in BOOLEAN /\ (late => disabled)
    <3> DEFINE none == 0
    <3>1. none \in Int /\ refs = [k \in Keys |-> none] /\ disabled = FALSE /\ late = FALSE
      BY DEF Init
    <3> HIDE DEF none
    <3> QED
      BY <3>1
  <2>6. witnesses \in [issued : Nat, live : SUBSET Keys] /\ events \in [foreign : Nat, uncounted : Nat]
    BY DEF Init
  <2> QED
    BY <2>2, <2>3, <2>4, <2>5, <2>6 DEF Typed
<1>2. Readers
  <2>1. DOMAIN uses = {}
    BY DEF Init
  <2> QED
    BY <2>1 DEF Init, Readers
<1>3. Len(uses) = 0 /\ 0 \in 0..Len(uses)
  BY DEF Init
<1>4. ObjectsOk
  <2> SUFFICES ASSUME NEW o \in Holders PROVE ObjectOk(o)
    BY DEF ObjectsOk
  <2>1. objects[o] = Gone /\ contexts[o] = Unowned
    BY DEF Init
  <2> QED
    BY <1>3, <2>1, GoneFact, UnownedFact DEF ObjectOk, UsedBy, Owning, LevelOf, Agrees
<1>5. KeysOk
  BY DEF Init, KeysOk, Owning
<1>6. FieldsOk
  BY <1>3 DEF Init, FieldsOk, FieldOk, UsedBy, Idle, Live
<1>7. Counted
  <2> SUFFICES ASSUME NEW k \in Keys PROVE refs[k] = Cardinality(HoldersOf(k))
    BY DEF Counted
  <2>1. HoldersOf(k) = {}
    BY DEF Init, HoldersOf, Idle, Keys
  <2> QED
    BY <2>1, FS_EmptySet DEF Init
<1>8. FramesOk
  BY DEF Init, FramesOk
<1> QED
  BY <1>1, <1>2, <1>4, <1>5, <1>6, <1>7, <1>8 DEF IInv

LEMMA StutterIInv == IInv /\ UNCHANGED vars => IInv'
BY SameCalls, CallKeeps DEF vars, IInv, Typed, Latching, Latched

LEMMA EngineIInv == ASSUME IInv, Engine, late' = FALSE PROVE IInv'
<1>1. ASSUME NEW a \in Actors, ActorReplaced(a) \/ \E observes \in BOOLEAN : BeginUse(a, observes)
      PROVE  IInv'
  BY <1>1, ActorReplacedKeeps, BeginUseKeeps
<1>2. ASSUME NEW e \in Effects, Root(e) \/ NewEffect(e) \/ LinkedChild(e) \/ Child(e) PROVE IInv'
  BY <1>2, RootKeeps, NewEffectKeeps, LinkedChildKeeps, ChildKeeps
<1>3. ASSUME NEW from \in Effects, NEW to \in Effects, CopyEffect(from, to) PROVE IInv'
  BY <1>3, CopyEffectKeeps
<1>4. ASSUME NEW o \in Holders, Destroy(o) PROVE IInv'
  BY <1>4, DestroyKeeps
<1>5. ASSUME NEW e \in Effects, NEW path \in Paths, Apply(e, path) PROVE IInv'
  BY <1>5, ApplyKeeps
<1>6. ASSUME NEW m \in Messages, QueueMessage(m) \/ RunMessage(m) PROVE IInv'
  BY <1>6, QueueMessageKeeps, RunMessageKeeps
<1>7. ASSUME NEW f \in Fields \ Casters, NEW sel \in Verbs, QueueAction(f, sel) PROVE IInv'
  BY <1>7, QueueActionKeeps
<1>8. ASSUME NEW f \in Fields, NEW sel \in Verbs \cup {"none"}, NewAction(f, sel) PROVE IInv'
  BY <1>8, NewActionKeeps
<1>9. ASSUME NEW f \in Fields, NEW g \in Fields, AssignAction(f, g) \/ CopyUncounted(f, g) PROVE IInv'
  BY <1>9, AssignActionKeeps, CopyUncountedKeeps
<1>10. ASSUME NEW r \in Receivers, CastDirect(r) \/ CastMessage(r) \/ CastOther(r) PROVE IInv'
  BY <1>10, CastDirectKeeps, CastMessageKeeps, CastOtherKeeps
<1>11. ASSUME NEW r \in Casters, CastAction(r) PROVE IInv'
  BY <1>11, CastActionKeeps
<1>12. ASSUME CastFurther \/ Preselect \/ \E native \in BOOLEAN : Resolved(native) PROVE IInv'
  BY <1>12, CastFurtherKeeps, PreselectKeeps, ResolvedKeeps
<1>13. ASSUME EndCast \/ EndCall \/ Disable PROVE IInv'
  BY <1>13, EndKeeps, DisableKeeps
<1> QED
  BY <1>1, <1>2, <1>3, <1>4, <1>5, <1>6, <1>7, <1>8, <1>9, <1>10, <1>11, <1>12, <1>13 DEF Engine

LEMMA NextIInv == ASSUME IInv, Next PROVE IInv'
BY EngineIInv, ForeignEntryKeeps, ForeignCallKeeps DEF Next

LEMMA Inductive == Spec => []IInv
<1>1. IInv /\ [Next]_vars => IInv'
  BY NextIInv, StutterIInv
<1> QED
  BY <1>1, InitIInv, PTL DEF Spec
-----------------------------------------------------------------------------
\* While overrides are on, the registry takes an effect, a message, an action
\* or a cast for a scroll's exactly when it comes from that scroll, however
\* addresses are reused and calls nest (Registry::attach_root, dispatch, set).
THEOREM OwnershipIsExact == Spec => []OwnedExactly
<1>1. IInv => OwnedExactly
  <2> SUFFICES ASSUME IInv PROVE OwnedExactly
    OBVIOUS
  <2>1. \A i \in DOMAIN stack : stack[i].kind = "cast" =>
          /\ ~Latched => Agrees(stack[i].context, stack[i].use)
          /\ Whole => stack[i].context.use = stack[i].use
    BY DEF IInv, FramesOk, FrameOk
  <2>2. OwnedIsTrue
    BY <2>1 DEF IInv, ObjectsOk, ObjectOk, FieldsOk, FieldOk, OwnedIsTrue, Latched
  <2>3. OwnedIsFound
    BY <2>1 DEF IInv, ObjectsOk, ObjectOk, FieldsOk, FieldOk, OwnedIsFound, Whole, Latched
  <2> QED
    BY <2>2, <2>3 DEF OwnedExactly
<1> QED
  BY <1>1, Inductive, PTL

\* A level that is not the engine's is that of the very reader the effect or
\* the cast comes from, and the saved context of an effect has the same one
\* (Scope::select, Scope::child, Registry::linked177, EffectExport).
THEOREM LevelsAreReaders == Spec => []LevelIsTrue
<1>1. IInv => LevelIsTrue
  <2> SUFFICES ASSUME IInv PROVE LevelIsTrue
    OBVIOUS
  <2>1. LevelIsReaders
    BY DEF IInv, ObjectsOk, ObjectOk, FramesOk, FrameOk, LevelOf, LevelIsReaders
  <2>2. SavedScalarMatches
    BY DEF IInv, ObjectsOk, ObjectOk, SavedScalarMatches, Holders, Latched
  <2> QED
    BY <2>1, <2>2 DEF LevelIsTrue
<1> QED
  BY <1>1, Inductive, PTL

\* A context ends with its effect, message or witness, unless another thread
\* destroyed that (Registry::destroyed, sweep).
THEOREM NothingIsLeftBehind == Spec => []NothingLeftBehind
<1>1. IInv => NothingLeftBehind
  BY DEF IInv, ObjectsOk, ObjectOk, KeysOk, NothingLeftBehind
<1> QED
  BY <1>1, Inductive, PTL
-----------------------------------------------------------------------------
(* After the latch.                                                         *)

ContextsOnlyGo == \A o \in Holders \cup Keys : contexts'[o] \in {contexts[o], Unowned}
LevelsOnlySpread ==
    \A o \in Holders : objects'[o].level # Native =>
        \E e \in Effects : objects[e].level = objects'[o].level
CastsOnlyLose ==
    Len(stack') = Len(stack) =>
        \A i \in DOMAIN stack : stack'[i].kind = "cast" => stack'[i].level \in {stack[i].level, Native}
NothingGained == ContextsOnlyGo /\ LevelsOnlySpread /\ CastsOnlyLose

\* The calls come and go, and the innermost one gains no level.
LEMMA PushedCall == ASSUME IInv, NEW s \in Seq(Frame), Len(s) = Len(stack), NEW x, stack' = Append(s, x)
                    PROVE  CastsOnlyLose
<1>1. Len(s) \in Nat /\ s \in Seq(Frame \cup {x}) /\ x \in Frame \cup {x}
  BY LenProperties, SeqMonotonic
<1>2. Len(stack') = Len(s) + 1
  BY <1>1, AppendProperties
<1> QED
  BY <1>1, <1>2 DEF CastsOnlyLose

LEMMA ReplacedCall ==
    ASSUME IInv, stack # <<>>, NEW x, ReplaceTop(x), x.kind = "cast" => x.level \in {Top.level, Native}
    PROVE  CastsOnlyLose /\ Len(stack') = Len(stack)
<1> DEFINE front == Front(stack)
<1>1. /\ front \in Seq(Frame) /\ Len(front) = Len(stack) - 1 /\ Len(stack) \in Nat
      /\ \A i \in 1..(Len(stack) - 1) : front[i] = stack[i]
      /\ DOMAIN stack = 1..Len(stack) /\ Top = stack[Len(stack)]
  BY FrontFrame, FrameSeq DEF IInv, Typed, Top
<1>2. front \in Seq(Frame \cup {x}) /\ x \in Frame \cup {x} /\ stack' = Append(front, x)
  BY <1>1, SeqMonotonic DEF ReplaceTop
<1> HIDE DEF front
<1>3. /\ Len(stack') = Len(stack) /\ stack'[Len(stack)] = x
      /\ \A i \in 1..(Len(stack) - 1) : stack'[i] = stack[i]
  BY <1>1, <1>2, AppendProperties
<1>4. ASSUME NEW i \in DOMAIN stack, stack'[i].kind = "cast"
      PROVE  stack'[i].level \in {stack[i].level, Native}
  <2>1. CASE i = Len(stack)
    BY <1>1, <1>3, <1>4, <2>1
  <2>2. CASE i # Len(stack)
    BY <1>1, <1>3, <2>2
  <2> QED
    BY <2>1, <2>2
<1> QED
  BY <1>3, <1>4 DEF CastsOnlyLose

LEMMA ReturnedCall == ASSUME IInv, stack # <<>>, stack' = Front(stack) PROVE CastsOnlyLose
BY FrontFrame, FrameSeq DEF IInv, Typed, CastsOnlyLose

LEMMA DoneCall ==
    ASSUME IInv, stack # <<>>, Top.kind \in Dispatches \cup {"run"}
    PROVE  /\ Done \in Seq(Frame) /\ Len(Done) = Len(stack)
           /\ [Top EXCEPT !.done = TRUE].kind # "cast"
<1>1. [Top EXCEPT !.done = TRUE].kind = Top.kind
  BY KindFacts DEF ApplyFrame, RunFrame, Dispatches
<1>2. PICK x \in Frame : x = [Top EXCEPT !.done = TRUE]
  BY DoneFact
<1>3. Done = Append(Front(stack), x)
  BY <1>2 DEF Done
<1> QED
  BY <1>1, <1>3, ReplacedFrame, DoneFact DEF Dispatches, IInv, Typed

\* Where effects and messages stay as they are.
LEMMA LatchedSame == ASSUME IInv, UNCHANGED <<objects, contexts>>, CastsOnlyLose PROVE NothingGained
<1>1. \A o \in Holders : objects[o].level # Native => o \in Effects
  BY DEF IInv, ObjectsOk, ObjectOk, Holders
<1> QED
  BY <1>1 DEF NothingGained, ContextsOnlyGo, LevelsOnlySpread

\* Where one changes.
LEMMA LatchedOne ==
    ASSUME IInv, NEW o \in Holders, NEW x, objects' = [objects EXCEPT ![o] = x],
           contexts' = contexts \/ contexts' = [contexts EXCEPT ![o] = Unowned],
           x.level = Native \/ \E e \in Effects : x = objects[e],
           CastsOnlyLose
    PROVE  NothingGained
<1>1. \A h \in Holders : objects[h].level # Native => h \in Effects
  BY DEF IInv, ObjectsOk, ObjectOk, Holders
<1>2. objects'[o] = x /\ \A h \in Holders \ {o} : objects'[h] = objects[h]
  BY DEF IInv, Typed
<1>3. ContextsOnlyGo
  BY DEF ContextsOnlyGo, IInv, Typed
<1>4. LevelsOnlySpread
  <2> SUFFICES ASSUME NEW h \in Holders, objects'[h].level # Native
               PROVE  \E e \in Effects : objects[e].level = objects'[h].level
    BY DEF LevelsOnlySpread
  <2>1. CASE h = o
    BY <1>2, <2>1
  <2>2. CASE h # o
    BY <1>1, <1>2, <2>2
  <2> QED
    BY <2>1, <2>2
<1> QED
  BY <1>3, <1>4 DEF NothingGained

LEMMA SameCasts == ASSUME IInv, stack' = stack PROVE CastsOnlyLose
BY DEF CastsOnlyLose

\* Anything the engine makes while the overrides are off.
LEMMA NothingPut ==
    ASSUME Latched
    PROVE  /\ \A c : \A stored \in Puts(c) : stored = Unowned
           /\ \A level \in LinkedLevels(Unowned) : level = Native
BY DEF Puts, Held, LateOr, LinkedLevels, Latched, Unowned

LEMMA LatchedMake ==
    ASSUME IInv, Latched, NEW o \in Holders, NEW u,
           Make(o, u, Native, Unowned) \/ MakeFailed(o, u) \/ MakeUnhooked(o, u),
           CastsOnlyLose
    PROVE  NothingGained
<1> DEFINE x == [alive |-> TRUE, use |-> u, level |-> Native]
<1>1. objects' = [objects EXCEPT ![o] = x] /\ x.level = Native
  BY DEF Make, MakeFailed, MakeUnhooked
<1>2. contexts' = contexts \/ contexts' = [contexts EXCEPT ![o] = Unowned]
  BY DEF Make, MakeFailed, MakeUnhooked
<1> HIDE DEF x
<1> QED
  BY <1>1, <1>2, LatchedOne

LEMMA MakingLatched ==
    ASSUME IInv, Latched, NEW e \in Effects, Root(e) \/ NewEffect(e) \/ LinkedChild(e) \/ Child(e)
    PROVE  NothingGained
<1>1. e \in Holders
  BY DEF Holders
<1>2. CASE Root(e)
  <2>1. stack # <<>> /\ Top.kind = "item" /\ Top \in ItemFrame
    BY <1>2, KindFacts DEF Root, At
  <2>2. PICK u : /\ ReplaceTop([Top EXCEPT !.use = u])
                 /\ Make(e, u, Native, Unowned) \/ MakeFailed(e, u)
    BY <1>2, NothingPut DEF Root
  <2>3. [Top EXCEPT !.use = u].kind = "item"
    BY <2>1 DEF ItemFrame
  <2>4. CastsOnlyLose
    BY <2>1, <2>2, <2>3, ReplacedCall
  <2> QED
    BY <1>1, <2>2, <2>4, LatchedMake
<1>3. CASE NewEffect(e)
  BY <1>1, <1>3, SameCasts, LatchedMake DEF NewEffect
<1>4. CASE LinkedChild(e)
  <2>1. PICK u : MakeUnhooked(e, u) \/ MakeFailed(e, u)
                   \/ Make(e, u, Native, Unowned)
    BY <1>4, NothingPut DEF LinkedChild, Context, Held
  <2> QED
    BY <1>1, <1>4, <2>1, SameCasts, LatchedMake DEF LinkedChild
<1>5. CASE Child(e)
  <2>1. MakeUnhooked(e, Top.use)
    BY <1>5 DEF Child, Held
  <2> QED
    BY <1>1, <1>5, <2>1, SameCasts, LatchedMake DEF Child
<1> QED
  BY <1>2, <1>3, <1>4, <1>5

LEMMA HoldersLatched ==
    ASSUME IInv, Latched,
           \/ \E from, to \in Effects : CopyEffect(from, to)
           \/ \E o \in Holders : Destroy(o)
           \/ \E m \in Messages : QueueMessage(m)
           \/ ForeignCall
    PROVE  NothingGained
<1>1. ASSUME NEW from \in Effects, NEW to \in Effects, CopyEffect(from, to) PROVE NothingGained
  <2>1. /\ to \in Holders /\ objects' = [objects EXCEPT ![to] = objects[from]]
        /\ contexts' = [contexts EXCEPT ![to] = Unowned] /\ stack' = stack
    BY <1>1, NothingPut DEF CopyEffect, Holders
  <2> QED
    BY <2>1, SameCasts, LatchedOne
<1>2. ASSUME NEW o \in Holders, Destroy(o) PROVE NothingGained
  <2>1. /\ objects' = [objects EXCEPT ![o] = Gone]
        /\ contexts' = [contexts EXCEPT ![o] = Unowned] /\ stack' = stack
    BY <1>2 DEF Destroy, Forget
  <2> QED
    BY <2>1, GoneFact, SameCasts, LatchedOne
<1>3. ASSUME NEW m \in Messages, QueueMessage(m) PROVE NothingGained
  <2>1. stack # <<>> /\ Top.kind = "message" /\ ReplaceTop([Top EXCEPT !.done = TRUE]) /\ m \in Holders
    BY <1>3 DEF QueueMessage, Dispatching, Dispatched, At, Holders
  <2>2. CastsOnlyLose
    BY <2>1, DoneCall, ReplacedCall DEF Dispatches
  <2>3. PICK u : Make(m, u, Native, Unowned)
    BY <1>3, NothingPut DEF QueueMessage
  <2> QED
    BY <2>1, <2>2, <2>3, LatchedMake
<1>4. CASE ForeignCall
  <2>1. contexts' = contexts /\ CastsOnlyLose
    BY <1>4, SameCasts DEF ForeignCall
  <2>2. objects' = objects \/ \E o \in Holders : objects' = [objects EXCEPT ![o] = Gone]
    BY <1>4 DEF ForeignCall
  <2> QED
    BY <2>1, <2>2, GoneFact, LatchedSame, LatchedOne
<1> QED
  BY <1>1, <1>2, <1>3, <1>4

LEMMA CallsLatched ==
    ASSUME IInv, Latched,
           \/ \E a \in Actors, observes \in BOOLEAN : BeginUse(a, observes)
           \/ \E e \in Effects, path \in Paths : Apply(e, path)
           \/ \E m \in Messages : RunMessage(m)
           \/ \E r \in Receivers : CastDirect(r) \/ CastMessage(r) \/ CastOther(r)
           \/ \E r \in Casters : CastAction(r)
           \/ CastFurther \/ EndCast \/ EndCall
    PROVE  NothingGained
<1>1. stack \in Seq(Frame)
  BY DEF IInv, Typed
<1>2. objects' = objects /\ contexts' = contexts
  BY DEF BeginUse, Apply, RunMessage, CastDirect, CastMessage, CastOther, CastAction, CastFurther,
         EndCast, EndCall, Enter
<1>3. ASSUME NEW x, stack' = Append(stack, x) PROVE CastsOnlyLose
  BY <1>1, <1>3, PushedCall
<1>4. ASSUME NEW r \in Receivers, CastDirect(r) \/ CastMessage(r) PROVE CastsOnlyLose
  <2>1. stack # <<>> /\ Top.kind \in Dispatches \cup {"run"}
    BY <1>4 DEF CastDirect, CastMessage, Dispatching, At, Dispatches
  <2>2. \E x : stack' = Append(Done, x)
    BY <1>4 DEF CastDirect, CastMessage, Enter
  <2> QED
    BY <2>1, <2>2, DoneCall, PushedCall
<1>5. ASSUME EndCast \/ EndCall PROVE CastsOnlyLose
  BY <1>5, ReturnedCall DEF EndCast, EndCall, At
<1>6. CASE \/ \E a \in Actors, observes \in BOOLEAN : BeginUse(a, observes)
           \/ \E e \in Effects, path \in Paths : Apply(e, path)
           \/ \E m \in Messages : RunMessage(m)
  <2>1. \E x : stack' = Append(stack, x)
    BY <1>6 DEF BeginUse, Apply, RunMessage, Push
  <2> QED
    BY <1>2, <1>3, <2>1, LatchedSame
<1>7. CASE \/ \E r \in Receivers : CastOther(r)
           \/ \E r \in Casters : CastAction(r)
           \/ CastFurther
  <2>1. \E x : stack' = Append(stack, x)
    BY <1>7 DEF CastOther, CastAction, CastFurther, Enter
  <2> QED
    BY <1>2, <1>3, <2>1, LatchedSame
<1> QED
  BY <1>2, <1>4, <1>5, <1>6, <1>7, LatchedSame

LEMMA SelectionLatched ==
    ASSUME IInv, Latched, Preselect \/ \E native \in BOOLEAN : Resolved(native)
    PROVE  NothingGained
<1>1. stack # <<>> /\ Top.kind = "cast" /\ Top \in CastFrame /\ objects' = objects /\ contexts' = contexts
  BY KindFacts DEF Preselect, Resolved, At
<1>2. PICK x : ReplaceTop(x) /\ x.level \in {Top.level, Native}
  <2>1. CASE Preselect
    <3>1. ReplaceTop([Top EXCEPT !.state = "selected", !.context = Unowned])
      BY <2>1 DEF Preselect, Held
    <3>2. [Top EXCEPT !.state = "selected", !.context = Unowned].level = Top.level
      BY <1>1 DEF CastFrame
    <3> QED
      BY <3>1, <3>2
  <2>2. ASSUME NEW native \in BOOLEAN, Resolved(native)
        PROVE  \E x : ReplaceTop(x) /\ x.level \in {Top.level, Native}
    <3>1. ReplaceTop([Top EXCEPT !.state = "selected", !.level = Native])
      BY <2>2 DEF Resolved, Selected
    <3>2. [Top EXCEPT !.state = "selected", !.level = Native].level = Native
      BY <1>1 DEF CastFrame
    <3> QED
      BY <3>1, <3>2
  <2> QED
    BY <2>1, <2>2
<1>3. CastsOnlyLose
  BY <1>1, <1>2, ReplacedCall
<1> QED
  BY <1>1, <1>3, LatchedSame

LEMMA ActionsLatched ==
    ASSUME IInv, Latched,
           \/ \E a \in Actors : ActorReplaced(a)
           \/ \E f \in Fields \ Casters, sel \in Verbs : QueueAction(f, sel)
           \/ \E f \in Fields, sel \in Verbs \cup {"none"} : NewAction(f, sel)
           \/ \E f, g \in Fields : AssignAction(f, g) \/ CopyUncounted(f, g)
           \/ Disable \/ UNCHANGED vars
    PROVE  NothingGained
<1>1. ASSUME NEW f \in Fields \ Casters, NEW sel \in Verbs, QueueAction(f, sel) PROVE NothingGained
  <2>1. stack # <<>> /\ Top.kind = "action" /\ ReplaceTop([Top EXCEPT !.done = TRUE])
    BY <1>1 DEF QueueAction, Dispatching, Dispatched, At
  <2>2. CastsOnlyLose
    BY <2>1, DoneCall, ReplacedCall DEF Dispatches
  <2>3. objects' = objects /\ contexts' = contexts
    BY <1>1 DEF QueueAction
  <2> QED
    BY <2>2, <2>3, LatchedSame
<1>2. CASE \/ \E a \in Actors : ActorReplaced(a)
           \/ \E f \in Fields, sel \in Verbs \cup {"none"} : NewAction(f, sel)
           \/ \E f, g \in Fields : AssignAction(f, g) \/ CopyUncounted(f, g)
           \/ Disable \/ UNCHANGED vars
  <2>1. objects' = objects /\ contexts' = contexts /\ stack' = stack
    BY <1>2 DEF ActorReplaced, NewAction, AssignAction, CopyUncounted, Disable, vars
  <2> QED
    BY <2>1, SameCasts, LatchedSame
<1> QED
  BY <1>1, <1>2

LEMMA StepLatched == ASSUME IInv, Latched, [Next]_vars PROVE NothingGained
<1>1. Engine => NothingGained
  BY MakingLatched, HoldersLatched, CallsLatched, SelectionLatched, ActionsLatched DEF Engine
<1>2. ~ForeignEntry
  BY DEF ForeignEntry, Latched
<1>3. ForeignCall => NothingGained
  BY HoldersLatched
<1>4. UNCHANGED vars => NothingGained
  BY ActionsLatched
<1> QED
  BY <1>1, <1>2, <1>3, <1>4 DEF Next

\* Once the overrides are off, no step gives anything a context or a cast a
\* level, and a level only passes on with an effect's copy, except in the one
\* hook at work when another thread turned them off, and that is over with its
\* step (Registry::set, Scope::select, foreign_entry, scroll_context.hpp:326).
THEOREM NothingAfterTheLatch == Spec => NothingAfterDisable
<1>1. IInv /\ Next /\ disabled => ~late'
  BY DEF Next, ForeignEntry, ForeignCall
<1>2. IInv /\ [Next]_vars /\ Latched => NothingGained
  BY StepLatched
<1>3. IInv /\ [Next]_vars =>
        [disabled =>
          /\ ~late'
          /\ ~late =>
            /\ \A o \in Holders \cup Keys : contexts'[o] \in {contexts[o], Unowned}
            /\ \A o \in Holders : objects'[o].level # Native =>
                  \E e \in Effects : objects[e].level = objects'[o].level
            /\ Len(stack') = Len(stack) =>
                  \A i \in DOMAIN stack : stack'[i].kind = "cast" =>
                      stack'[i].level \in {stack[i].level, Native}]_vars
  BY <1>1, <1>2 DEF NothingGained, ContextsOnlyGo, LevelsOnlySpread, CastsOnlyLose, Latched
<1> QED
  BY <1>3, Inductive, PTL DEF Spec, NothingAfterDisable
=============================================================================
