-------------------------- MODULE ScrollArchiveProofs --------------------------
(***************************************************************************)
(* For any characters, effects, scrolls, processes and nesting of loads:   *)
(* what the registry calls an effect's ancestry is its ancestry, none is   *)
(* lost while the overrides are on, and a foreign envelope is handed on.   *)
(***************************************************************************)
EXTENDS ScrollArchive, SequenceTheorems, TLAPS

Ancestry == [use : Nat, reader : Nat, uuid : Chars \cup {None}, level : Nat]
EffectRecord == [use : Nat, level : Levels, ctx : Ancestry, whole : BOOLEAN]
SavedRecord == [level : Levels, saved : [use : Nat, uuid : Chars \cup {None}, level : Nat]]
EnvelopeRecord == {NoEnvelope, Foreign} \cup [kind : {"ours"}, rows : Seq(SavedRecord), time : Nat]
Sprite ==
    [life : Nat, stage : {"none", "decoding", "decoded", "bound", "live"},
     effects : Seq(EffectRecord), uuid : BOOLEAN, raw : EnvelopeRecord, error : BOOLEAN,
     finished : BOOLEAN]
Row == [level : Levels, use : Nat, whole : BOOLEAN]
CharacterRecord == [rows : Seq(Row), time : Nat, envelope : EnvelopeRecord]
ImportRecord == [open : BOOLEAN, rows : Seq(Levels), archive : EnvelopeRecord]
ExportRecord ==
    [of : Chars \cup {None}, prepared : BOOLEAN, rows : Seq(SavedRecord),
     envelope : EnvelopeRecord, meddled : BOOLEAN]

Typed ==
    /\ sprite \in [Chars -> Sprite]
    /\ record \in [Chars -> CharacterRecord]
    /\ uses \in Seq(Chars)
    /\ scopes \in Seq(Chars)
    /\ import \in [Chars -> ImportRecord]
    /\ export \in ExportRecord
    /\ disabled \in BOOLEAN
    /\ changes \in Nat /\ lives \in Nat
    /\ strangers \subseteq Chars

\* No two sprites of a process have the same life.
LivesOk(s, n) ==
    /\ \A c \in Chars : /\ s[c].life <= n
                        /\ s[c].stage = "none" => s[c] = NoSprite
                        /\ s[c].stage # "none" => s[c].life # 0
    /\ \A c, d \in Chars : s[c].life = s[d].life /\ s[c].life # 0 => c = d

ScopesOk ==
    /\ \A i \in 1..Len(scopes) : sprite[scopes[i]].stage = "decoding"
    /\ \A i, j \in 1..Len(scopes) : scopes[i] = scopes[j] => i = j

\* What an envelope says of the effects written with it at that time is true,
Tells(env, time, list, us) ==
    env.kind = "ours" =>
        /\ env.time <= time
        /\ env.time = time =>
              \A i \in 1..Len(env.rows) : i \in 1..Len(list) /\ env.rows[i].saved # Unsaved =>
                  /\ list[i].use \in 1..Len(us)
                  /\ env.rows[i].saved.use = list[i].use
                  /\ env.rows[i].saved.uuid = us[list[i].use]
\* and it says all there is to say of those that have their ancestry.
Complete(env, time, list) ==
    \A i \in 1..Len(list) : list[i].whole /\ list[i].use # 0 =>
        /\ env.kind = "ours" /\ env.time = time
        /\ Len(env.rows) = Len(list)
        /\ \A j \in 1..Len(list) : env.rows[j].level = list[j].level
        /\ env.rows[i].saved.use = list[i].use

\* The reader an effect has is the one of its scroll, here or not.
Belongs(e, us, s, n) ==
    e.ctx # Unowned =>
        /\ e.use \in 1..Len(us)
        /\ e.ctx.use = e.use /\ e.ctx.uuid = us[e.use]
        /\ e.ctx.reader <= n
        /\ \A d \in Chars : e.ctx.reader # 0 /\ s[d].life = e.ctx.reader => d = us[e.use]
\* Survives, of other scrolls and sprites than those there are.
Kept(e, us, s) ==
    e.whole /\ e.use # 0 =>
        /\ e.ctx.use = e.use
        /\ s[us[e.use]].uuid => e.ctx.reader = s[us[e.use]].life

IsLive(p) == p.stage \in {"bound", "live"}
Good(p, us, s, n) ==
    \A i \in 1..Len(p.effects) :
        Belongs(p.effects[i], us, s, n) /\ (IsLive(p) => Kept(p.effects[i], us, s))

\* A sprite whose effects are decoded or wait for its UUID.
LoadOk(p, r, im, off) ==
    p.stage \in {"decoding", "decoded"} =>
        /\ ~p.uuid
        /\ Len(p.effects) <= Len(r.rows)
        /\ \A i \in 1..Len(p.effects) :
              p.effects[i] = Effect(r.rows[i].use, r.rows[i].level, Unowned, r.rows[i].whole)
        /\ p.raw \in {NoEnvelope, r.envelope}
        /\ p.stage = "decoded" => Len(p.effects) = Len(r.rows) /\ p.raw = r.envelope
        /\ ~off => /\ im.open /\ im.archive = p.raw /\ p.raw.kind # "foreign"
                   /\ Len(im.rows) = Len(p.effects)
                   /\ \A i \in 1..Len(p.effects) : im.rows[i] = p.effects[i].level

\* A sprite that came through while the overrides are on keeps no envelope.
LiveOk(p, us, now, off) ==
    IsLive(p) =>
        /\ ~off => p.uuid /\ p.finished
        /\ ~off /\ p.stage = "live" => p.raw = NoEnvelope
        /\ \A i \in 1..Len(p.effects) : p.effects[i].use <= Len(us)
        /\ Tells(p.raw, now, p.effects, us)

RecordOk(r, us, now) ==
    /\ r.time <= now
    /\ \A i \in 1..Len(r.rows) : r.rows[i].use <= Len(us)
    /\ Tells(r.envelope, r.time, r.rows, us)
    /\ Complete(r.envelope, r.time, r.rows)

\* An envelope of another kind is kept from the load to every save.
StrangerOk(c, p, r, ex) ==
    /\ r.envelope = Foreign
    /\ p.raw \in {NoEnvelope, Foreign}
    /\ p.raw = Foreign => p.error
    /\ p.stage \in {"decoded", "bound", "live"} => p.raw = Foreign
    /\ ex # NoExport /\ ex.of = c => ex.envelope = Foreign

Sound(c) ==
    /\ ~disabled => Good(sprite[c], uses, sprite, lives)
    /\ LoadOk(sprite[c], record[c], import[c], disabled)
    /\ LiveOk(sprite[c], uses, changes, disabled)
    /\ sprite[c].error => disabled
    /\ RecordOk(record[c], uses, changes)
    /\ c \in strangers => StrangerOk(c, sprite[c], record[c], export)
EachSound == \A c \in Chars : Sound(c)

ExportOk ==
    export # NoExport =>
        /\ export.of \in Chars /\ sprite[export.of].stage = "live" /\ scopes = <<>>
        /\ Tells(export.envelope, changes, sprite[export.of].effects, uses)
        /\ ~disabled /\ ~export.meddled =>
              Complete(export.envelope, changes, sprite[export.of].effects)

Distinct == LivesOk(sprite, lives)

IInv ==
    /\ Typed
    /\ Distinct
    /\ ScopesOk
    /\ EachSound
    /\ ExportOk
-----------------------------------------------------------------------------
(* Sequences, and the records that steps change.                            *)

LEMMA SeqFact ==
    ASSUME NEW S, NEW q \in Seq(S)
    PROVE  Len(q) \in Nat /\ DOMAIN q = 1..Len(q) /\ \A i \in 1..Len(q) : q[i] \in S
BY LenProperties, ElementOfSeq

LEMMA AddFact ==
    ASSUME NEW S, NEW q \in Seq(S), NEW x \in S
    PROVE  /\ Append(q, x) \in Seq(S) /\ Len(Append(q, x)) = Len(q) + 1 /\ Len(q) \in Nat
           /\ \A i \in 1..Len(q) : Append(q, x)[i] = q[i]
           /\ Append(q, x)[Len(q) + 1] = x
BY AppendProperties, LenProperties

LEMMA FrontFact ==
    ASSUME NEW S, NEW q \in Seq(S), q # <<>>
    PROVE  /\ Front(q) \in Seq(S) /\ Len(Front(q)) = Len(q) - 1 /\ Len(q) \in Nat \ {0}
           /\ Last(q) = q[Len(q)] /\ Last(q) \in S
           /\ \A i \in 1..(Len(q) - 1) : Front(q)[i] = q[i]
<1>1. Len(q) \in Nat \ {0}
  BY LenProperties, EmptySeq
<1>2. 1 \in Int /\ Len(q) - 1 \in Int /\ \A i \in 1..(Len(q) - 1) : q[i] \in S
  BY <1>1, SeqFact
<1>3. PICK n \in Nat : n = Len(q) - 1
  BY <1>1
<1>4. /\ SubSeq(q, 1, n) \in Seq(S) /\ Len(SubSeq(q, 1, n)) = n
      /\ \A i \in 1..n : SubSeq(q, 1, n)[i] = q[i]
  <2>1. \A i \in 1..n : q[i] \in S
    BY <1>2, <1>3
  <2>2. 1 \in Int /\ n \in Int
    BY <1>3
  <2> QED
    BY <2>1, <2>2, SubSeqProperties
<1>5. q[Len(q)] \in S
  BY <1>1, SeqFact
<1> QED
  BY <1>1, <1>3, <1>4, <1>5 DEF Front, Last

LEMMA RemoveFact ==
    ASSUME NEW S, NEW q \in Seq(S), NEW i \in 1..Len(q)
    PROVE  /\ RemoveAt(q, i) \in Seq(S)
           /\ \A j \in 1..Len(RemoveAt(q, i)) : \E k \in 1..Len(q) : RemoveAt(q, i)[j] = q[k]
<1>1. Len(q) \in Nat /\ \A k \in 1..Len(q) : q[k] \in S
  BY SeqFact
<1> DEFINE T == {q[k] : k \in 1..Len(q)}
<1>2. i \in Int /\ i - 1 \in Int /\ i + 1 \in Int /\ Len(q) \in Int /\ 1 \in Int
  BY <1>1
<1>3. /\ \A k \in 1..(i - 1) : q[k] \in T
      /\ \A k \in (i + 1)..Len(q) : q[k] \in T
  BY <1>1
<1>4. SubSeq(q, 1, i - 1) \in Seq(T) /\ SubSeq(q, i + 1, Len(q)) \in Seq(T)
  <2> HIDE DEF T
  <2> QED
    BY <1>2, <1>3, SubSeqProperties
<1>5. RemoveAt(q, i) \in Seq(T)
  BY <1>4, ConcatProperties DEF RemoveAt
<1>6. \A j \in 1..Len(RemoveAt(q, i)) : RemoveAt(q, i)[j] \in T
  BY <1>5, ElementOfSeq
<1>7. /\ \A k \in 1..(i - 1) : q[k] \in S
      /\ \A k \in (i + 1)..Len(q) : q[k] \in S
  BY <1>1
<1>8. SubSeq(q, 1, i - 1) \in Seq(S) /\ SubSeq(q, i + 1, Len(q)) \in Seq(S)
  BY <1>2, <1>7, SubSeqProperties
<1>9. RemoveAt(q, i) \in Seq(S)
  BY <1>8, ConcatProperties DEF RemoveAt
<1> QED
  BY <1>6, <1>9

\* A sequence made entry by entry.
LEMMA MadeFact ==
    ASSUME NEW S, NEW n \in Nat, NEW f, f = [i \in 1..n |-> f[i]], \A i \in 1..n : f[i] \in S
    PROVE  f \in Seq(S) /\ Len(f) = n
<1>1. f \in [1..n -> S]
  OBVIOUS
<1> QED
  BY <1>1

LEMMA ConstantFact ==
    /\ Unowned \in Ancestry /\ NoEnvelope \in EnvelopeRecord /\ Foreign \in EnvelopeRecord
    /\ NoSprite \in Sprite /\ NoImport \in ImportRecord /\ NoExport \in ExportRecord
    /\ NoEnvelope.kind = "none" /\ Foreign.kind = "foreign" /\ NoEnvelope # Foreign
    /\ NoSprite.life = 0 /\ NoSprite.stage = "none" /\ NoSprite.effects = <<>> /\ ~NoSprite.uuid
    /\ NoSprite.raw = NoEnvelope /\ ~NoSprite.error
    /\ Len(NoSprite.effects) = 0
<1>1. <<>> \in Seq(SavedRecord) /\ <<>> \in Seq(EffectRecord) /\ <<>> \in Seq(Levels)
  OBVIOUS
<1>2. NoEnvelope \in EnvelopeRecord /\ Foreign \in EnvelopeRecord
  BY DEF EnvelopeRecord
<1>3. Unowned \in Ancestry
  BY DEF Unowned, Ancestry
<1>4. NoSprite \in Sprite
  BY <1>1, <1>2 DEF NoSprite, Sprite
<1>5. NoImport \in ImportRecord /\ NoExport \in ExportRecord
  BY <1>1, <1>2 DEF NoImport, NoExport, ImportRecord, ExportRecord
<1> QED
  BY <1>2, <1>3, <1>4, <1>5 DEF NoEnvelope, Foreign, NoSprite

LEMMA SpriteFact ==
    ASSUME NEW p \in Sprite
    PROVE  /\ p.life \in Nat /\ p.effects \in Seq(EffectRecord) /\ p.raw \in EnvelopeRecord
           /\ p.uuid \in BOOLEAN /\ p.error \in BOOLEAN /\ p.finished \in BOOLEAN
           /\ Len(p.effects) \in Nat /\ DOMAIN p.effects = 1..Len(p.effects)
           /\ \A i \in 1..Len(p.effects) : p.effects[i] \in EffectRecord
BY SeqFact DEF Sprite

LEMMA EnvelopeFact ==
    ASSUME NEW env \in EnvelopeRecord
    PROVE  /\ env.time \in Nat /\ env.rows \in Seq(SavedRecord)
           /\ Len(env.rows) \in Nat /\ DOMAIN env.rows = 1..Len(env.rows)
           /\ \A i \in 1..Len(env.rows) : env.rows[i] \in SavedRecord
           /\ env \in {NoEnvelope, Foreign} \/ env.kind = "ours"
<1>1. <<>> \in Seq(SavedRecord)
  OBVIOUS
<1>2. env.time \in Nat /\ env.rows \in Seq(SavedRecord)
  <2>1. CASE env \in {NoEnvelope, Foreign}
    <3>1. env.time = 0 /\ env.rows = <<>>
      BY <2>1 DEF NoEnvelope, Foreign
    <3> QED
      BY <1>1, <3>1
  <2>2. CASE env \in [kind : {"ours"}, rows : Seq(SavedRecord), time : Nat]
    BY <2>2
  <2> QED
    BY <2>1, <2>2 DEF EnvelopeRecord
<1>3. env \in {NoEnvelope, Foreign} \/ env.kind = "ours"
  BY DEF EnvelopeRecord
<1> QED
  BY <1>2, <1>3, SeqFact

LEMMA RecordFact ==
    ASSUME NEW r \in CharacterRecord
    PROVE  /\ r.time \in Nat /\ r.rows \in Seq(Row) /\ r.envelope \in EnvelopeRecord
           /\ Len(r.rows) \in Nat /\ DOMAIN r.rows = 1..Len(r.rows)
           /\ \A i \in 1..Len(r.rows) : r.rows[i] \in Row
BY SeqFact DEF CharacterRecord

LEMMA EffectFact ==
    ASSUME NEW u \in Nat, NEW v \in Levels, NEW x \in Ancestry, NEW w \in BOOLEAN
    PROVE  /\ Effect(u, v, x, w) \in EffectRecord
           /\ Effect(u, v, x, w).use = u /\ Effect(u, v, x, w).level = v
           /\ Effect(u, v, x, w).ctx = x /\ Effect(u, v, x, w).whole = w
BY DEF Effect, EffectRecord

\* One sprite is another.
LEMMA OneSprite ==
    ASSUME Typed, NEW c \in Chars, NEW p \in Sprite, sprite' = [sprite EXCEPT ![c] = p]
    PROVE  sprite' \in [Chars -> Sprite] /\ sprite'[c] = p /\ \A d \in Chars \ {c} : sprite'[d] = sprite[d]
BY DEF Typed
-----------------------------------------------------------------------------
(* What is said of one sprite or record stays so as the rest goes on.       *)

Grows(us, vs) == Len(us) <= Len(vs) /\ \A n \in 1..Len(us) : vs[n] = us[n]

\* No sprite takes the life of another, and none gets its UUID.
Steady(s, t, n) ==
    /\ \A d \in Chars : t[d].life \in {0, s[d].life} \/ t[d].life > n
    /\ \A d \in Chars : t[d].uuid => s[d].uuid /\ t[d].life = s[d].life

LEMMA TellsGrow ==
    ASSUME NEW env \in EnvelopeRecord, NEW t \in Nat, NEW m \in Nat, NEW list, NEW us \in Seq(Chars),
           NEW vs \in Seq(Chars), Grows(us, vs), t <= m, Tells(env, t, list, us)
    PROVE  Tells(env, m, list, vs)
<1>1. Len(us) \in Nat /\ Len(vs) \in Nat /\ env.time \in Nat
  BY SeqFact, EnvelopeFact
<1>2. CASE t < m
  BY <1>1, <1>2 DEF Tells
<1>3. CASE t = m
  BY <1>1, <1>3 DEF Tells, Grows
<1> QED
  BY <1>2, <1>3

LEMMA TellsAlike ==
    ASSUME NEW env, NEW t, NEW list, NEW new, NEW us, Tells(env, t, list, us),
           \A i \in 1..Len(new) : i \in 1..Len(list) /\ new[i].use = list[i].use
    PROVE  Tells(env, t, new, us)
BY DEF Tells

LEMMA TellsLater ==
    ASSUME NEW env \in EnvelopeRecord, NEW t \in Nat, NEW m \in Nat, NEW list, NEW new, NEW us, NEW vs,
           t < m, Tells(env, t, list, us)
    PROVE  Tells(env, m, new, vs)
BY EnvelopeFact DEF Tells

LEMMA NoEnvelopeTells == ASSUME NEW t, NEW list, NEW us PROVE Tells(NoEnvelope, t, list, us)
BY DEF NoEnvelope, Tells

LEMMA RecordGrow ==
    ASSUME NEW r \in CharacterRecord, NEW us \in Seq(Chars), NEW vs \in Seq(Chars), Grows(us, vs),
           NEW now \in Nat, NEW then \in Nat, now <= then, RecordOk(r, us, now)
    PROVE  RecordOk(r, vs, then)
<1>1. Len(us) \in Nat /\ Len(vs) \in Nat
  BY SeqFact
<1>2. r.time \in Nat /\ r.envelope \in EnvelopeRecord /\ r.time <= r.time
  BY RecordFact
<1>3. Tells(r.envelope, r.time, r.rows, vs)
  BY <1>2, TellsGrow DEF RecordOk
<1>4. \A i \in 1..Len(r.rows) : r.rows[i].use <= Len(vs)
  BY <1>1, RecordFact DEF RecordOk, Grows, Row
<1>5. r.time <= then
  BY <1>2 DEF RecordOk
<1> QED
  BY <1>3, <1>4, <1>5 DEF RecordOk

LEMMA LiveGrow ==
    ASSUME NEW p \in Sprite, NEW us \in Seq(Chars), NEW vs \in Seq(Chars), Grows(us, vs),
           NEW now \in Nat, NEW then \in Nat, now <= then,
           NEW off \in BOOLEAN, NEW out \in BOOLEAN, off => out, LiveOk(p, us, now, off)
    PROVE  LiveOk(p, vs, then, out)
<1>1. Len(us) \in Nat /\ Len(vs) \in Nat
  BY SeqFact
<1>2. IsLive(p) => Tells(p.raw, then, p.effects, vs)
  BY SpriteFact, TellsGrow DEF LiveOk
<1>3. IsLive(p) => \A i \in 1..Len(p.effects) : p.effects[i].use <= Len(vs)
  BY <1>1, SpriteFact DEF LiveOk, Grows, EffectRecord
<1> QED
  BY <1>2, <1>3 DEF LiveOk

LEMMA LoadGrow ==
    ASSUME NEW p, NEW r, NEW im, NEW off \in BOOLEAN, NEW out \in BOOLEAN, off => out, LoadOk(p, r, im, off)
    PROVE  LoadOk(p, r, im, out)
BY DEF LoadOk

LEMMA EffectGrows ==
    ASSUME NEW e \in EffectRecord, NEW us \in Seq(Chars), NEW vs \in Seq(Chars), Grows(us, vs),
           NEW s \in [Chars -> Sprite], NEW t \in [Chars -> Sprite], NEW n \in Nat, NEW m \in Nat,
           n <= m, Steady(s, t, n)
    PROVE  /\ Belongs(e, us, s, n) => Belongs(e, vs, t, m)
           /\ e.use <= Len(us) /\ Kept(e, us, s) => Kept(e, vs, t)
<1>1. Len(us) \in Nat /\ Len(vs) \in Nat /\ \A k \in 1..Len(us) : us[k] \in Chars
  BY SeqFact
<1>2. e.use \in Nat /\ e.ctx.reader \in Nat
  BY DEF EffectRecord, Ancestry
<1>3. \A d \in Chars : s[d].life \in Nat /\ t[d].life \in Nat
  BY SpriteFact
<1>4. ASSUME Belongs(e, us, s, n), e.ctx # Unowned PROVE Belongs(e, vs, t, m)
  <2>1. /\ e.use \in 1..Len(us) /\ e.ctx.use = e.use /\ e.ctx.uuid = us[e.use] /\ e.ctx.reader <= n
        /\ \A d \in Chars : e.ctx.reader # 0 /\ s[d].life = e.ctx.reader => d = us[e.use]
    BY <1>4 DEF Belongs
  <2>2. e.use \in 1..Len(vs) /\ vs[e.use] = us[e.use] /\ e.ctx.reader <= m
    BY <1>1, <1>2, <2>1 DEF Grows
  <2>3. ASSUME NEW d \in Chars, e.ctx.reader # 0, t[d].life = e.ctx.reader PROVE d = us[e.use]
    BY <1>2, <1>3, <2>1, <2>3 DEF Steady
  <2> QED
    BY <2>1, <2>2, <2>3 DEF Belongs
<1>5. ASSUME e.use <= Len(us), Kept(e, us, s), e.whole, e.use # 0 PROVE Kept(e, vs, t)
  <2>1. e.use \in 1..Len(us) /\ vs[e.use] = us[e.use] /\ us[e.use] \in Chars
    BY <1>1, <1>2, <1>5 DEF Grows
  <2> QED
    BY <1>5, <2>1 DEF Kept, Steady
<1> QED
  BY <1>4, <1>5 DEF Belongs, Kept

LEMMA GoodGrows ==
    ASSUME NEW p \in Sprite, NEW us \in Seq(Chars), NEW vs \in Seq(Chars), Grows(us, vs),
           NEW s \in [Chars -> Sprite], NEW t \in [Chars -> Sprite], NEW n \in Nat, NEW m \in Nat,
           n <= m, Steady(s, t, n), Good(p, us, s, n),
           IsLive(p) => \A i \in 1..Len(p.effects) : p.effects[i].use <= Len(us)
    PROVE  Good(p, vs, t, m)
BY SpriteFact, EffectGrows DEF Good

\* The effects of a sprite whose load is over are those its envelope is about.
LEMMA LoadTells ==
    ASSUME NEW p \in Sprite, NEW r \in CharacterRecord, NEW im, NEW us \in Seq(Chars), NEW now \in Nat,
           NEW off, p.stage = "decoded", LoadOk(p, r, im, off), RecordOk(r, us, now)
    PROVE  /\ \A i \in 1..Len(p.effects) : p.effects[i].use <= Len(us)
           /\ Tells(p.raw, now, p.effects, us)
<1>1. /\ Len(p.effects) = Len(r.rows) /\ p.raw = r.envelope
      /\ \A i \in 1..Len(p.effects) : p.effects[i].use = r.rows[i].use
  <2>1. /\ Len(p.effects) = Len(r.rows) /\ p.raw = r.envelope
        /\ \A i \in 1..Len(p.effects) :
              p.effects[i] = Effect(r.rows[i].use, r.rows[i].level, Unowned, r.rows[i].whole)
    BY DEF LoadOk
  <2>2. ASSUME NEW i \in 1..Len(p.effects) PROVE p.effects[i].use = r.rows[i].use
    <3>1. p.effects[i] = Effect(r.rows[i].use, r.rows[i].level, Unowned, r.rows[i].whole)
      BY <2>1
    <3> QED
      BY <3>1 DEF Effect
  <2> QED
    BY <2>1, <2>2
<1>2. \A i \in 1..Len(p.effects) : p.effects[i].use <= Len(us)
  BY <1>1 DEF RecordOk
<1>3. r.time \in Nat /\ r.time <= now /\ r.envelope \in EnvelopeRecord /\ Grows(us, us)
  BY RecordFact, SeqFact DEF RecordOk, Grows
<1>4. Tells(r.envelope, r.time, r.rows, us)
  BY DEF RecordOk
<1>5. Tells(r.envelope, now, r.rows, us)
  BY <1>3, <1>4, TellsGrow
<1>6. Tells(r.envelope, now, p.effects, us)
  BY <1>1, <1>5, TellsAlike
<1> QED
  BY <1>1, <1>2, <1>6

LEMMA Same == ASSUME Typed PROVE Grows(uses, uses) /\ Steady(sprite, sprite, lives)
BY SeqFact DEF Typed, Grows, Steady
-----------------------------------------------------------------------------
(* A step of one sprite, its record and its import.                         *)

LEMMA OtherSound ==
    ASSUME IInv, Typed', Grows(uses, uses'), Steady(sprite, sprite', lives), lives <= lives',
           changes <= changes', disabled => disabled', strangers' = strangers,
           NEW d \in Chars, sprite'[d] = sprite[d], record'[d] = record[d], import'[d] = import[d],
           export' \in {export, NoExport} \/ export'.of # d
    PROVE  Sound(d)'
<1>1. /\ uses \in Seq(Chars) /\ uses' \in Seq(Chars) /\ lives \in Nat /\ lives' \in Nat
      /\ changes \in Nat /\ changes' \in Nat /\ disabled \in BOOLEAN /\ disabled' \in BOOLEAN
      /\ sprite \in [Chars -> Sprite] /\ sprite' \in [Chars -> Sprite]
      /\ sprite[d] \in Sprite /\ record[d] \in CharacterRecord
  BY DEF IInv, Typed
<1>2. Sound(d)
  BY DEF IInv, EachSound
<1>3. RecordOk(record[d], uses', changes')
  BY <1>1, <1>2, RecordGrow DEF Sound
<1>4. LiveOk(sprite[d], uses', changes', disabled')
  BY <1>1, <1>2, LiveGrow DEF Sound
<1>5. LoadOk(sprite[d], record[d], import[d], disabled')
  BY <1>1, <1>2, LoadGrow DEF Sound
<1>6. ~disabled' => Good(sprite[d], uses', sprite', lives')
  <2> SUFFICES ASSUME ~disabled' PROVE Good(sprite[d], uses', sprite', lives')
    OBVIOUS
  <2>1. Good(sprite[d], uses, sprite, lives)
    BY <1>2 DEF Sound
  <2>2. IsLive(sprite[d]) => \A i \in 1..Len(sprite[d].effects) : sprite[d].effects[i].use <= Len(uses)
    BY <1>2 DEF Sound, LiveOk
  <2> QED
    BY <1>1, <2>1, <2>2, GoodGrows
<1>7. d \in strangers => StrangerOk(d, sprite[d], record[d], export')
  BY <1>2 DEF Sound, StrangerOk
<1>8. sprite[d].error => disabled'
  BY <1>2 DEF Sound
<1> QED
  BY <1>3, <1>4, <1>5, <1>6, <1>7, <1>8 DEF Sound

LEMMA StepKeeps ==
    ASSUME IInv, Typed', Grows(uses, uses'), Steady(sprite, sprite', lives), lives <= lives',
           changes <= changes', disabled => disabled', strangers' = strangers,
           NEW c \in Chars,
           \A d \in Chars \ {c} :
               sprite'[d] = sprite[d] /\ record'[d] = record[d] /\ import'[d] = import[d],
           export' \in {export, NoExport} \/ export'.of = c,
           Sound(c)', Distinct', ScopesOk', ExportOk'
    PROVE  IInv'
<1>1. ASSUME NEW d \in Chars \ {c} PROVE Sound(d)'
  <2>1. sprite'[d] = sprite[d] /\ record'[d] = record[d] /\ import'[d] = import[d]
    OBVIOUS
  <2>2. export' \in {export, NoExport} \/ export'.of # d
    OBVIOUS
  <2> QED
    BY <2>1, <2>2, OtherSound
<1>2. EachSound'
  BY <1>1 DEF EachSound
<1> QED
  BY <1>2 DEF IInv

LEMMA SpriteStep ==
    ASSUME IInv, NEW c \in Chars, NEW p \in Sprite, sprite' = [sprite EXCEPT ![c] = p],
           p.life = sprite[c].life, p.uuid = sprite[c].uuid,
           p.stage # "none", sprite[c].stage # "none", ScopesOk',
           scopes' \in Seq(Chars), import' \in [Chars -> ImportRecord], export' \in ExportRecord,
           uses' \in Seq(Chars), Grows(uses, uses'), changes' \in Nat, changes <= changes',
           disabled' \in BOOLEAN, disabled => disabled',
           UNCHANGED <<record, lives, strangers>>,
           \A d \in Chars \ {c} : import'[d] = import[d],
           export' \in {export, NoExport} \/ export'.of = c, ExportOk',
           ~disabled' => Good(p, uses', sprite', lives),
           LoadOk(p, record[c], import'[c], disabled'),
           LiveOk(p, uses', changes', disabled'),
           p.error => disabled',
           c \in strangers => StrangerOk(c, p, record[c], export')
    PROVE  IInv'
<1>1. Typed /\ Distinct /\ EachSound
  BY DEF IInv
<1>2. sprite' \in [Chars -> Sprite] /\ sprite'[c] = p /\ \A d \in Chars \ {c} : sprite'[d] = sprite[d]
  BY <1>1, OneSprite
<1>3. Typed'
  BY <1>1, <1>2 DEF Typed
<1>4. Steady(sprite, sprite', lives)
  BY <1>2 DEF Steady
<1>5. Distinct'
  BY <1>1, <1>2 DEF Distinct, LivesOk
<1>6. /\ uses \in Seq(Chars) /\ changes \in Nat /\ record[c] \in CharacterRecord
      /\ RecordOk(record[c], uses, changes) /\ lives \in Nat /\ lives <= lives
  BY <1>1 DEF Typed, EachSound, Sound
<1>7. RecordOk(record[c], uses', changes')
  BY <1>6, RecordGrow
<1>8. Sound(c)'
  BY <1>2, <1>7 DEF Sound
<1>9. lives <= lives'
  BY <1>6
<1> QED
  BY <1>2, <1>3, <1>4, <1>5, <1>8, <1>9, StepKeeps

LEMMA ScopesSame ==
    ASSUME IInv, NEW c \in Chars, NEW p \in Sprite, sprite' = [sprite EXCEPT ![c] = p],
           scopes' = scopes, sprite[c].stage = "decoding" => p.stage = "decoding"
    PROVE  ScopesOk' /\ scopes' \in Seq(Chars)
<1>1. Typed /\ ScopesOk
  BY DEF IInv
<1>2. \A i \in 1..Len(scopes) : scopes[i] \in Chars
  BY <1>1, SeqFact DEF Typed
<1> QED
  BY <1>1, <1>2, OneSprite DEF ScopesOk, Typed

LEMMA NoScopes == ASSUME scopes' = <<>> PROVE ScopesOk' /\ scopes' \in Seq(Chars)
BY DEF ScopesOk

LEMMA GoodSame ==
    ASSUME NEW p, NEW q, NEW us, NEW s, NEW n, Good(q, us, s, n), p.effects = q.effects,
           IsLive(p) => IsLive(q)
    PROVE  Good(p, us, s, n)
BY DEF Good
-----------------------------------------------------------------------------
(* The game makes, changes and ends effects.                                *)

\* An effect may stand where it is, once these scrolls are read.
Fits(e, us, off) ==
    e.use <= Len(us) /\ (~off => Belongs(e, us, sprite, lives) /\ Kept(e, us, sprite))

LEMMA OldFits ==
    ASSUME IInv, NEW c \in Chars, Live(c), NEW us \in Seq(Chars), Grows(uses, us),
           NEW off \in BOOLEAN, disabled => off,
           NEW i \in 1..Len(sprite[c].effects)
    PROVE  sprite[c].effects[i] \in EffectRecord /\ Fits(sprite[c].effects[i], us, off)
<1>1. /\ sprite \in [Chars -> Sprite] /\ sprite[c] \in Sprite /\ uses \in Seq(Chars) /\ lives \in Nat
      /\ Sound(c) /\ IsLive(sprite[c]) /\ lives <= lives
  BY DEF IInv, Typed, EachSound, Live, IsLive
<1> DEFINE e == sprite[c].effects[i]
<1>2. e \in EffectRecord /\ e.use \in Nat /\ Len(uses) \in Nat /\ Len(us) \in Nat
  BY <1>1, SpriteFact, SeqFact DEF EffectRecord
<1>3. e.use <= Len(uses)
  BY <1>1 DEF Sound, LiveOk
<1>4. ~off => Belongs(e, uses, sprite, lives) /\ Kept(e, uses, sprite)
  BY <1>1 DEF Sound, Good
<1>5. Steady(sprite, sprite, lives)
  BY Same DEF IInv
<1>6. e.use <= Len(us)
  BY <1>2, <1>3 DEF Grows
<1>7. ~off => Belongs(e, us, sprite, lives) /\ Kept(e, us, sprite)
  <2> HIDE DEF e
  <2> QED
    BY <1>1, <1>2, <1>3, <1>4, <1>5, EffectGrows
<1> QED
  BY <1>2, <1>6, <1>7 DEF Fits

LEMMA ChangesKeep ==
    ASSUME IInv, NEW c \in Chars, NEW list \in Seq(EffectRecord), Changes(c, list),
           uses' \in Seq(Chars), Grows(uses, uses'), disabled' \in BOOLEAN, disabled => disabled',
           \A i \in 1..Len(list) : Fits(list[i], uses', disabled')
    PROVE  IInv'
<1>1. /\ Typed /\ sprite[c] \in Sprite /\ Sound(c) /\ changes \in Nat /\ lives \in Nat
      /\ sprite \in [Chars -> Sprite]
  BY DEF IInv, Typed, EachSound
<1>2. /\ export = NoExport /\ scopes = <<>> /\ IsLive(sprite[c]) /\ changes' = changes + 1
      /\ sprite' = [sprite EXCEPT ![c].effects = list]
      /\ UNCHANGED <<record, scopes, import, export, lives, strangers, restarts>>
  BY DEF Changes, Calm, Live, IsLive
<1> DEFINE p == [sprite[c] EXCEPT !.effects = list]
<1>3. /\ p \in Sprite /\ p.effects = list /\ p.life = sprite[c].life /\ p.uuid = sprite[c].uuid
      /\ p.stage = sprite[c].stage /\ p.raw = sprite[c].raw /\ p.error = sprite[c].error
      /\ p.finished = sprite[c].finished
  BY <1>1 DEF Sprite
<1>4. sprite' = [sprite EXCEPT ![c] = p]
  BY <1>1, <1>2
<1> HIDE DEF p
<1>5. p.stage # "none" /\ sprite[c].stage # "none" /\ p.stage \notin {"decoding", "decoded"} /\ IsLive(p)
  BY <1>2, <1>3 DEF IsLive
<1>6. ScopesOk' /\ scopes' \in Seq(Chars) /\ ExportOk'
  BY <1>2, NoScopes DEF ExportOk
<1>7. changes' \in Nat /\ changes <= changes' /\ changes < changes'
  BY <1>1, <1>2
<1>8. \A d \in Chars : sprite'[d].life = sprite[d].life /\ sprite'[d].uuid = sprite[d].uuid
  BY <1>1, <1>3, <1>4, OneSprite
<1>9. ~disabled' => Good(p, uses', sprite', lives')
  <2> SUFFICES ASSUME ~disabled', NEW i \in 1..Len(list)
               PROVE  Belongs(list[i], uses', sprite', lives') /\ Kept(list[i], uses', sprite')
    BY <1>3 DEF Good
  <2>1. list[i] \in EffectRecord /\ list[i].use <= Len(uses')
    BY SeqFact DEF Fits
  <2>2. Belongs(list[i], uses', sprite, lives) /\ Kept(list[i], uses', sprite)
    BY DEF Fits
  <2>3. Steady(sprite, sprite', lives) /\ Grows(uses', uses') /\ lives <= lives
    BY <1>1, <1>8, SeqFact DEF Steady, Grows
  <2>4. sprite' \in [Chars -> Sprite]
    BY <1>1, <1>3, <1>4, OneSprite
  <2>5. lives' = lives
    BY <1>2
  <2> QED
    BY <1>1, <2>1, <2>2, <2>3, <2>4, <2>5, EffectGrows
<1>10. LoadOk(p, record[c], import'[c], disabled')
  BY <1>5 DEF LoadOk
<1>11. LiveOk(p, uses', changes', disabled')
  <2>1. Tells(p.raw, changes', p.effects, uses')
    <3>1. Tells(sprite[c].raw, changes, sprite[c].effects, uses) /\ sprite[c].raw \in EnvelopeRecord
      BY <1>1, <1>2, SpriteFact DEF Sound, LiveOk
    <3> QED
      BY <1>1, <1>3, <1>7, <3>1, TellsLater
  <2>2. \A i \in 1..Len(p.effects) : p.effects[i].use <= Len(uses')
    BY <1>3 DEF Fits
  <2>3. /\ ~disabled' => p.uuid /\ p.finished
        /\ ~disabled' /\ p.stage = "live" => p.raw = NoEnvelope
    BY <1>1, <1>2, <1>3 DEF Sound, LiveOk
  <2> QED
    BY <2>1, <2>2, <2>3 DEF LiveOk
<1>12. /\ p.error => disabled'
       /\ c \in strangers => StrangerOk(c, p, record[c], export')
  BY <1>1, <1>2, <1>3 DEF Sound, StrangerOk
<1>13. import' \in [Chars -> ImportRecord] /\ export' \in ExportRecord /\ export' \in {export, NoExport}
  BY <1>1, <1>2 DEF Typed
<1> QED
  BY <1>2, <1>3, <1>4, <1>5, <1>6, <1>7, <1>9, <1>10, <1>11, <1>12, <1>13, SpriteStep

LEMMA AddsKeep ==
    ASSUME IInv, NEW c \in Chars, NEW e \in EffectRecord, Adds(c, e),
           uses' \in Seq(Chars), Grows(uses, uses'), disabled' \in BOOLEAN, disabled => disabled',
           Fits(e, uses', disabled')
    PROVE  IInv'
<1> DEFINE old == sprite[c].effects
           list == Append(old, e)
<1>1. Changes(c, list) /\ Live(c)
  BY DEF Adds, Changes
<1>2. old \in Seq(EffectRecord)
  BY SpriteFact DEF IInv, Typed
<1>3. \A i \in 1..Len(old) : Fits(old[i], uses', disabled')
  BY <1>1, OldFits
<1> HIDE DEF old
<1>4. list \in Seq(EffectRecord) /\ \A i \in 1..Len(list) : Fits(list[i], uses', disabled')
  BY <1>2, <1>3, AddFact
<1> QED
  BY <1>1, <1>4, ChangesKeep

LEMMA RewrittenKeeps ==
    ASSUME IInv, NEW c \in Chars, NEW i \in 1..MaxEffects, NEW level \in Levels, Rewritten(c, i, level)
    PROVE  IInv'
<1> DEFINE old == sprite[c].effects
           new == [old EXCEPT ![i].level = level]
<1>1. Changes(c, new) /\ Live(c) /\ UNCHANGED <<disabled, uses>> /\ i \in DOMAIN old
  BY DEF Rewritten, Changes, NoFail
<1>2. old \in Seq(EffectRecord) /\ uses' \in Seq(Chars) /\ Grows(uses, uses') /\ disabled' \in BOOLEAN
  BY <1>1, SpriteFact, Same DEF IInv, Typed
<1>3. \A k \in 1..Len(old) : old[k] \in EffectRecord /\ Fits(old[k], uses', disabled')
  BY <1>1, <1>2, OldFits
<1> HIDE DEF old
<1>4. Len(old) \in Nat /\ DOMAIN old = 1..Len(old) /\ i \in 1..Len(old)
  BY <1>1, <1>2, SeqFact
<1>5. \A k \in 1..Len(old) : /\ [old[k] EXCEPT !.level = level] \in EffectRecord
                             /\ Fits([old[k] EXCEPT !.level = level], uses', disabled')
  BY <1>3 DEF EffectRecord, Fits, Belongs, Kept
<1>6. /\ new = [old EXCEPT ![i] = [old[i] EXCEPT !.level = level]]
      /\ \A k \in 1..Len(old) : new[k] = IF k = i THEN [old[i] EXCEPT !.level = level] ELSE old[k]
  BY <1>2, <1>4
<1>7. new \in Seq(EffectRecord) /\ Len(new) = Len(old)
  BY <1>2, <1>4, <1>5, <1>6
<1>8. \A k \in 1..Len(new) : Fits(new[k], uses', disabled')
  BY <1>3, <1>5, <1>6, <1>7
<1> QED
  BY <1>1, <1>2, <1>7, <1>8, ChangesKeep

LEMMA EndsKeep == ASSUME IInv, NEW c \in Chars, NEW i \in 1..MaxEffects, Ends(c, i) PROVE IInv'
<1> DEFINE old == sprite[c].effects
           new == RemoveAt(old, i)
<1>1. Changes(c, new) /\ Live(c) /\ UNCHANGED <<disabled, uses>> /\ i \in DOMAIN old
  BY DEF Ends, Changes, NoFail
<1>2. old \in Seq(EffectRecord) /\ uses' \in Seq(Chars) /\ Grows(uses, uses') /\ disabled' \in BOOLEAN
  BY <1>1, SpriteFact, Same DEF IInv, Typed
<1>3. \A k \in 1..Len(old) : Fits(old[k], uses', disabled')
  BY <1>1, <1>2, OldFits
<1> HIDE DEF old
<1>4. i \in 1..Len(old)
  BY <1>1, <1>2, SeqFact
<1>5. new \in Seq(EffectRecord) /\ \A j \in 1..Len(new) : \E k \in 1..Len(old) : new[j] = old[k]
  BY <1>2, <1>4, RemoveFact
<1> HIDE DEF new
<1>6. \A k \in 1..Len(new) : Fits(new[k], uses', disabled')
  BY <1>3, <1>5
<1> QED
  BY <1>1, <1>2, <1>5, <1>6, ChangesKeep
LEMMA LevelsFact == Native \in Levels /\ Given \in Levels /\ 0 \in Nat /\ Levels \subseteq Nat
BY DEF Native, Given, Levels

\* What a live effect is to its copy.
LEMMA SourceFits ==
    ASSUME IInv, NEW c \in Chars, Live(c), NEW i \in DOMAIN sprite[c].effects,
           uses' = uses, disabled' \in BOOLEAN, disabled => disabled'
    PROVE  LET e == sprite[c].effects[i]
           IN  /\ e \in EffectRecord /\ Fits(e, uses', disabled')
               /\ uses' \in Seq(Chars) /\ Grows(uses, uses')
<1>1. i \in 1..Len(sprite[c].effects)
  BY SpriteFact DEF IInv, Typed
<1>2. uses' \in Seq(Chars) /\ Grows(uses, uses')
  BY Same DEF IInv, Typed
<1> QED
  BY <1>1, <1>2, OldFits

LEMMA PlainKeeps == ASSUME IInv, NEW c \in Chars, Plain(c) PROVE IInv'
<1>1. Adds(c, Effect(0, Native, Unowned, TRUE)) /\ UNCHANGED <<disabled, uses>>
  BY DEF Plain, NoFail
<1>2. uses' \in Seq(Chars) /\ Grows(uses, uses') /\ disabled' \in BOOLEAN
  BY <1>1, Same DEF IInv, Typed
<1>3. PICK e : e = Effect(0, Native, Unowned, TRUE)
  OBVIOUS
<1>4. e \in EffectRecord /\ e.use = 0 /\ e.ctx = Unowned
  <2>1. 0 \in Nat /\ Native \in Levels /\ Unowned \in Ancestry /\ TRUE \in BOOLEAN
    BY LevelsFact, ConstantFact
  <2> QED
    BY <1>3, <2>1, EffectFact
<1>5. Fits(e, uses', disabled')
  BY <1>2, <1>4, SeqFact DEF Fits, Belongs, Kept
<1> QED
  BY <1>1, <1>2, <1>3, <1>4, <1>5, AddsKeep

\* A copy with no ancestry is one of no scroll, or was seen with overrides off.
LEMMA BareFits ==
    ASSUME NEW e \in EffectRecord, NEW us \in Seq(Chars), NEW off \in BOOLEAN, Fits(e, us, off),
           NEW v \in Levels, NEW w \in BOOLEAN, ~off /\ w => e.whole /\ e.ctx = Unowned
    PROVE  Effect(e.use, v, Unowned, w) \in EffectRecord /\ Fits(Effect(e.use, v, Unowned, w), us, off)
<1>1. PICK x : x = Effect(e.use, v, Unowned, w)
  OBVIOUS
<1>2. e.use \in Nat /\ Unowned.use = 0
  BY DEF EffectRecord, Unowned
<1>3. x \in EffectRecord /\ x.use = e.use /\ x.ctx = Unowned /\ x.whole = w
  BY <1>1, <1>2, EffectFact, ConstantFact
<1>4. Belongs(x, us, sprite, lives)
  BY <1>3 DEF Belongs
<1>5. ~off => Kept(x, us, sprite)
  BY <1>2, <1>3 DEF Kept, Fits
<1> QED
  BY <1>1, <1>3, <1>4, <1>5 DEF Fits

LEMMA CastKeeps ==
    ASSUME IInv, NEW source \in Chars, NEW c \in Chars, NEW i \in 1..MaxEffects, Cast(source, i, c)
    PROVE  IInv'
<1> DEFINE e == sprite[source].effects[i]
           ctx == Context(e)
<1>1. Live(source) /\ i \in DOMAIN sprite[source].effects /\ uses' = uses /\ disabled \in BOOLEAN
  BY DEF Cast, IInv, Typed
<1>2. CASE ctx = Unowned
  <2>1. disabled' = disabled /\ Adds(c, Effect(e.use, Native, Unowned, e.whole /\ ~disabled))
    BY <1>2 DEF Cast, NoFail
  <2>2. e \in EffectRecord /\ Fits(e, uses', disabled') /\ uses' \in Seq(Chars) /\ Grows(uses, uses')
    BY <1>1, <2>1, SourceFits
  <2>3. (e.whole /\ ~disabled) \in BOOLEAN /\ (~disabled' /\ e.whole /\ ~disabled => e.ctx = Unowned)
    BY <1>2, <2>1 DEF Context
  <2> HIDE DEF e
  <2>4. PICK w \in BOOLEAN : w = (e.whole /\ ~disabled)
    BY <2>3
  <2>5. ~disabled' /\ w => e.whole /\ e.ctx = Unowned
    BY <2>3, <2>4
  <2>6. Effect(e.use, Native, Unowned, w) \in EffectRecord /\ Fits(Effect(e.use, Native, Unowned, w), uses', disabled')
    BY <1>1, <2>1, <2>2, <2>5, LevelsFact, BareFits
  <2>7. Adds(c, Effect(e.use, Native, Unowned, w))
    BY <2>1, <2>4
  <2> QED
    BY <1>1, <2>1, <2>2, <2>6, <2>7, AddsKeep
<1>3. CASE ctx # Unowned /\ LiveLife(ctx.reader)
  <2>1. disabled' = disabled /\ Adds(c, Effect(e.use, Given, [ctx EXCEPT !.level = Given], e.whole))
    BY <1>3 DEF Cast, NoFail
  <2>2. e \in EffectRecord /\ Fits(e, uses', disabled') /\ uses' \in Seq(Chars) /\ Grows(uses, uses')
    BY <1>1, <2>1, SourceFits
  <2>3. ctx = e.ctx /\ ~disabled' /\ e.ctx # Unowned
    BY <1>3, <2>1 DEF Context
  <2> HIDE DEF e
  <2>4. PICK y : y = [e.ctx EXCEPT !.level = Given]
    OBVIOUS
  <2>5. /\ y \in Ancestry /\ y.use = e.ctx.use /\ y.reader = e.ctx.reader /\ y.uuid = e.ctx.uuid
        /\ e.use \in Nat /\ e.whole \in BOOLEAN
    BY <2>2, <2>4, LevelsFact DEF EffectRecord, Ancestry
  <2>6. PICK x : x = Effect(e.use, Given, y, e.whole)
    OBVIOUS
  <2>7. x \in EffectRecord /\ x.use = e.use /\ x.ctx = y /\ x.whole = e.whole
    BY <2>5, <2>6, EffectFact, LevelsFact
  <2>8. Fits(x, uses', disabled')
    BY <2>2, <2>3, <2>5, <2>7 DEF Fits, Belongs, Kept
  <2>9. Adds(c, x)
    BY <2>1, <2>3, <2>4, <2>6
  <2> QED
    BY <1>1, <2>1, <2>2, <2>7, <2>8, <2>9, AddsKeep
<1>4. CASE ctx # Unowned /\ ~LiveLife(ctx.reader)
  <2>1. disabled' = TRUE /\ Adds(c, Effect(e.use, Native, Unowned, FALSE))
    BY <1>4 DEF Cast, Fail
  <2>2. e \in EffectRecord /\ Fits(e, uses', disabled') /\ uses' \in Seq(Chars) /\ Grows(uses, uses')
    BY <1>1, <2>1, SourceFits
  <2> HIDE DEF e
  <2>3. Effect(e.use, Native, Unowned, FALSE) \in EffectRecord /\ Fits(Effect(e.use, Native, Unowned, FALSE), uses', disabled')
    BY <2>1, <2>2, LevelsFact, BareFits
  <2> QED
    BY <2>1, <2>2, <2>3, AddsKeep
<1> QED
  BY <1>2, <1>3, <1>4

LEMMA LinkKeeps ==
    ASSUME IInv, NEW source \in Chars, NEW c \in Chars, NEW i \in 1..MaxEffects, Link(source, i, c)
    PROVE  IInv'
<1> DEFINE e == sprite[source].effects[i]
<1>1. /\ Live(source) /\ i \in DOMAIN sprite[source].effects /\ uses' = uses
      /\ disabled \in BOOLEAN /\ disabled' = disabled
      /\ Adds(c, Effect(e.use, e.level, Context(e), e.whole /\ ~disabled))
  BY DEF Link, NoFail, IInv, Typed
<1>2. e \in EffectRecord /\ Fits(e, uses', disabled') /\ uses' \in Seq(Chars) /\ Grows(uses, uses')
  BY <1>1, SourceFits
<1> HIDE DEF e
<1>3. e.use \in Nat /\ e.level \in Levels /\ e.ctx \in Ancestry /\ e.whole \in BOOLEAN
  BY <1>2 DEF EffectRecord
<1>4. CASE disabled
  <2>1. Adds(c, Effect(e.use, e.level, Unowned, FALSE))
    <3>1. Context(e) = Unowned /\ (e.whole /\ ~disabled) = FALSE
      BY <1>4 DEF Context
    <3> QED
      BY <1>1, <3>1
  <2>2. Effect(e.use, e.level, Unowned, FALSE) \in EffectRecord /\ Fits(Effect(e.use, e.level, Unowned, FALSE), uses', disabled')
    BY <1>1, <1>2, <1>3, BareFits
  <2> QED
    BY <1>1, <1>2, <2>1, <2>2, AddsKeep
<1>5. CASE ~disabled
  <2>1. Context(e) = e.ctx /\ (e.whole /\ ~disabled) = e.whole
    BY <1>3, <1>5 DEF Context
  <2>2. PICK x : x = Effect(e.use, e.level, e.ctx, e.whole)
    OBVIOUS
  <2>3. x \in EffectRecord /\ x.use = e.use /\ x.ctx = e.ctx /\ x.whole = e.whole
    BY <1>3, <2>2, EffectFact
  <2>4. Fits(x, uses', disabled')
    BY <1>2, <2>3 DEF Fits, Belongs, Kept
  <2>5. Adds(c, x)
    BY <1>1, <2>1, <2>2
  <2> QED
    BY <1>1, <1>2, <2>3, <2>4, <2>5, AddsKeep
<1> QED
  BY <1>4, <1>5

LEMMA ReadKeeps == ASSUME IInv, NEW reader \in Chars, NEW c \in Chars, Read(reader, c) PROVE IInv'
<1> DEFINE n == Len(uses) + 1
           own == [use |-> n, reader |-> sprite[reader].life,
                   uuid |-> IF sprite[reader].uuid THEN reader ELSE None, level |-> 0]
<1>1. /\ Live(reader) /\ uses' = Append(uses, reader) /\ disabled' = disabled /\ disabled \in BOOLEAN
      /\ uses \in Seq(Chars) /\ sprite[reader] \in Sprite /\ Sound(reader) /\ Distinct
      /\ lives \in Nat /\ sprite \in [Chars -> Sprite]
  BY DEF Read, NoFail, IInv, Typed, EachSound
<1>2. /\ uses' \in Seq(Chars) /\ Len(uses') = n /\ n \in Nat \ {0} /\ uses'[n] = reader
      /\ Grows(uses, uses') /\ n = Len(uses')
  BY <1>1, AddFact DEF Grows
<1>3. Adds(c, Effect(n, Native, Put(own), ~disabled))
  BY <1>2 DEF Read
<1>4. own \in Ancestry /\ own.use = n /\ own.reader = sprite[reader].life
  BY <1>1, <1>2, SpriteFact DEF Ancestry
<1>5. ~disabled => own.uuid = reader
  BY <1>1 DEF Sound, LiveOk, Live, IsLive
<1> HIDE DEF own
<1> DEFINE ctx == Put(own)
<1>6. ctx \in Ancestry /\ (disabled => ctx = Unowned) /\ (~disabled => ctx = own)
  BY <1>4, ConstantFact DEF Put
<1> HIDE DEF ctx, n
<1>7. PICK w \in BOOLEAN : w = ~disabled
  BY <1>1
<1>8. PICK x : x = Effect(n, Native, ctx, w)
  OBVIOUS
<1>9. x \in EffectRecord /\ x.use = n /\ x.ctx = ctx /\ x.whole = w
  <2>1. n \in Nat /\ Native \in Levels /\ ctx \in Ancestry /\ w \in BOOLEAN
    BY <1>2, <1>6, LevelsFact
  <2> QED
    BY <1>8, <2>1, EffectFact
<1>10. ~disabled' => Belongs(x, uses', sprite, lives) /\ Kept(x, uses', sprite)
  <2> SUFFICES ASSUME ~disabled' PROVE Belongs(x, uses', sprite, lives) /\ Kept(x, uses', sprite)
    OBVIOUS
  <2>1. /\ x.ctx.use = n /\ x.ctx.uuid = reader /\ x.ctx.reader = sprite[reader].life
        /\ n \in 1..Len(uses')
    BY <1>1, <1>2, <1>4, <1>5, <1>6, <1>9
  <2>2. sprite[reader].life <= lives
    BY <1>1 DEF Distinct, LivesOk
  <2>3. \A d \in Chars : sprite[reader].life # 0 /\ sprite[d].life = sprite[reader].life => d = reader
    BY <1>1 DEF Distinct, LivesOk
  <2> QED
    BY <1>2, <1>9, <2>1, <2>2, <2>3 DEF Belongs, Kept
<1>11. Fits(x, uses', disabled')
  BY <1>2, <1>9, <1>10 DEF Fits
<1>12. Adds(c, x)
  BY <1>3, <1>7, <1>8 DEF ctx
<1> QED
  BY <1>1, <1>2, <1>9, <1>11, <1>12, AddsKeep
LEMMA FaultKeeps == ASSUME IInv, Fault PROVE IInv'
<1>1. /\ Typed /\ Distinct /\ ScopesOk /\ ExportOk /\ disabled' = TRUE
      /\ UNCHANGED <<sprite, record, uses, scopes, import, export, changes, lives, strangers, restarts>>
  BY DEF Fault, Fail, IInv
<1>2. Typed'
  BY <1>1 DEF Typed
<1>3. Distinct' /\ ScopesOk' /\ ExportOk'
  BY <1>1 DEF Distinct, ScopesOk, ExportOk
<1>4. EachSound'
  <2> SUFFICES ASSUME NEW d \in Chars PROVE Sound(d)'
    BY DEF EachSound
  <2>1. Grows(uses, uses') /\ Steady(sprite, sprite', lives)
    BY <1>1, Same
  <2>2. lives <= lives' /\ changes <= changes'
    BY <1>1 DEF Typed
  <2>3. /\ disabled => disabled'
        /\ strangers' = strangers /\ sprite'[d] = sprite[d] /\ record'[d] = record[d]
        /\ import'[d] = import[d]
        /\ export' \in {export, NoExport}
    BY <1>1
  <2> QED
    BY <1>2, <2>1, <2>2, <2>3, OtherSound
<1> QED
  BY <1>2, <1>3, <1>4 DEF IInv
-----------------------------------------------------------------------------
(* Saving.                                                                  *)

LEMMA SavedFact ==
    ASSUME IInv, NEW e \in EffectRecord, ~disabled
    PROVE  /\ SavedRow(e) \in SavedRecord /\ SavedRow(e).level = e.level
           /\ SavedRow(e).saved # Unsaved => /\ e.ctx # Unowned
                                             /\ SavedRow(e).saved.use = e.ctx.use
                                             /\ SavedRow(e).saved.uuid = e.ctx.uuid
           /\ e.ctx.use # 0 => SavedRow(e).saved # Unsaved /\ SavedRow(e).saved.use = e.ctx.use
<1>1. Context(e) = e.ctx /\ e.ctx \in Ancestry /\ e.level \in Levels
  BY DEF Context, EffectRecord
<1>2. CASE e.ctx = Unowned
  <2>1. SavedRow(e) = [level |-> e.level, saved |-> Unsaved] /\ e.ctx.use = 0
    BY <1>1, <1>2 DEF SavedRow, Unowned
  <2>2. Unsaved \in [use : Nat, uuid : Chars \cup {None}, level : Nat]
    BY DEF Unsaved
  <2> QED
    BY <1>1, <2>1, <2>2 DEF SavedRecord
<1>3. CASE e.ctx # Unowned
  <2>1. SavedRow(e) = [level |-> e.level, saved |-> [use |-> e.ctx.use, uuid |-> e.ctx.uuid, level |-> e.ctx.level]]
    BY <1>1, <1>3 DEF SavedRow
  <2>2. [use |-> e.ctx.use, uuid |-> e.ctx.uuid, level |-> e.ctx.level] \in [use : Nat, uuid : Chars \cup {None}, level : Nat]
    BY <1>1 DEF Ancestry
  <2>3. e.ctx.use # 0 => [use |-> e.ctx.use, uuid |-> e.ctx.uuid, level |-> e.ctx.level] # Unsaved
    BY DEF Unsaved
  <2> QED
    BY <1>1, <1>3, <2>1, <2>2, <2>3 DEF SavedRecord
<1> QED
  BY <1>2, <1>3

\* What is prepared of a live sprite's effects is true, and all there is.
LEMMA PreparedFact ==
    ASSUME IInv, NEW c \in Chars, IsLive(sprite[c]), ~disabled,
           NEW rows, rows = [i \in DOMAIN sprite[c].effects |-> SavedRow(sprite[c].effects[i])]
    PROVE  /\ rows \in Seq(SavedRecord) /\ Envelope(rows, changes) \in EnvelopeRecord
           /\ Tells(Envelope(rows, changes), changes, sprite[c].effects, uses)
           /\ Complete(Envelope(rows, changes), changes, sprite[c].effects)
<1> DEFINE list == sprite[c].effects
           env == Envelope(rows, changes)
<1>1. /\ list \in Seq(EffectRecord) /\ Len(list) \in Nat /\ DOMAIN list = 1..Len(list)
      /\ \A i \in 1..Len(list) : list[i] \in EffectRecord
  BY SpriteFact DEF IInv, Typed
<1>2. /\ Good(sprite[c], uses, sprite, lives) /\ changes \in Nat /\ uses \in Seq(Chars)
  BY DEF IInv, EachSound, Sound, Typed
<1>3. \A i \in 1..Len(list) : rows[i] = SavedRow(list[i])
  BY <1>1
<1>4. \A i \in 1..Len(list) : rows[i] \in SavedRecord
  BY <1>1, <1>3, SavedFact
<1>5. rows \in Seq(SavedRecord) /\ Len(rows) = Len(list)
  <2>1. rows = [i \in 1..Len(list) |-> rows[i]]
    BY <1>1
  <2> HIDE DEF list
  <2> QED
    BY <1>1, <1>4, <2>1, MadeFact
<1>6. DOMAIN rows = 1..Len(list)
  BY <1>1
<1>7. /\ env \in EnvelopeRecord /\ env.time \in {0, changes}
      /\ env.kind = "ours" => env.rows = rows /\ env.time = changes
      /\ (\E i \in 1..Len(list) : rows[i].saved # Unsaved) =>
            env.kind = "ours" /\ env.rows = rows /\ env.time = changes
  <2>1. CASE \E i \in DOMAIN rows : rows[i].saved # Unsaved
    <3>1. env = [kind |-> "ours", rows |-> rows, time |-> changes]
      BY <2>1 DEF Envelope
    <3> QED
      BY <1>2, <1>5, <3>1 DEF EnvelopeRecord
  <2>2. CASE ~\E i \in DOMAIN rows : rows[i].saved # Unsaved
    <3>1. env = NoEnvelope
      BY <2>2 DEF Envelope
    <3> QED
      BY <1>6, <2>2, <3>1, ConstantFact DEF NoEnvelope
  <2> QED
    BY <2>1, <2>2
<1>8. \A i \in 1..Len(list) : Belongs(list[i], uses, sprite, lives) /\ Kept(list[i], uses, sprite)
  BY <1>2 DEF Good
<1> HIDE DEF list, env
<1>9. Tells(env, changes, list, uses)
  <2>1. ASSUME NEW i \in 1..Len(list), rows[i].saved # Unsaved
        PROVE  /\ list[i].use \in 1..Len(uses)
               /\ rows[i].saved.use = list[i].use
               /\ rows[i].saved.uuid = uses[list[i].use]
    <3>1. /\ list[i].ctx # Unowned
          /\ rows[i].saved.use = list[i].ctx.use /\ rows[i].saved.uuid = list[i].ctx.uuid
      BY <1>1, <1>3, <2>1, SavedFact
    <3> QED
      BY <1>8, <3>1 DEF Belongs
  <2>2. changes <= changes
    BY <1>2
  <2>3. CASE env.kind = "ours"
    <3>1. env.rows = rows /\ env.time = changes
      BY <1>7, <2>3
    <3> QED
      BY <2>1, <2>2, <3>1 DEF Tells
  <2>4. CASE env.kind # "ours"
    BY <2>4 DEF Tells
  <2> QED
    BY <2>3, <2>4
<1>10. Complete(env, changes, list)
  <2> SUFFICES ASSUME NEW i \in 1..Len(list), list[i].whole, list[i].use # 0
               PROVE  /\ env.kind = "ours" /\ env.time = changes /\ Len(env.rows) = Len(list)
                      /\ \A j \in 1..Len(list) : env.rows[j].level = list[j].level
                      /\ env.rows[i].saved.use = list[i].use
    BY DEF Complete
  <2>1. list[i].ctx.use = list[i].use
    BY <1>8 DEF Kept
  <2>2. rows[i].saved # Unsaved /\ rows[i].saved.use = list[i].use
    BY <1>1, <1>3, <2>1, SavedFact
  <2>3. \A j \in 1..Len(list) : rows[j].level = list[j].level
    BY <1>1, <1>3, SavedFact
  <2> QED
    BY <1>5, <1>7, <2>2, <2>3
<1> QED
  BY <1>5, <1>7, <1>9, <1>10 DEF list, env

LEMMA MarshalStep ==
    ASSUME IInv, NEW c \in Chars, Calm, sprite[c].stage = "live",
           NEW p \in Sprite, p \in {sprite[c], [sprite[c] EXCEPT !.error = TRUE]},
           sprite' = [sprite EXCEPT ![c] = p],
           UNCHANGED <<record, uses, scopes, import, changes, lives, strangers, restarts>>,
           disabled' \in BOOLEAN, disabled => disabled', p.error => disabled',
           NEW ex \in ExportRecord, export' = ex, ex.of = c,
           Tells(ex.envelope, changes, sprite[c].effects, uses),
           ~disabled' => Complete(ex.envelope, changes, sprite[c].effects),
           c \in strangers => ex.envelope = Foreign
    PROVE  IInv'
<1>1. /\ Typed /\ sprite[c] \in Sprite /\ Sound(c) /\ scopes = <<>> /\ uses \in Seq(Chars)
      /\ changes \in Nat /\ disabled \in BOOLEAN /\ import \in [Chars -> ImportRecord]
      /\ sprite \in [Chars -> Sprite]
  BY DEF IInv, Typed, EachSound, Calm
<1>2. /\ p.effects = sprite[c].effects /\ p.life = sprite[c].life /\ p.uuid = sprite[c].uuid
      /\ p.stage = "live" /\ p.raw = sprite[c].raw /\ p.finished = sprite[c].finished
      /\ sprite[c].error => p.error
  <2>1. p = sprite[c] \/ p = [sprite[c] EXCEPT !.error = TRUE]
    OBVIOUS
  <2> QED
    BY <1>1, <2>1 DEF Sprite
<1>3. sprite'[c] = p /\ IsLive(p) /\ IsLive(sprite[c])
  BY <1>1, <1>2, OneSprite DEF IsLive
<1>4. ScopesOk' /\ scopes' \in Seq(Chars)
  BY <1>1, NoScopes
<1>5. ExportOk'
  BY <1>1, <1>2, <1>3 DEF ExportOk
<1>6. ~disabled' => Good(p, uses', sprite', lives')
  <2> SUFFICES ASSUME ~disabled' PROVE Good(p, uses, sprite', lives)
    OBVIOUS
  <2>1. Good(sprite[c], uses, sprite, lives)
    BY <1>1 DEF Sound
  <2>2. Good(p, uses, sprite, lives)
    BY <1>2, <1>3, <2>1, GoodSame
  <2>3. IsLive(p) => \A i \in 1..Len(p.effects) : p.effects[i].use <= Len(uses)
    BY <1>1, <1>2, <1>3 DEF Sound, LiveOk
  <2>4. Grows(uses, uses) /\ Steady(sprite, sprite', lives)
    BY <1>1, <1>2, OneSprite, Same DEF Steady
  <2>5. lives \in Nat /\ lives <= lives /\ sprite' \in [Chars -> Sprite]
    BY <1>1, OneSprite DEF Typed
  <2> QED
    BY <1>1, <2>2, <2>3, <2>4, <2>5, GoodGrows
<1>7. LoadOk(p, record[c], import'[c], disabled')
  BY <1>2 DEF LoadOk
<1>8. LiveOk(p, uses', changes', disabled')
  BY <1>1, <1>2, <1>3 DEF Sound, LiveOk
<1>9. c \in strangers => StrangerOk(c, p, record[c], export')
  <2> SUFFICES ASSUME c \in strangers PROVE StrangerOk(c, p, record[c], ex)
    OBVIOUS
  <2>1. StrangerOk(c, sprite[c], record[c], export)
    BY <1>1 DEF Sound
  <2> QED
    BY <1>2, <2>1 DEF StrangerOk
<1>10. Grows(uses, uses') /\ changes <= changes' /\ changes' \in Nat /\ uses' \in Seq(Chars)
  BY <1>1, Same
<1>11. export' \in ExportRecord /\ export'.of = c /\ import' \in [Chars -> ImportRecord]
       /\ \A d \in Chars \ {c} : import'[d] = import[d]
  BY <1>1
<1>12. p.stage # "none" /\ sprite[c].stage # "none"
  BY <1>2
<1> QED
  BY <1>2, <1>4, <1>5, <1>6, <1>7, <1>8, <1>9, <1>10, <1>11, <1>12, SpriteStep

LEMMA MarshalKeeps == ASSUME IInv, NEW c \in Chars, Marshal(c) PROVE IInv'
<1>1. /\ Typed /\ sprite[c] \in Sprite /\ Sound(c) /\ changes \in Nat /\ disabled \in BOOLEAN
      /\ sprite \in [Chars -> Sprite]
  BY DEF IInv, Typed, EachSound
<1>2. /\ Calm /\ sprite[c].stage = "live" /\ IsLive(sprite[c])
      /\ UNCHANGED <<record, uses, scopes, import, changes, lives, strangers, restarts>>
  BY DEF Marshal, IsLive
<1>3. c \in strangers => sprite[c].raw = Foreign
  BY <1>1, <1>2 DEF Sound, StrangerOk
<1>4. sprite[c].error => disabled
  BY <1>1 DEF Sound
<1> DEFINE none == [NoExport EXCEPT !.of = c]
<1>5. none \in ExportRecord /\ none.of = c /\ none.envelope = NoEnvelope
  BY ConstantFact DEF NoExport, ExportRecord
<1>6. Tells(NoEnvelope, changes, sprite[c].effects, uses)
  BY NoEnvelopeTells
<1> HIDE DEF none
<1>7. CASE sprite[c].raw # NoEnvelope
  <2>1. /\ export' = [NoExport EXCEPT !.of = c, !.envelope = sprite[c].raw]
        /\ disabled' = disabled /\ sprite' = sprite
    BY <1>7 DEF Marshal, NoFail
  <2>2. PICK ex : ex = [NoExport EXCEPT !.of = c, !.envelope = sprite[c].raw]
    OBVIOUS
  <2>3. ex \in ExportRecord /\ ex.of = c /\ ex.envelope = sprite[c].raw
    BY <1>1, <2>2, SpriteFact, ConstantFact DEF NoExport, ExportRecord
  <2>4. Tells(ex.envelope, changes, sprite[c].effects, uses) /\ disabled
    BY <1>1, <1>2, <1>7, <2>3 DEF Sound, LiveOk
  <2>5. sprite' = [sprite EXCEPT ![c] = sprite[c]]
    BY <1>1, <2>1
  <2> QED
    BY <1>1, <1>2, <1>3, <1>4, <2>1, <2>2, <2>3, <2>4, <2>5, MarshalStep
<1>8. CASE sprite[c].raw = NoEnvelope /\ disabled
  <2>1. export' = none /\ disabled' = disabled /\ sprite' = sprite
    BY <1>8 DEF Marshal, NoFail, Healthy, none
  <2>2. sprite' = [sprite EXCEPT ![c] = sprite[c]]
    BY <1>1, <2>1
  <2>3. c \notin strangers
    BY <1>3, <1>8, ConstantFact
  <2> QED
    BY <1>1, <1>2, <1>5, <1>6, <1>8, <2>1, <2>2, <2>3, MarshalStep
<1> DEFINE rows == [i \in DOMAIN sprite[c].effects |-> SavedRow(sprite[c].effects[i])]
           fine == \A i \in DOMAIN sprite[c].effects : Emittable(sprite[c].effects[i])
<1>9. CASE sprite[c].raw = NoEnvelope /\ ~disabled /\ fine
  <2>1. /\ export' = [of |-> c, prepared |-> TRUE, rows |-> rows,
                      envelope |-> Envelope(rows, changes), meddled |-> FALSE]
        /\ disabled' = disabled /\ sprite' = sprite
    BY <1>9 DEF Marshal, NoFail, Healthy
  <2>2. PICK r : r = rows
    OBVIOUS
  <2>3. /\ r \in Seq(SavedRecord) /\ Envelope(r, changes) \in EnvelopeRecord
        /\ Tells(Envelope(r, changes), changes, sprite[c].effects, uses)
        /\ Complete(Envelope(r, changes), changes, sprite[c].effects)
    BY <1>2, <1>9, <2>2, PreparedFact
  <2> HIDE DEF rows
  <2>4. PICK env : env = Envelope(r, changes)
    OBVIOUS
  <2>5. PICK ex : ex = [of |-> c, prepared |-> TRUE, rows |-> r, envelope |-> env, meddled |-> FALSE]
    OBVIOUS
  <2>6. ex \in ExportRecord /\ ex.of = c /\ ex.envelope = env /\ export' = ex
    BY <2>1, <2>2, <2>3, <2>4, <2>5 DEF ExportRecord
  <2>7. sprite' = [sprite EXCEPT ![c] = sprite[c]]
    BY <1>1, <2>1
  <2>8. c \notin strangers
    BY <1>3, <1>9, ConstantFact
  <2>9. /\ Tells(ex.envelope, changes, sprite[c].effects, uses)
        /\ Complete(ex.envelope, changes, sprite[c].effects)
    BY <2>3, <2>4, <2>6
  <2> QED
    BY <1>1, <1>2, <1>4, <2>1, <2>6, <2>7, <2>8, <2>9, MarshalStep
<1>10. CASE sprite[c].raw = NoEnvelope /\ ~disabled /\ ~fine
  <2>1. export' = none /\ disabled' = TRUE /\ sprite' = [sprite EXCEPT ![c].error = TRUE]
    BY <1>10 DEF Marshal, Fail, Healthy, none
  <2>2. PICK p : p = [sprite[c] EXCEPT !.error = TRUE]
    OBVIOUS
  <2>3. p \in Sprite /\ sprite' = [sprite EXCEPT ![c] = p]
    BY <1>1, <2>1, <2>2 DEF Sprite
  <2>4. c \notin strangers
    BY <1>3, <1>10, ConstantFact
  <2> QED
    BY <1>1, <1>2, <1>5, <1>6, <2>1, <2>2, <2>3, <2>4, MarshalStep
<1> QED
  BY <1>1, <1>7, <1>8, <1>9, <1>10
\* The level of an effect is not what its ancestry is about.
LEMMA LevelFact ==
    ASSUME NEW list \in Seq(EffectRecord), NEW i \in 1..Len(list), NEW level \in Levels,
           NEW new, new = [list EXCEPT ![i].level = level]
    PROVE  /\ new \in Seq(EffectRecord) /\ Len(new) = Len(list)
           /\ \A k \in 1..Len(list) :
                 new[k].use = list[k].use /\ new[k].ctx = list[k].ctx /\ new[k].whole = list[k].whole
<1>1. Len(list) \in Nat /\ DOMAIN list = 1..Len(list) /\ \A k \in 1..Len(list) : list[k] \in EffectRecord
  BY SeqFact
<1>2. PICK x : x = [list[i] EXCEPT !.level = level]
  OBVIOUS
<1>3. x \in EffectRecord /\ x.use = list[i].use /\ x.ctx = list[i].ctx /\ x.whole = list[i].whole
  BY <1>1, <1>2 DEF EffectRecord
<1>4. new = [list EXCEPT ![i] = x]
  BY <1>1, <1>2
<1>5. new \in Seq(EffectRecord) /\ Len(new) = Len(list)
  BY <1>1, <1>3, <1>4
<1>6. \A k \in 1..Len(list) : new[k] = IF k = i THEN x ELSE list[k]
  BY <1>1, <1>4
<1> QED
  BY <1>3, <1>5, <1>6

LEMMA AlikeFact ==
    ASSUME NEW x, NEW y, x.use = y.use, x.ctx = y.ctx, x.whole = y.whole, NEW us, NEW s, NEW n
    PROVE  (Belongs(y, us, s, n) => Belongs(x, us, s, n)) /\ (Kept(y, us, s) => Kept(x, us, s))
BY DEF Belongs, Kept

LEMMA MeddleKeeps == ASSUME IInv, NEW i \in 1..MaxEffects, NEW level \in Levels, Meddle(i, level) PROVE IInv'
<1> DEFINE c == export.of
<1>1. /\ export # NoExport /\ i \in DOMAIN sprite[c].effects
      /\ sprite' = [sprite EXCEPT ![c].effects[i].level = level]
      /\ export' = [export EXCEPT !.meddled = TRUE]
      /\ UNCHANGED <<record, uses, scopes, import, disabled, changes, lives, strangers, restarts>>
  BY DEF Meddle
<1>2. /\ c \in Chars /\ sprite[c].stage = "live" /\ scopes = <<>>
      /\ Tells(export.envelope, changes, sprite[c].effects, uses)
  BY <1>1 DEF IInv, ExportOk
<1>3. /\ Typed /\ sprite[c] \in Sprite /\ Sound(c) /\ uses \in Seq(Chars) /\ changes \in Nat
      /\ sprite \in [Chars -> Sprite] /\ export \in ExportRecord /\ disabled \in BOOLEAN
      /\ import \in [Chars -> ImportRecord] /\ lives \in Nat
  BY <1>2 DEF IInv, Typed, EachSound
<1> DEFINE old == sprite[c].effects
<1>4. PICK new : new = [old EXCEPT ![i].level = level]
  OBVIOUS
<1>5. old \in Seq(EffectRecord) /\ i \in 1..Len(old)
  BY <1>1, <1>3, SpriteFact
<1>6. /\ new \in Seq(EffectRecord) /\ Len(new) = Len(old)
      /\ \A k \in 1..Len(old) :
            new[k].use = old[k].use /\ new[k].ctx = old[k].ctx /\ new[k].whole = old[k].whole
  <2> HIDE DEF old
  <2> QED
    BY <1>4, <1>5, LevelFact
<1>7. PICK p : p = [sprite[c] EXCEPT !.effects = new]
  OBVIOUS
<1>8. /\ p \in Sprite /\ p.effects = new /\ p.life = sprite[c].life /\ p.uuid = sprite[c].uuid
      /\ p.stage = "live" /\ p.raw = sprite[c].raw /\ p.error = sprite[c].error
      /\ p.finished = sprite[c].finished
  BY <1>2, <1>3, <1>6, <1>7 DEF Sprite
<1>9. sprite' = [sprite EXCEPT ![c] = p]
  BY <1>1, <1>2, <1>3, <1>4, <1>7
<1>10. export' \in ExportRecord /\ export'.of = c /\ export'.envelope = export.envelope /\ export'.meddled
  BY <1>1, <1>3 DEF ExportRecord
<1>11. /\ Tells(export.envelope, changes, new, uses)
       /\ Tells(sprite[c].raw, changes, old, uses)
       /\ Tells(sprite[c].raw, changes, new, uses)
  <2>1. Tells(sprite[c].raw, changes, old, uses)
    BY <1>2, <1>3 DEF Sound, LiveOk, IsLive
  <2>2. \A k \in 1..Len(new) : k \in 1..Len(old) /\ new[k].use = old[k].use
    BY <1>6
  <2> HIDE DEF old
  <2>3. Tells(sprite[c].raw, changes, new, uses)
    BY <2>1, <2>2, TellsAlike
  <2>4. Tells(export.envelope, changes, old, uses)
    BY <1>2 DEF old
  <2>5. Tells(export.envelope, changes, new, uses)
    BY <2>2, <2>4, TellsAlike
  <2> QED
    BY <2>1, <2>3, <2>5
<1>12. sprite'[c] = p /\ sprite' \in [Chars -> Sprite] /\ \A d \in Chars \ {c} : sprite'[d] = sprite[d]
  BY <1>2, <1>3, <1>8, <1>9, OneSprite
<1>13. ExportOk'
  BY <1>1, <1>2, <1>8, <1>10, <1>11, <1>12 DEF ExportOk
<1>14. LiveOk(p, uses', changes', disabled')
  <2>1. \A k \in 1..Len(new) : new[k].use <= Len(uses)
    BY <1>2, <1>3, <1>6 DEF Sound, LiveOk, IsLive
  <2>2. /\ ~disabled => p.uuid /\ p.finished
        /\ ~disabled => p.raw = NoEnvelope
    BY <1>2, <1>3, <1>8 DEF Sound, LiveOk, IsLive
  <2> QED
    BY <1>1, <1>8, <1>11, <2>1, <2>2 DEF LiveOk
<1>15. ~disabled' => Good(p, uses', sprite', lives')
  <2> SUFFICES ASSUME ~disabled PROVE Good(p, uses, sprite', lives)
    BY <1>1
  <2>1. Good(sprite[c], uses, sprite, lives) /\ IsLive(sprite[c])
    BY <1>2, <1>3 DEF Sound, IsLive
  <2>2. Good(p, uses, sprite, lives)
    <3> SUFFICES ASSUME NEW k \in 1..Len(new)
                 PROVE  Belongs(new[k], uses, sprite, lives) /\ Kept(new[k], uses, sprite)
      BY <1>8 DEF Good
    <3>1. Belongs(old[k], uses, sprite, lives) /\ Kept(old[k], uses, sprite)
      BY <1>6, <2>1 DEF Good
    <3>2. new[k].use = old[k].use /\ new[k].ctx = old[k].ctx /\ new[k].whole = old[k].whole
      BY <1>6
    <3> HIDE DEF old
    <3> QED
      BY <3>1, <3>2, AlikeFact
  <2>3. \A k \in 1..Len(p.effects) : p.effects[k].use <= Len(uses)
    BY <1>1, <1>8, <1>14 DEF LiveOk, IsLive
  <2>4. Grows(uses, uses) /\ Steady(sprite, sprite', lives) /\ lives <= lives
    BY <1>3, <1>8, <1>12, Same DEF Steady
  <2> QED
    BY <1>3, <1>8, <1>12, <2>2, <2>3, <2>4, GoodGrows
<1>16. LoadOk(p, record[c], import'[c], disabled')
  BY <1>8 DEF LoadOk
<1>17. /\ p.error => disabled'
       /\ c \in strangers => StrangerOk(c, p, record[c], export')
  <2>1. p.error => disabled'
    BY <1>1, <1>3, <1>8 DEF Sound
  <2>2. ASSUME c \in strangers PROVE StrangerOk(c, p, record[c], export')
    <3>1. StrangerOk(c, sprite[c], record[c], export)
      BY <1>3, <2>2 DEF Sound
    <3> QED
      BY <1>1, <1>2, <1>8, <1>10, <3>1 DEF StrangerOk
  <2> QED
    BY <2>1, <2>2
<1>18. ScopesOk' /\ scopes' \in Seq(Chars)
  BY <1>1, <1>2, NoScopes
<1>19. /\ Grows(uses, uses') /\ changes <= changes' /\ changes' \in Nat /\ uses' \in Seq(Chars)
       /\ disabled' \in BOOLEAN /\ (disabled => disabled') /\ import' \in [Chars -> ImportRecord]
       /\ \A d \in Chars \ {c} : import'[d] = import[d]
       /\ p.stage # "none" /\ sprite[c].stage # "none"
  BY <1>1, <1>2, <1>3, <1>8, Same
<1> HIDE DEF c
<1> QED
  BY <1>1, <1>2, <1>8, <1>9, <1>10, <1>13, <1>14, <1>15, <1>16, <1>17, <1>18, <1>19, SpriteStep

LEMMA WrittenKeeps == ASSUME IInv, Written PROVE IInv'
<1>1. PICK c : c = export.of
  OBVIOUS
<1> DEFINE list == sprite[c].effects
           whole == Healthy /\ ~export.meddled
           row == [i \in DOMAIN list |-> [level |-> list[i].level, use |-> list[i].use,
                                          whole |-> list[i].whole /\ whole]]
<1>2. /\ export # NoExport /\ export' = NoExport
      /\ record' = [record EXCEPT ![c] = [rows |-> row, time |-> changes, envelope |-> export.envelope]]
      /\ disabled' \in {disabled, TRUE}
      /\ UNCHANGED <<sprite, uses, scopes, import, changes, lives, strangers, restarts>>
  BY <1>1 DEF Written, Fail, NoFail
<1>3. /\ c \in Chars /\ sprite[c].stage = "live" /\ scopes = <<>>
      /\ Tells(export.envelope, changes, list, uses)
      /\ whole => Complete(export.envelope, changes, list)
  BY <1>2, <1>1 DEF IInv, ExportOk, Healthy
<1>4. /\ Typed /\ sprite[c] \in Sprite /\ Sound(c) /\ uses \in Seq(Chars) /\ changes \in Nat
      /\ record \in [Chars -> CharacterRecord] /\ export \in ExportRecord /\ disabled \in BOOLEAN
      /\ export.envelope \in EnvelopeRecord /\ lives \in Nat
  BY <1>3 DEF IInv, Typed, EachSound, ExportRecord
<1>5. /\ list \in Seq(EffectRecord) /\ Len(list) \in Nat /\ DOMAIN list = 1..Len(list)
      /\ \A i \in 1..Len(list) : list[i] \in EffectRecord
  BY <1>4, SpriteFact
<1>6. PICK w \in BOOLEAN : w = whole
  BY <1>4 DEF Healthy, ExportRecord
<1>7. PICK rows : rows = row
  OBVIOUS
<1>8. /\ rows = [i \in 1..Len(list) |-> rows[i]]
      /\ \A i \in 1..Len(list) : rows[i] = [level |-> list[i].level, use |-> list[i].use,
                                            whole |-> list[i].whole /\ w]
  BY <1>5, <1>6, <1>7
<1> HIDE DEF list
<1>9. \A i \in 1..Len(list) : rows[i] \in Row
  BY <1>5, <1>8 DEF EffectRecord, Row
<1>10. rows \in Seq(Row) /\ Len(rows) = Len(list)
  BY <1>5, <1>8, <1>9, MadeFact
<1>11. PICK r : r = [rows |-> rows, time |-> changes, envelope |-> export.envelope]
  OBVIOUS
<1>12. /\ r \in CharacterRecord /\ r.rows = rows /\ r.time = changes /\ r.envelope = export.envelope
       /\ record' = [record EXCEPT ![c] = r]
  BY <1>2, <1>4, <1>7, <1>10, <1>11 DEF CharacterRecord
<1>13. /\ record' \in [Chars -> CharacterRecord] /\ record'[c] = r
       /\ \A d \in Chars \ {c} : record'[d] = record[d]
  BY <1>3, <1>4, <1>12
<1>14. Typed'
  BY <1>2, <1>4, <1>13, ConstantFact DEF Typed
<1>15. RecordOk(r, uses, changes)
  <2>1. \A i \in 1..Len(rows) : rows[i].use = list[i].use /\ rows[i].level = list[i].level
    BY <1>8, <1>10
  <2>2. \A i \in 1..Len(rows) : rows[i].use <= Len(uses)
    BY <1>3, <1>4, <1>10, <2>1 DEF Sound, LiveOk, IsLive, list
  <2>3. Tells(export.envelope, changes, rows, uses)
    BY <1>3, <1>10, <2>1, TellsAlike
  <2>4. Complete(export.envelope, changes, rows)
    <3>1. CASE ~w
      BY <1>8, <1>10, <3>1 DEF Complete
    <3>2. CASE w
      <4>1. Complete(export.envelope, changes, list)
        BY <1>3, <1>6, <3>2
      <4>2. ASSUME NEW i \in 1..Len(rows), rows[i].whole PROVE list[i].whole
        <5>1. rows[i] = [level |-> list[i].level, use |-> list[i].use, whole |-> list[i].whole /\ w]
          BY <1>8, <1>10
        <5>2. rows[i].whole = (list[i].whole /\ w)
          BY <5>1
        <5> QED
          BY <4>2, <5>2
      <4> QED
        BY <1>10, <2>1, <4>1, <4>2 DEF Complete
    <3> QED
      BY <3>1, <3>2
  <2> QED
    BY <1>4, <1>12, <2>2, <2>3, <2>4 DEF RecordOk
<1>16. Sound(c)'
  <2>1. disabled => disabled'
    BY <1>2
  <2>2. ~disabled' => Good(sprite[c], uses, sprite, lives)
    BY <1>4, <2>1 DEF Sound
  <2>3. LoadOk(sprite[c], r, import[c], disabled')
    BY <1>3 DEF LoadOk
  <2>4. LiveOk(sprite[c], uses, changes, disabled')
    BY <1>4, <2>1 DEF Sound, LiveOk
  <2>5. ASSUME c \in strangers PROVE StrangerOk(c, sprite[c], r, NoExport)
    <3>1. StrangerOk(c, sprite[c], record[c], export)
      BY <1>4, <2>5 DEF Sound
    <3> QED
      BY <1>1, <1>2, <1>12, <3>1 DEF StrangerOk
  <2>6. sprite[c].error => disabled'
    BY <1>4, <2>1 DEF Sound
  <2> QED
    BY <1>2, <1>13, <1>15, <2>2, <2>3, <2>4, <2>5, <2>6 DEF Sound
<1>17. Distinct' /\ ScopesOk' /\ ExportOk'
  BY <1>2 DEF IInv, Distinct, ScopesOk, ExportOk
<1>18. /\ (disabled => disabled') /\ strangers' = strangers
       /\ \A d \in Chars \ {c} : sprite'[d] = sprite[d] /\ record'[d] = record[d] /\ import'[d] = import[d]
       /\ export' \in {export, NoExport}
  <2>1. export' = NoExport /\ UNCHANGED <<sprite, import, strangers>>
    BY <1>2
  <2>2. disabled => disabled'
    BY <1>2
  <2> QED
    BY <1>13, <2>1, <2>2
<1>19. Grows(uses, uses') /\ Steady(sprite, sprite', lives) /\ lives <= lives' /\ changes <= changes'
  BY <1>2, <1>4, Same
<1> QED
  BY <1>19, <1>3, <1>14, <1>16, <1>17, <1>18, StepKeeps
-----------------------------------------------------------------------------
(* Loading.                                                                 *)

LEMMA LoadKeeps == ASSUME IInv, NEW c \in Chars, Load(c) PROVE IInv'
<1>1. /\ export = NoExport /\ sprite[c].stage = "none" /\ lives' = lives + 1
      /\ sprite' = [sprite EXCEPT ![c] = [NoSprite EXCEPT !.life = lives', !.stage = "decoding"]]
      /\ scopes' = Append(scopes, c)
      /\ import' = [import EXCEPT ![c] = [NoImport EXCEPT !.open = TRUE]]
      /\ UNCHANGED <<record, uses, export, disabled, changes, strangers, restarts>>
  BY DEF Load
<1>2. /\ Typed /\ Distinct /\ ScopesOk /\ Sound(c) /\ uses \in Seq(Chars) /\ changes \in Nat
      /\ lives \in Nat /\ disabled \in BOOLEAN /\ scopes \in Seq(Chars)
      /\ sprite \in [Chars -> Sprite] /\ import \in [Chars -> ImportRecord]
      /\ record[c] \in CharacterRecord
  BY DEF IInv, Typed, EachSound
<1>3. PICK n \in Nat : n = lives + 1
  BY <1>2
<1>4. PICK p : p = [NoSprite EXCEPT !.life = n, !.stage = "decoding"]
  OBVIOUS
<1>5. /\ p \in Sprite /\ p.life = n /\ p.stage = "decoding" /\ p.effects = <<>> /\ ~p.uuid
      /\ p.raw = NoEnvelope /\ ~p.error
  <2>1. p = [life |-> n, stage |-> "decoding", effects |-> <<>>, uuid |-> FALSE,
             raw |-> NoEnvelope, error |-> FALSE, finished |-> FALSE]
    BY <1>4 DEF NoSprite
  <2>2. NoEnvelope \in EnvelopeRecord /\ <<>> \in Seq(EffectRecord)
    BY ConstantFact
  <2> QED
    BY <2>1, <2>2 DEF Sprite
<1>6. PICK im : im = [NoImport EXCEPT !.open = TRUE]
  OBVIOUS
<1>7. im \in ImportRecord /\ im.open /\ im.rows = <<>> /\ im.archive = NoEnvelope
  BY <1>6, ConstantFact DEF NoImport, ImportRecord
<1>8. sprite' = [sprite EXCEPT ![c] = p] /\ import' = [import EXCEPT ![c] = im]
  BY <1>1, <1>3, <1>4, <1>6
<1>9. sprite' \in [Chars -> Sprite] /\ sprite'[c] = p /\ \A d \in Chars \ {c} : sprite'[d] = sprite[d]
  BY <1>2, <1>5, <1>8, OneSprite
<1>10. import' \in [Chars -> ImportRecord] /\ import'[c] = im /\ \A d \in Chars \ {c} : import'[d] = import[d]
  BY <1>2, <1>7, <1>8
<1>11. scopes' \in Seq(Chars) /\ lives' \in Nat
  BY <1>1, <1>2, <1>3, AddFact
<1>12. Typed'
  BY <1>1, <1>2, <1>9, <1>10, <1>11 DEF Typed
<1>13. \A d \in Chars : sprite[d].life \in Nat /\ sprite[d].life <= lives
  BY <1>2, SpriteFact DEF Distinct, LivesOk
<1>14. Steady(sprite, sprite', lives)
  <2>1. n > lives
    BY <1>2, <1>3
  <2>2. sprite'[c].life > lives /\ ~sprite'[c].uuid
    BY <1>5, <1>9, <2>1
  <2> QED
    BY <1>9, <2>2 DEF Steady
<1>15. Distinct'
  <2>1. \A d \in Chars \ {c} : sprite'[d] = sprite[d] /\ sprite[d].life <= lives /\ sprite[d].life \in Nat
    BY <1>9, <1>13
  <2>2. lives' = n /\ n = lives + 1 /\ sprite'[c].life = n /\ sprite'[c].stage = "decoding"
    BY <1>1, <1>3, <1>5, <1>9
  <2> QED
    BY <1>2, <2>1, <2>2 DEF Distinct, LivesOk
<1>16. ScopesOk'
  <2>1. /\ Len(scopes) \in Nat /\ Len(scopes') = Len(scopes) + 1
        /\ \A i \in 1..Len(scopes) : scopes'[i] = scopes[i] /\ scopes[i] \in Chars
        /\ scopes'[Len(scopes) + 1] = c
    BY <1>1, <1>2, AddFact, SeqFact
  <2>2. \A i \in 1..Len(scopes) : scopes[i] # c /\ sprite'[scopes[i]].stage = "decoding"
    BY <1>1, <1>2, <1>9, <2>1 DEF ScopesOk
  <2>3. \A i \in 1..Len(scopes') : sprite'[scopes'[i]].stage = "decoding"
    BY <1>5, <1>9, <2>1, <2>2
  <2>4. \A i, j \in 1..Len(scopes') : scopes'[i] = scopes'[j] => i = j
    BY <1>2, <2>1, <2>2 DEF ScopesOk
  <2> QED
    BY <2>3, <2>4 DEF ScopesOk
<1>17. Sound(c)'
  <2>1. Len(p.effects) = 0 /\ Len(im.rows) = 0 /\ NoEnvelope.kind # "foreign"
    BY <1>5, <1>7, ConstantFact
  <2>2. Good(p, uses, sprite', lives')
    BY <2>1 DEF Good
  <2>3. LoadOk(p, record[c], im, disabled)
    <3>1. Len(record[c].rows) \in Nat
      BY <1>2, RecordFact
    <3> QED
      BY <1>5, <1>7, <2>1, <3>1 DEF LoadOk
  <2>4. LiveOk(p, uses, changes, disabled)
    BY <1>5 DEF LiveOk, IsLive
  <2>5. ASSUME c \in strangers PROVE StrangerOk(c, p, record[c], NoExport)
    <3>1. record[c].envelope = Foreign
      BY <1>2, <2>5 DEF Sound, StrangerOk
    <3> QED
      BY <1>5, <3>1, ConstantFact DEF StrangerOk
  <2>6. RecordOk(record[c], uses, changes)
    BY <1>2 DEF Sound
  <2> QED
    BY <1>1, <1>5, <1>9, <1>10, <2>2, <2>3, <2>4, <2>5, <2>6 DEF Sound
<1>18. ExportOk' /\ export' \in {export, NoExport}
  BY <1>1 DEF ExportOk
<1>19. /\ Grows(uses, uses') /\ lives <= lives' /\ changes <= changes' /\ (disabled => disabled')
       /\ strangers' = strangers
       /\ \A d \in Chars \ {c} : sprite'[d] = sprite[d] /\ record'[d] = record[d] /\ import'[d] = import[d]
  BY <1>1, <1>2, <1>9, <1>10, Same
<1> QED
  BY <1>12, <1>14, <1>15, <1>16, <1>17, <1>18, <1>19, StepKeeps

\* The sprite that a record goes to is one that is being decoded.
LEMMA LoadingFact ==
    ASSUME IInv, scopes # <<>>
    PROVE  /\ Loading \in Chars /\ sprite[Loading].stage = "decoding"
           /\ export = NoExport
           /\ sprite[Loading] \in Sprite /\ Sound(Loading) /\ record[Loading] \in CharacterRecord
           /\ import[Loading] \in ImportRecord
<1>1. scopes \in Seq(Chars) /\ sprite \in [Chars -> Sprite] /\ record \in [Chars -> CharacterRecord]
      /\ import \in [Chars -> ImportRecord] /\ ScopesOk /\ EachSound /\ ExportOk
  BY DEF IInv, Typed
<1>2. Loading = scopes[Len(scopes)] /\ Loading \in Chars /\ Len(scopes) \in 1..Len(scopes)
  BY <1>1, FrontFact DEF Loading
<1> QED
  BY <1>1, <1>2 DEF ScopesOk, EachSound, ExportOk

LEMMA DecodeKeeps == ASSUME IInv, Decode PROVE IInv'
<1>1. scopes # <<>>
  BY DEF Decode
<1>2. PICK c : c = Loading
  OBVIOUS
<1>3. /\ c \in Chars /\ sprite[c].stage = "decoding" /\ export = NoExport /\ sprite[c] \in Sprite
      /\ Sound(c) /\ record[c] \in CharacterRecord /\ import[c] \in ImportRecord
  BY <1>1, <1>2, LoadingFact
<1>4. /\ Typed /\ sprite \in [Chars -> Sprite] /\ import \in [Chars -> ImportRecord]
      /\ uses \in Seq(Chars) /\ changes \in Nat /\ disabled \in BOOLEAN
  BY DEF IInv, Typed
<1> DEFINE old == sprite[c].effects
           held == import[c].rows
<1>5. PICK n \in Nat : n = Len(old) + 1
  BY <1>3, SpriteFact
<1>6. PICK row : row = record[c].rows[n]
  OBVIOUS
<1>7. /\ n \in DOMAIN record[c].rows
      /\ sprite' = [sprite EXCEPT ![c].effects = Append(old, Effect(row.use, row.level, Unowned, row.whole))]
      /\ import' = IF import[c].open THEN [import EXCEPT ![c].rows = Append(held, row.level)] ELSE import
      /\ UNCHANGED <<record, uses, scopes, export, disabled, changes, lives, strangers, restarts>>
  BY <1>2, <1>3, <1>4, <1>5, <1>6 DEF Decode
<1>8. n \in 1..Len(record[c].rows) /\ row \in Row /\ Len(record[c].rows) \in Nat
  BY <1>3, <1>6, <1>7, RecordFact
<1>9. PICK e : e = Effect(row.use, row.level, Unowned, row.whole)
  OBVIOUS
<1>10. e \in EffectRecord /\ e.level = row.level /\ e.ctx = Unowned /\ row.level \in Levels
  <2>1. row.use \in Nat /\ row.level \in Levels /\ Unowned \in Ancestry /\ row.whole \in BOOLEAN
    BY <1>8, ConstantFact DEF Row
  <2> QED
    BY <1>9, <2>1, EffectFact
<1>11. PICK new : new = Append(old, e)
  OBVIOUS
<1>12. /\ new \in Seq(EffectRecord) /\ Len(new) = n /\ Len(old) = n - 1 /\ new[n] = e
       /\ \A i \in 1..(n - 1) : new[i] = old[i]
  <2>1. old \in Seq(EffectRecord)
    BY <1>3, SpriteFact
  <2> HIDE DEF old
  <2> QED
    BY <1>5, <1>10, <1>11, <2>1, AddFact
<1>13. PICK p : p = [sprite[c] EXCEPT !.effects = new]
  OBVIOUS
<1>14. /\ p \in Sprite /\ p.effects = new /\ p.life = sprite[c].life /\ p.uuid = sprite[c].uuid
       /\ p.stage = "decoding" /\ p.raw = sprite[c].raw /\ p.error = sprite[c].error
  BY <1>3, <1>12, <1>13 DEF Sprite
<1>15. sprite' = [sprite EXCEPT ![c] = p]
  BY <1>3, <1>4, <1>7, <1>9, <1>11, <1>13
<1>16. PICK im : im = IF import[c].open THEN [import[c] EXCEPT !.rows = Append(held, row.level)] ELSE import[c]
  OBVIOUS
<1>17. im \in ImportRecord /\ import' = [import EXCEPT ![c] = im]
  <2>1. held \in Seq(Levels) /\ Append(held, row.level) \in Seq(Levels)
    BY <1>3, <1>10, AddFact DEF ImportRecord
  <2>2. CASE import[c].open
    <3>1. im = [import[c] EXCEPT !.rows = Append(held, row.level)]
      BY <1>16, <2>2
    <3>2. import' = [import EXCEPT ![c].rows = Append(held, row.level)]
      BY <1>7, <2>2
    <3>3. import' = [import EXCEPT ![c] = im]
      BY <1>3, <1>4, <3>1, <3>2
    <3>4. im \in ImportRecord
      BY <1>3, <2>1, <3>1 DEF ImportRecord
    <3> QED
      BY <3>3, <3>4
  <2>3. CASE ~import[c].open
    BY <1>3, <1>4, <1>7, <1>16, <2>3
  <2> QED
    BY <2>2, <2>3
<1>18. import' \in [Chars -> ImportRecord] /\ import'[c] = im /\ \A d \in Chars \ {c} : import'[d] = import[d]
  BY <1>3, <1>4, <1>17
<1>19. LoadOk(p, record[c], im, disabled)
  <2>1. LoadOk(sprite[c], record[c], import[c], disabled)
    BY <1>3 DEF Sound
  <2>2. /\ ~p.uuid /\ p.raw \in {NoEnvelope, record[c].envelope}
        /\ \A i \in 1..(n - 1) : old[i] = Effect(record[c].rows[i].use, record[c].rows[i].level, Unowned, record[c].rows[i].whole)
    BY <1>3, <1>12, <1>14, <2>1 DEF LoadOk
  <2>3. \A i \in 1..n : new[i] = Effect(record[c].rows[i].use, record[c].rows[i].level, Unowned, record[c].rows[i].whole)
    BY <1>6, <1>9, <1>12, <2>2
  <2>4. ASSUME ~disabled
        PROVE  /\ im.open /\ im.archive = p.raw /\ p.raw.kind # "foreign"
               /\ Len(im.rows) = n /\ \A i \in 1..n : im.rows[i] = new[i].level
    <3>1. /\ import[c].open /\ import[c].archive = p.raw /\ p.raw.kind # "foreign"
          /\ Len(held) = n - 1 /\ \A i \in 1..(n - 1) : held[i] = old[i].level
      BY <1>3, <1>12, <1>14, <2>1, <2>4 DEF LoadOk
    <3>2. held \in Seq(Levels)
      BY <1>3 DEF ImportRecord
    <3>3. im.rows = Append(held, row.level) /\ im.open /\ im.archive = p.raw
      BY <1>3, <1>16, <3>1 DEF ImportRecord
    <3>4. /\ Len(im.rows) = n /\ im.rows[n] = row.level
          /\ \A i \in 1..(n - 1) : im.rows[i] = held[i]
      <4> HIDE DEF held
      <4> QED
        BY <1>10, <3>1, <3>2, <3>3, AddFact
    <3> QED
      BY <1>10, <1>12, <3>1, <3>3, <3>4
  <2> QED
    BY <1>8, <1>12, <1>14, <2>2, <2>3, <2>4 DEF LoadOk
<1>20. ~disabled' => Good(p, uses', sprite', lives')
  <2>1. ASSUME NEW i \in 1..n PROVE new[i].ctx = Unowned
    <3>1. PICK r \in Row : r = record[c].rows[i]
      BY <1>3, <1>8, RecordFact
    <3>2. new[i] = Effect(r.use, r.level, Unowned, r.whole)
      BY <1>12, <1>14, <1>19, <3>1 DEF LoadOk
    <3> QED
      BY <3>2 DEF Effect
  <2> QED
    BY <1>12, <1>14, <2>1 DEF Good, Belongs, IsLive
<1>21. LiveOk(p, uses', changes', disabled')
  BY <1>14 DEF LiveOk, IsLive
<1>22. /\ p.error => disabled'
       /\ c \in strangers => StrangerOk(c, p, record[c], export')
  <2>1. p.error => disabled'
    BY <1>3, <1>7, <1>14 DEF Sound
  <2>2. ASSUME c \in strangers PROVE StrangerOk(c, p, record[c], export')
    <3>1. StrangerOk(c, sprite[c], record[c], export) /\ export' = export
      BY <1>3, <1>7, <2>2 DEF Sound
    <3> QED
      BY <1>3, <1>14, <3>1 DEF StrangerOk
  <2> QED
    BY <2>1, <2>2
<1>23. ScopesOk' /\ scopes' \in Seq(Chars) /\ ExportOk'
  <2>1. ScopesOk' /\ scopes' \in Seq(Chars)
    BY <1>3, <1>7, <1>14, <1>15, ScopesSame
  <2> QED
    BY <1>3, <1>7, <2>1 DEF ExportOk
<1>24. /\ Grows(uses, uses') /\ changes <= changes' /\ changes' \in Nat /\ uses' \in Seq(Chars)
       /\ disabled' \in BOOLEAN /\ (disabled => disabled') /\ export' \in {export, NoExport}
       /\ export' \in ExportRecord
       /\ p.stage # "none" /\ sprite[c].stage # "none"
       /\ UNCHANGED <<record, lives, strangers>>
  BY <1>3, <1>4, <1>7, <1>14, Same DEF Typed
<1>25. LoadOk(p, record[c], import'[c], disabled')
  BY <1>7, <1>18, <1>19
<1> QED
  BY <1>3, <1>14, <1>15, <1>18, <1>20, <1>21, <1>22, <1>23, <1>24, <1>25, SpriteStep
LEMMA ImportKeeps == ASSUME IInv, Import PROVE IInv'
<1>1. scopes # <<>>
  BY DEF Import
<1>2. PICK c : c = Loading
  OBVIOUS
<1>3. /\ c \in Chars /\ sprite[c].stage = "decoding" /\ export = NoExport /\ sprite[c] \in Sprite
      /\ Sound(c) /\ record[c] \in CharacterRecord /\ import[c] \in ImportRecord
  BY <1>1, <1>2, LoadingFact
<1>4. /\ Typed /\ sprite \in [Chars -> Sprite] /\ import \in [Chars -> ImportRecord]
      /\ uses \in Seq(Chars) /\ changes \in Nat /\ disabled \in BOOLEAN
  BY DEF IInv, Typed
<1>5. PICK env \in EnvelopeRecord : env = record[c].envelope
  BY <1>3, RecordFact
<1>6. /\ env # NoEnvelope /\ sprite[c].raw = NoEnvelope
      /\ UNCHANGED <<record, uses, scopes, export, changes, lives, strangers, restarts>>
  BY <1>2, <1>5 DEF Import
<1>7. PICK p \in Sprite, im \in ImportRecord :
         /\ sprite' = [sprite EXCEPT ![c] = p] /\ import' = [import EXCEPT ![c] = im]
         /\ p.raw = env /\ p.effects = sprite[c].effects /\ p.life = sprite[c].life
         /\ p.uuid = sprite[c].uuid /\ p.stage = "decoding"
         /\ disabled' \in BOOLEAN /\ (disabled => disabled')
         /\ p.error => sprite[c].error \/ disabled'
         /\ env = Foreign => p.error
         /\ ~disabled' => /\ env.kind # "foreign" /\ im.archive = env
                          /\ im.open = import[c].open /\ im.rows = import[c].rows
  <2>1. CASE env.kind = "foreign"
    <3>1. sprite' = [sprite EXCEPT ![c].raw = env, ![c].error = TRUE] /\ disabled' = TRUE /\ import' = import
      BY <1>2, <1>5, <2>1 DEF Import, Fail
    <3> DEFINE p == [sprite[c] EXCEPT !.raw = env, !.error = TRUE]
    <3>2. /\ p \in Sprite /\ p.raw = env /\ p.effects = sprite[c].effects /\ p.life = sprite[c].life
          /\ p.uuid = sprite[c].uuid /\ p.stage = "decoding" /\ p.error
      BY <1>3, <1>5 DEF Sprite
    <3>3. sprite' = [sprite EXCEPT ![c] = p] /\ import' = [import EXCEPT ![c] = import[c]]
      BY <1>3, <1>4, <3>1
    <3> QED
      BY <1>3, <3>1, <3>2, <3>3
  <2>2. CASE env.kind # "foreign" /\ disabled
    <3>1. sprite' = [sprite EXCEPT ![c].raw = env, ![c].error = TRUE] /\ disabled' = disabled /\ import' = import
      BY <1>2, <1>5, <2>2 DEF Import, NoFail, Healthy
    <3> DEFINE p == [sprite[c] EXCEPT !.raw = env, !.error = TRUE]
    <3>2. /\ p \in Sprite /\ p.raw = env /\ p.effects = sprite[c].effects /\ p.life = sprite[c].life
          /\ p.uuid = sprite[c].uuid /\ p.stage = "decoding" /\ p.error
      BY <1>3, <1>5 DEF Sprite
    <3>3. sprite' = [sprite EXCEPT ![c] = p] /\ import' = [import EXCEPT ![c] = import[c]]
      BY <1>3, <1>4, <3>1
    <3>4. disabled' \in BOOLEAN /\ disabled'
      BY <1>4, <2>2, <3>1
    <3> QED
      BY <1>3, <3>2, <3>3, <3>4
  <2>3. CASE env.kind # "foreign" /\ ~disabled
    <3>1. /\ sprite' = [sprite EXCEPT ![c].raw = env] /\ disabled' = disabled
          /\ import' = [import EXCEPT ![c].archive = env]
      BY <1>2, <1>5, <2>3 DEF Import, NoFail, Healthy
    <3> DEFINE p == [sprite[c] EXCEPT !.raw = env]
               im == [import[c] EXCEPT !.archive = env]
    <3>2. /\ p \in Sprite /\ p.raw = env /\ p.effects = sprite[c].effects /\ p.life = sprite[c].life
          /\ p.uuid = sprite[c].uuid /\ p.stage = "decoding" /\ p.error = sprite[c].error
      BY <1>3, <1>5 DEF Sprite
    <3>3. im \in ImportRecord /\ im.archive = env /\ im.open = import[c].open /\ im.rows = import[c].rows
      BY <1>3, <1>5 DEF ImportRecord
    <3>4. sprite' = [sprite EXCEPT ![c] = p] /\ import' = [import EXCEPT ![c] = im]
      BY <1>3, <1>4, <3>1
    <3>5. env # Foreign /\ disabled' \in BOOLEAN /\ (disabled => disabled')
      BY <1>4, <2>3, <3>1, ConstantFact
    <3> HIDE DEF p, im
    <3> QED
      BY <2>3, <3>2, <3>3, <3>4, <3>5
  <2> QED
    BY <1>4, <2>1, <2>2, <2>3
<1>8. import' \in [Chars -> ImportRecord] /\ import'[c] = im /\ \A d \in Chars \ {c} : import'[d] = import[d]
  BY <1>3, <1>4, <1>7
<1>9. LoadOk(sprite[c], record[c], import[c], disabled)
  BY <1>3 DEF Sound
<1>10. LoadOk(p, record[c], import'[c], disabled')
  BY <1>3, <1>5, <1>7, <1>8, <1>9 DEF LoadOk
<1>11. ~disabled' => Good(p, uses', sprite', lives')
  <2>1. ASSUME NEW i \in 1..Len(p.effects) PROVE p.effects[i].ctx = Unowned
    <3>1. p.effects[i] = Effect(record[c].rows[i].use, record[c].rows[i].level, Unowned, record[c].rows[i].whole)
      BY <1>3, <1>7, <1>9, <2>1 DEF LoadOk
    <3> QED
      BY <3>1 DEF Effect
  <2> QED
    BY <1>7, <2>1 DEF Good, Belongs, IsLive
<1>12. LiveOk(p, uses', changes', disabled')
  BY <1>7 DEF LiveOk, IsLive
<1>13. p.error => disabled'
  BY <1>3, <1>7 DEF Sound
<1>14. ASSUME c \in strangers PROVE StrangerOk(c, p, record[c], export')
  <2>1. StrangerOk(c, sprite[c], record[c], export) /\ export' = export /\ env = Foreign
    BY <1>3, <1>5, <1>6, <1>14 DEF Sound, StrangerOk
  <2> QED
    BY <1>3, <1>7, <2>1 DEF StrangerOk
<1>15. ScopesOk' /\ scopes' \in Seq(Chars)
  BY <1>3, <1>6, <1>7, ScopesSame
<1>16. ExportOk' /\ export' \in {export, NoExport} /\ export' \in ExportRecord
  BY <1>3, <1>4, <1>6 DEF ExportOk, Typed
<1>17. /\ Grows(uses, uses') /\ changes <= changes' /\ changes' \in Nat /\ uses' \in Seq(Chars)
       /\ p.stage # "none" /\ sprite[c].stage # "none"
       /\ UNCHANGED <<record, lives, strangers>>
  BY <1>3, <1>4, <1>6, <1>7, Same
<1> QED
  BY <1>3, <1>7, <1>8, <1>10, <1>11, <1>12, <1>13, <1>14, <1>15, <1>16, <1>17, SpriteStep

LEMMA DecodedKeeps == ASSUME IInv, Decoded PROVE IInv'
<1>1. scopes # <<>>
  BY DEF Decoded
<1>2. PICK c : c = Loading
  OBVIOUS
<1>3. /\ c \in Chars /\ sprite[c].stage = "decoding" /\ export = NoExport /\ sprite[c] \in Sprite
      /\ Sound(c) /\ record[c] \in CharacterRecord
  BY <1>1, <1>2, LoadingFact
<1>4. /\ Typed /\ sprite \in [Chars -> Sprite] /\ Distinct /\ ScopesOk /\ scopes \in Seq(Chars)
      /\ uses \in Seq(Chars) /\ changes \in Nat /\ lives \in Nat
  BY DEF IInv, Typed
<1>5. /\ Len(sprite[c].effects) = Len(record[c].rows) /\ record[c].envelope = sprite[c].raw
      /\ scopes' = Front(scopes) /\ sprite' = [sprite EXCEPT ![c].stage = "decoded"]
      /\ UNCHANGED <<record, uses, import, export, disabled, changes, lives, strangers, restarts>>
  BY <1>2 DEF Decoded
<1>6. PICK p : p = [sprite[c] EXCEPT !.stage = "decoded"]
  OBVIOUS
<1>7. /\ p \in Sprite /\ p.effects = sprite[c].effects /\ p.life = sprite[c].life
      /\ p.uuid = sprite[c].uuid /\ p.stage = "decoded" /\ p.raw = sprite[c].raw /\ p.error = sprite[c].error
  BY <1>3, <1>6 DEF Sprite
<1>8. sprite' = [sprite EXCEPT ![c] = p]
  BY <1>3, <1>4, <1>5, <1>6
<1>9. sprite' \in [Chars -> Sprite] /\ sprite'[c] = p /\ \A d \in Chars \ {c} : sprite'[d] = sprite[d]
  BY <1>3, <1>4, <1>7, <1>8, OneSprite
<1>10. /\ Front(scopes) \in Seq(Chars) /\ Len(Front(scopes)) = Len(scopes) - 1
       /\ Len(scopes) \in Nat \ {0} /\ c = scopes[Len(scopes)]
       /\ \A i \in 1..(Len(scopes) - 1) : Front(scopes)[i] = scopes[i]
  BY <1>1, <1>2, <1>4, FrontFact DEF Loading
<1>11. Typed'
  BY <1>4, <1>5, <1>9, <1>10 DEF Typed
<1>12. ScopesOk'
  <2>1. ASSUME NEW i \in 1..(Len(scopes) - 1)
        PROVE  /\ i \in 1..Len(scopes) /\ scopes'[i] = scopes[i] /\ scopes[i] # c /\ scopes[i] \in Chars
    <3>1. i \in 1..Len(scopes) /\ i # Len(scopes) /\ Len(scopes) \in 1..Len(scopes)
      BY <1>10
    <3> QED
      BY <1>4, <1>5, <1>10, <3>1, SeqFact DEF ScopesOk
  <2>2. Len(scopes') = Len(scopes) - 1
    BY <1>5, <1>10
  <2>3. \A i \in 1..Len(scopes') : sprite'[scopes'[i]].stage = "decoding"
    BY <1>4, <1>9, <2>1, <2>2 DEF ScopesOk
  <2>4. \A i, j \in 1..Len(scopes') : scopes'[i] = scopes'[j] => i = j
    BY <1>4, <2>1, <2>2 DEF ScopesOk
  <2> QED
    BY <2>3, <2>4 DEF ScopesOk
<1>13. Distinct'
  BY <1>3, <1>4, <1>5, <1>7, <1>9 DEF Distinct, LivesOk
<1>14. Steady(sprite, sprite', lives)
  BY <1>7, <1>9 DEF Steady
<1>15. Sound(c)'
  <2>1. LoadOk(p, record[c], import[c], disabled)
    BY <1>3, <1>5, <1>7 DEF Sound, LoadOk
  <2>2. ASSUME ~disabled PROVE Good(p, uses, sprite', lives)
    <3>1. Good(sprite[c], uses, sprite, lives)
      BY <1>3, <2>2 DEF Sound
    <3>2. Good(p, uses, sprite, lives) /\ ~IsLive(p)
      BY <1>7, <3>1, GoodSame DEF IsLive
    <3>3. Grows(uses, uses) /\ lives <= lives
      BY <1>4, Same
    <3> QED
      BY <1>4, <1>7, <1>9, <1>14, <3>2, <3>3, GoodGrows
  <2>3. LiveOk(p, uses, changes, disabled)
    BY <1>7 DEF LiveOk, IsLive
  <2>4. ASSUME c \in strangers PROVE StrangerOk(c, p, record[c], export)
    BY <1>3, <1>5, <1>7, <2>4 DEF Sound, StrangerOk
  <2>5. p.error => disabled
    BY <1>3, <1>7 DEF Sound
  <2>6. RecordOk(record[c], uses, changes)
    BY <1>3 DEF Sound
  <2> QED
    BY <1>5, <1>9, <2>1, <2>2, <2>3, <2>4, <2>5, <2>6 DEF Sound
<1>16. ExportOk' /\ export' \in {export, NoExport}
  BY <1>3, <1>5 DEF ExportOk
<1>17. /\ Grows(uses, uses') /\ lives <= lives' /\ changes <= changes' /\ (disabled => disabled')
       /\ strangers' = strangers
       /\ \A d \in Chars \ {c} : sprite'[d] = sprite[d] /\ record'[d] = record[d] /\ import'[d] = import[d]
  BY <1>4, <1>5, <1>9, Same
<1> QED
  BY <1>3, <1>11, <1>12, <1>13, <1>14, <1>15, <1>16, <1>17, StepKeeps
LEMMA BoundBare ==
    ASSUME IInv, NEW c \in Chars, Calm, sprite[c].stage = "decoded",
           sprite' = [sprite EXCEPT ![c].stage = "bound"], disabled' = TRUE,
           UNCHANGED <<record, uses, scopes, import, export, changes, lives, strangers>>
    PROVE  IInv'
<1>1. /\ Typed /\ sprite \in [Chars -> Sprite] /\ sprite[c] \in Sprite /\ Sound(c)
      /\ uses \in Seq(Chars) /\ changes \in Nat /\ record[c] \in CharacterRecord
      /\ export = NoExport /\ scopes = <<>>
  BY DEF IInv, Typed, EachSound, Calm
<1>2. PICK p : p = [sprite[c] EXCEPT !.stage = "bound"]
  OBVIOUS
<1>3. /\ p \in Sprite /\ p.effects = sprite[c].effects /\ p.life = sprite[c].life
      /\ p.uuid = sprite[c].uuid /\ p.stage = "bound" /\ p.raw = sprite[c].raw /\ p.error = sprite[c].error
  BY <1>1, <1>2 DEF Sprite
<1>4. sprite' = [sprite EXCEPT ![c] = p]
  BY <1>1, <1>2
<1>5. LiveOk(p, uses', changes', disabled')
  <2>1. LoadOk(sprite[c], record[c], import[c], disabled) /\ RecordOk(record[c], uses, changes)
    BY <1>1 DEF Sound
  <2>2. /\ \A i \in 1..Len(p.effects) : p.effects[i].use <= Len(uses)
        /\ Tells(p.raw, changes, p.effects, uses)
    BY <1>1, <1>3, <2>1, LoadTells
  <2> QED
    BY <2>2 DEF LiveOk
<1>6. LoadOk(p, record[c], import'[c], disabled')
  BY <1>3 DEF LoadOk
<1>7. c \in strangers => StrangerOk(c, p, record[c], export')
  BY <1>1, <1>3 DEF Sound, StrangerOk
<1>8. ScopesOk' /\ scopes' \in Seq(Chars) /\ ExportOk'
  BY <1>1, NoScopes DEF ExportOk
<1>9. /\ Grows(uses, uses') /\ changes <= changes' /\ changes' \in Nat /\ uses' \in Seq(Chars)
      /\ disabled' \in BOOLEAN /\ (disabled => disabled') /\ import' \in [Chars -> ImportRecord]
      /\ export' \in {export, NoExport} /\ export' \in ExportRecord
      /\ \A d \in Chars \ {c} : import'[d] = import[d]
      /\ p.stage # "none" /\ sprite[c].stage # "none"
  BY <1>1, <1>3, Same DEF Typed
<1> QED
  BY <1>3, <1>4, <1>5, <1>6, <1>7, <1>8, <1>9, SpriteStep

LEMMA BindFailsKeeps == ASSUME IInv, NEW c \in Chars, BindFails(c) PROVE IInv'
BY BoundBare DEF BindFails, Fail

LEMMA LoadedKeeps == ASSUME IInv, NEW c \in Chars, Loaded(c) PROVE IInv'
<1>1. /\ Typed /\ sprite \in [Chars -> Sprite] /\ sprite[c] \in Sprite /\ Sound(c)
      /\ uses \in Seq(Chars) /\ changes \in Nat /\ lives \in Nat /\ disabled \in BOOLEAN
  BY DEF IInv, Typed, EachSound
<1>2. /\ export = NoExport /\ scopes = <<>> /\ sprite[c].stage = "bound"
      /\ UNCHANGED <<record, uses, scopes, import, export, disabled, changes, lives, strangers, restarts>>
  BY DEF Loaded, Calm
<1>3. PICK raw \in EnvelopeRecord :
         raw = IF ~sprite[c].error /\ sprite[c].finished /\ ~disabled THEN NoEnvelope ELSE sprite[c].raw
  BY <1>1, SpriteFact, ConstantFact
<1>4. PICK p : p = [sprite[c] EXCEPT !.stage = "live", !.raw = raw]
  OBVIOUS
<1>5. /\ p \in Sprite /\ p.effects = sprite[c].effects /\ p.life = sprite[c].life
      /\ p.uuid = sprite[c].uuid /\ p.stage = "live" /\ p.raw = raw /\ p.error = sprite[c].error
      /\ p.finished = sprite[c].finished
  BY <1>1, <1>3, <1>4 DEF Sprite
<1>6. sprite' = [sprite EXCEPT ![c] = p]
  BY <1>1, <1>3, <1>4 DEF Loaded, Healthy
<1>7. sprite' \in [Chars -> Sprite] /\ \A d \in Chars : sprite'[d].life = sprite[d].life /\ sprite'[d].uuid = sprite[d].uuid
  BY <1>1, <1>5, <1>6, OneSprite
<1>8. /\ \A i \in 1..Len(p.effects) : p.effects[i].use <= Len(uses)
      /\ Tells(sprite[c].raw, changes, p.effects, uses)
      /\ ~disabled => p.uuid /\ p.finished
      /\ sprite[c].error => disabled
  BY <1>1, <1>2, <1>5 DEF Sound, LiveOk, IsLive
<1>9. LiveOk(p, uses', changes', disabled')
  <2>1. ~disabled => raw = NoEnvelope
    BY <1>3, <1>5, <1>8
  <2>2. Tells(raw, changes, p.effects, uses)
    BY <1>3, <1>8, NoEnvelopeTells
  <2> QED
    BY <1>2, <1>5, <1>8, <2>1, <2>2 DEF LiveOk
<1>10. ~disabled' => Good(p, uses', sprite', lives')
  <2> SUFFICES ASSUME ~disabled PROVE Good(p, uses, sprite', lives)
    BY <1>2
  <2>1. Good(sprite[c], uses, sprite, lives) /\ IsLive(sprite[c])
    BY <1>1, <1>2 DEF Sound, IsLive
  <2>2. Good(p, uses, sprite, lives)
    BY <1>5, <2>1, GoodSame
  <2>3. Grows(uses, uses) /\ Steady(sprite, sprite', lives) /\ lives <= lives
    BY <1>1, <1>7, Same DEF Steady
  <2> QED
    BY <1>1, <1>5, <1>7, <1>8, <2>2, <2>3, GoodGrows
<1>11. LoadOk(p, record[c], import'[c], disabled')
  BY <1>5 DEF LoadOk
<1>12. ASSUME c \in strangers PROVE StrangerOk(c, p, record[c], export')
  <2>1. StrangerOk(c, sprite[c], record[c], export) /\ export' = export
    BY <1>1, <1>2, <1>12 DEF Sound
  <2>2. sprite[c].raw = Foreign /\ sprite[c].error /\ raw = Foreign
    BY <1>2, <1>3, <2>1 DEF StrangerOk
  <2> QED
    BY <1>2, <1>5, <2>1, <2>2 DEF StrangerOk
<1>13. ScopesOk' /\ scopes' \in Seq(Chars) /\ ExportOk'
  BY <1>2, NoScopes DEF ExportOk
<1>14. /\ Grows(uses, uses') /\ changes <= changes' /\ changes' \in Nat /\ uses' \in Seq(Chars)
       /\ disabled' \in BOOLEAN /\ (disabled => disabled') /\ import' \in [Chars -> ImportRecord]
       /\ export' \in {export, NoExport} /\ export' \in ExportRecord
       /\ \A d \in Chars \ {c} : import'[d] = import[d]
       /\ p.stage # "none" /\ sprite[c].stage # "none"
       /\ UNCHANGED <<record, lives, strangers>>
  BY <1>1, <1>2, <1>5, Same DEF Typed
<1>15. p.error => disabled'
  BY <1>2, <1>5, <1>8
<1> QED
  BY <1>5, <1>6, <1>9, <1>10, <1>11, <1>12, <1>13, <1>14, <1>15, SpriteStep

\* A sprite that is not there says nothing.
LEMMA NoSpriteFact ==
    ASSUME NEW us, NEW s, NEW n, NEW r, NEW im, NEW off, NEW now
    PROVE  /\ Good(NoSprite, us, s, n) /\ LoadOk(NoSprite, r, im, off) /\ LiveOk(NoSprite, us, now, off)
           /\ \A c : r.envelope = Foreign => StrangerOk(c, NoSprite, r, NoExport)
<1>1. /\ NoSprite.stage = "none" /\ NoSprite.raw = NoEnvelope /\ Len(NoSprite.effects) = 0
      /\ NoEnvelope # Foreign
  BY ConstantFact
<1> QED
  BY <1>1 DEF Good, LoadOk, LiveOk, IsLive, StrangerOk

LEMMA DestroyedKeeps == ASSUME IInv, NEW c \in Chars, Destroyed(c) PROVE IInv'
<1>1. /\ Typed /\ sprite \in [Chars -> Sprite] /\ import \in [Chars -> ImportRecord] /\ Distinct
      /\ Sound(c) /\ uses \in Seq(Chars) /\ changes \in Nat /\ lives \in Nat /\ disabled \in BOOLEAN
  BY DEF IInv, Typed, EachSound
<1>2. /\ export = NoExport /\ scopes = <<>> /\ sprite' = [sprite EXCEPT ![c] = NoSprite]
      /\ import' = [import EXCEPT ![c] = NoImport]
      /\ UNCHANGED <<record, uses, scopes, export, disabled, changes, lives, strangers, restarts>>
  BY DEF Destroyed, Calm
<1>3. sprite' \in [Chars -> Sprite] /\ sprite'[c] = NoSprite /\ \A d \in Chars \ {c} : sprite'[d] = sprite[d]
  BY <1>1, <1>2, OneSprite, ConstantFact
<1>4. import' \in [Chars -> ImportRecord] /\ \A d \in Chars \ {c} : import'[d] = import[d]
  BY <1>1, <1>2, ConstantFact
<1>5. Typed'
  BY <1>1, <1>2, <1>3, <1>4 DEF Typed
<1>6. NoSprite.life = 0 /\ NoSprite.stage = "none" /\ ~NoSprite.uuid /\ ~NoSprite.error
  BY ConstantFact
<1>7. Steady(sprite, sprite', lives)
  BY <1>3, <1>6 DEF Steady
<1>8. Distinct'
  BY <1>1, <1>2, <1>3, <1>6 DEF Distinct, LivesOk
<1>9. Sound(c)'
  <2>1. RecordOk(record[c], uses, changes) /\ (c \in strangers => record[c].envelope = Foreign)
    BY <1>1 DEF Sound, StrangerOk
  <2> QED
    BY <1>2, <1>3, <1>6, <2>1, NoSpriteFact DEF Sound
<1>10. ScopesOk' /\ ExportOk' /\ export' \in {export, NoExport}
  BY <1>2, NoScopes DEF ExportOk
<1>11. /\ Grows(uses, uses') /\ lives <= lives' /\ changes <= changes' /\ (disabled => disabled')
       /\ strangers' = strangers
       /\ \A d \in Chars \ {c} : sprite'[d] = sprite[d] /\ record'[d] = record[d] /\ import'[d] = import[d]
  BY <1>1, <1>2, <1>3, <1>4, Same
<1> QED
  BY <1>5, <1>7, <1>8, <1>9, <1>10, <1>11, StepKeeps

LEMMA RestartKeeps == ASSUME IInv, Restart PROVE IInv'
<1>1. /\ Typed /\ EachSound /\ sprite' = [c \in Chars |-> NoSprite] /\ scopes' = <<>>
      /\ import' = [c \in Chars |-> NoImport] /\ export' = NoExport /\ disabled' = FALSE /\ lives' = 0
      /\ UNCHANGED <<record, uses, changes, strangers>>
  BY DEF IInv, Restart
<1>2. /\ NoSprite.life = 0 /\ NoSprite.stage = "none" /\ ~NoSprite.uuid /\ ~NoSprite.error
      /\ NoSprite \in Sprite /\ NoImport \in ImportRecord /\ NoExport \in ExportRecord
  BY ConstantFact
<1>3. Typed'
  <2>1. sprite' \in [Chars -> Sprite] /\ import' \in [Chars -> ImportRecord]
    BY <1>1, <1>2
  <2>2. scopes' \in Seq(Chars)
    BY <1>1, NoScopes
  <2>3. lives' \in Nat /\ export' \in ExportRecord
    BY <1>1, <1>2
  <2>4. disabled' \in BOOLEAN
    BY <1>1
  <2> QED
    BY <1>1, <2>1, <2>2, <2>3, <2>4 DEF Typed
<1>4. Distinct'
  BY <1>1, <1>2 DEF Distinct, LivesOk
<1>5. ScopesOk' /\ ExportOk'
  BY <1>1, NoScopes DEF ExportOk
<1>6. ASSUME NEW c \in Chars PROVE Sound(c)'
  <2>1. RecordOk(record[c], uses, changes) /\ (c \in strangers => record[c].envelope = Foreign)
    BY <1>1 DEF EachSound, Sound, StrangerOk
  <2>2. sprite'[c] = NoSprite
    BY <1>1
  <2> QED
    BY <1>1, <1>2, <2>1, <2>2, NoSpriteFact DEF Sound
<1> QED
  BY <1>3, <1>4, <1>5, <1>6 DEF IInv, EachSound
-----------------------------------------------------------------------------
(* A character gets its UUID: effects find their reader again, and those of *)
(* the character their ancestry.                                            *)

ReboundEffect(e, c) ==
    IF e.ctx # Unowned /\ NeedsRebind(e.ctx, c)
    THEN [e EXCEPT !.ctx.reader = sprite[c].life, !.ctx.uuid = c] ELSE e

LEMMA ReboundEffectFact ==
    ASSUME IInv, NEW c \in Chars, NEW e \in EffectRecord, Belongs(e, uses, sprite, lives),
           NEW x, x = ReboundEffect(e, c),
           NEW t \in [Chars -> Sprite],
           \A d \in Chars : t[d].life = sprite[d].life /\ (t[d].uuid => sprite[d].uuid \/ d = c)
    PROVE  /\ x \in EffectRecord /\ x.use = e.use /\ x.level = e.level /\ x.whole = e.whole
           /\ e.ctx = Unowned => x = e
           /\ Belongs(x, uses, t, lives)
           /\ e.use <= Len(uses) /\ Kept(e, uses, sprite) => Kept(x, uses, t)
<1>1. /\ uses \in Seq(Chars) /\ Len(uses) \in Nat /\ \A n \in 1..Len(uses) : uses[n] \in Chars
      /\ sprite[c].life \in Nat /\ sprite[c].life <= lives /\ Distinct
      /\ e.use \in Nat /\ e.ctx \in Ancestry /\ e.ctx.reader \in Nat
  BY SeqFact, SpriteFact DEF IInv, Typed, Distinct, LivesOk, EffectRecord, Ancestry
<1>2. CASE e.ctx = Unowned
  <2>1. x = e
    BY <1>2 DEF ReboundEffect
  <2> QED
    BY <1>2, <2>1 DEF Belongs, Kept, Unowned
<1>3. CASE e.ctx # Unowned
  <2> DEFINE u == uses[e.use]
  <2>1. /\ e.use \in 1..Len(uses) /\ u \in Chars /\ e.ctx.use = e.use /\ e.ctx.uuid = u
        /\ e.ctx.reader <= lives
        /\ \A d \in Chars : e.ctx.reader # 0 /\ sprite[d].life = e.ctx.reader => d = u
    BY <1>1, <1>3 DEF Belongs
  <2>2. e.ctx.uuid # None
    BY <2>1, ScrollArchiveAssumption
  <2>3. CASE NeedsRebind(e.ctx, c)
    <3>1. u = c
      BY <2>1, <2>2, <2>3 DEF NeedsRebind
    <3>2. x = [e EXCEPT !.ctx.reader = sprite[c].life, !.ctx.uuid = c]
      BY <1>3, <2>3 DEF ReboundEffect
    <3>3. PICK y : y = [e.ctx EXCEPT !.reader = sprite[c].life, !.uuid = c]
      OBVIOUS
    <3>4. y \in Ancestry /\ y.use = e.ctx.use /\ y.reader = sprite[c].life /\ y.uuid = c
      BY <1>1, <3>3 DEF Ancestry
    <3>5. x = [e EXCEPT !.ctx = y]
      BY <3>2, <3>3 DEF EffectRecord
    <3>6. x \in EffectRecord /\ x.use = e.use /\ x.level = e.level /\ x.whole = e.whole /\ x.ctx = y
      BY <3>4, <3>5 DEF EffectRecord
    <3>7. Belongs(x, uses, t, lives)
      BY <1>1, <2>1, <3>1, <3>4, <3>6 DEF Belongs, Distinct, LivesOk
    <3>8. Kept(x, uses, t)
      BY <2>1, <3>1, <3>4, <3>6 DEF Kept
    <3> QED
      BY <1>3, <3>6, <3>7, <3>8
  <2>4. CASE ~NeedsRebind(e.ctx, c)
    <3>1. x = e
      BY <2>4 DEF ReboundEffect
    <3>2. Belongs(e, uses, t, lives)
      BY <2>1 DEF Belongs
    <3>3. u = c => e.ctx.reader = sprite[c].life
      <4>1. u = c => LiveLife(e.ctx.reader)
        BY <2>1, <2>4 DEF NeedsRebind
      <4> QED
        BY <2>1, <4>1 DEF LiveLife
    <3>4. Kept(e, uses, sprite) => Kept(e, uses, t)
      BY <2>1, <3>3 DEF Kept
    <3> QED
      BY <3>1, <3>2, <3>4
  <2> QED
    BY <2>3, <2>4
<1> QED
  BY <1>2, <1>3

LEMMA ReboundFact ==
    ASSUME IInv, NEW c \in Chars, NEW p \in Sprite, Good(p, uses, sprite, lives),
           NEW new, new = Rebound(p.effects, c),
           NEW t \in [Chars -> Sprite],
           \A d \in Chars : t[d].life = sprite[d].life /\ (t[d].uuid => sprite[d].uuid \/ d = c)
    PROVE  /\ new \in Seq(EffectRecord) /\ Len(new) = Len(p.effects)
           /\ \A i \in 1..Len(p.effects) :
                 /\ new[i].use = p.effects[i].use /\ new[i].level = p.effects[i].level
                 /\ p.effects[i].ctx = Unowned => new[i] = p.effects[i]
                 /\ Belongs(new[i], uses, t, lives)
                 /\ p.effects[i].use <= Len(uses) /\ Kept(p.effects[i], uses, sprite) => Kept(new[i], uses, t)
<1> DEFINE list == p.effects
<1>1. Len(list) \in Nat /\ DOMAIN list = 1..Len(list) /\ \A i \in 1..Len(list) : list[i] \in EffectRecord
  BY SpriteFact
<1>2. new = [i \in DOMAIN list |-> ReboundEffect(list[i], c)]
  BY Zenon DEF Rebound, ReboundEffect
<1>3. new = [i \in 1..Len(list) |-> new[i]] /\ \A i \in 1..Len(list) : new[i] = ReboundEffect(list[i], c)
  BY <1>1, <1>2
<1>4. ASSUME NEW i \in 1..Len(list)
      PROVE  /\ new[i] \in EffectRecord /\ new[i].use = list[i].use /\ new[i].level = list[i].level
             /\ list[i].ctx = Unowned => new[i] = list[i]
             /\ Belongs(new[i], uses, t, lives)
             /\ list[i].use <= Len(uses) /\ Kept(list[i], uses, sprite) => Kept(new[i], uses, t)
  <2>1. list[i] \in EffectRecord /\ Belongs(list[i], uses, sprite, lives)
    BY <1>1 DEF Good
  <2> HIDE DEF list
  <2> QED
    BY <1>3, <2>1, ReboundEffectFact
<1> HIDE DEF list
<1>5. new \in Seq(EffectRecord) /\ Len(new) = Len(list)
  BY <1>1, <1>3, <1>4, MadeFact
<1> QED
  BY <1>4, <1>5 DEF list
\* What an archive says goes to the effects it is about, and to all of them.
RestoredEffect(s, e, saved) ==
    IF saved = Unsaved THEN e ELSE [e EXCEPT !.ctx = RestoredContext(s, saved)]

LEMMA RestoredEffectFact ==
    ASSUME IInv, NEW t \in [Chars -> Sprite], \A d \in Chars : t[d].life = sprite[d].life,
           NEW e \in EffectRecord, e.ctx = Unowned,
           NEW saved \in [use : Nat, uuid : Chars \cup {None}, level : Nat],
           saved # Unsaved => /\ e.use \in 1..Len(uses)
                              /\ saved.use = e.use /\ saved.uuid = uses[e.use],
           e.whole /\ e.use # 0 => saved.use = e.use,
           NEW x, x = RestoredEffect(t, e, saved)
    PROVE  /\ x \in EffectRecord /\ x.use = e.use
           /\ Belongs(x, uses, t, lives) /\ Kept(x, uses, t)
<1>1. CASE saved = Unsaved
  <2>1. x = e
    BY <1>1 DEF RestoredEffect
  <2>2. saved.use = 0
    BY <1>1 DEF Unsaved
  <2> QED
    BY <2>1, <2>2 DEF Belongs, Kept
<1>2. CASE saved # Unsaved
  <2> DEFINE u == uses[e.use]
  <2>1. uses \in Seq(Chars) /\ Distinct /\ lives \in Nat
    BY DEF IInv, Typed
  <2>2. u \in Chars /\ e.use \in 1..Len(uses) /\ saved.use = e.use /\ saved.uuid = u
    BY <1>2, <2>1, SeqFact
  <2>3. t[u].life \in Nat /\ t[u].life <= lives
    BY <2>1, <2>2, SpriteFact DEF Distinct, LivesOk
  <2>4. PICK n : n = LifeOf(t, u)
    OBVIOUS
  <2>5. n \in {0, t[u].life} /\ (t[u].uuid => n = t[u].life) /\ n \in Nat /\ n <= lives
    BY <2>1, <2>2, <2>3, <2>4 DEF LifeOf
  <2>6. PICK y : y = RestoredContext(t, saved)
    OBVIOUS
  <2>7. y \in Ancestry /\ y.use = saved.use /\ y.reader = n /\ y.uuid = u
    BY <2>2, <2>4, <2>5, <2>6 DEF RestoredContext, Ancestry
  <2>8. x = [e EXCEPT !.ctx = y]
    BY <1>2, <2>6 DEF RestoredEffect
  <2>9. x \in EffectRecord /\ x.use = e.use /\ x.ctx = y /\ x.whole = e.whole
    BY <2>7, <2>8 DEF EffectRecord
  <2>10. \A d \in Chars : n # 0 /\ t[d].life = n => d = u
    BY <2>1, <2>2, <2>5 DEF Distinct, LivesOk
  <2>11. Belongs(x, uses, t, lives)
    BY <2>2, <2>5, <2>7, <2>9, <2>10 DEF Belongs
  <2>12. Kept(x, uses, t)
    BY <2>2, <2>5, <2>7, <2>9 DEF Kept
  <2> QED
    BY <2>9, <2>11, <2>12
<1> QED
  BY <1>1, <1>2

\* The envelope of a character is about the effects that were decoded.
Due(c) ==
    /\ import[c].archive # NoEnvelope
    /\ Current(import[c].archive, import[c].rows, record[c].time)

LEMMA RestoreFact ==
    ASSUME IInv, NEW c \in Chars, ~disabled, sprite[c].stage = "decoded",
           NEW t \in [Chars -> Sprite], \A d \in Chars : t[d].life = sprite[d].life,
           NEW list \in Seq(EffectRecord), Len(list) = Len(sprite[c].effects),
           \A i \in 1..Len(list) : list[i] = sprite[c].effects[i],
           NEW new, new = IF Due(c) THEN Restored(t, list, import[c].archive) ELSE list
    PROVE  /\ new \in Seq(EffectRecord) /\ Len(new) = Len(list)
           /\ \A i \in 1..Len(list) : /\ new[i].use = list[i].use
                                      /\ Belongs(new[i], uses, t, lives) /\ Kept(new[i], uses, t)
<1>1. /\ sprite[c] \in Sprite /\ record[c] \in CharacterRecord /\ import[c] \in ImportRecord
      /\ LoadOk(sprite[c], record[c], import[c], disabled) /\ RecordOk(record[c], uses, changes)
  BY DEF IInv, Typed, EachSound, Sound
<1>2. PICK r \in CharacterRecord : r = record[c]
  BY <1>1
<1>3. PICK env \in EnvelopeRecord : env = import[c].archive
  BY <1>1 DEF ImportRecord
<1>4. PICK levels \in Seq(Levels) : levels = import[c].rows
  BY <1>1 DEF ImportRecord
<1>5. /\ env = r.envelope /\ env.kind # "foreign"
      /\ Len(list) = Len(r.rows) /\ Len(levels) = Len(list)
      /\ \A i \in 1..Len(list) : levels[i] = list[i].level
      /\ \A i \in 1..Len(list) : list[i] = Effect(r.rows[i].use, r.rows[i].level, Unowned, r.rows[i].whole)
  BY <1>1, <1>2, <1>3, <1>4 DEF LoadOk
<1>6. \A i \in 1..Len(list) : /\ list[i].use = r.rows[i].use /\ list[i].level = r.rows[i].level
                              /\ list[i].whole = r.rows[i].whole /\ list[i].ctx = Unowned
  <2> TAKE i \in 1..Len(list)
  <2>1. list[i] = Effect(r.rows[i].use, r.rows[i].level, Unowned, r.rows[i].whole)
    BY <1>5
  <2> QED
    BY <2>1 DEF Effect
<1>7. Tells(env, r.time, r.rows, uses) /\ Complete(env, r.time, r.rows)
  BY <1>1, <1>2, <1>5 DEF RecordOk
<1>8. /\ Len(list) \in Nat /\ DOMAIN list = 1..Len(list) /\ \A i \in 1..Len(list) : list[i] \in EffectRecord
      /\ DOMAIN levels = 1..Len(levels)
  BY SeqFact
<1>9. CASE env # NoEnvelope /\ Current(env, levels, r.time)
  <2>1. env.kind = "ours" /\ Len(env.rows) = Len(list) /\ env.time = r.time
    BY <1>3, <1>5, <1>9, EnvelopeFact, ConstantFact DEF Current
  <2>2. new = Restored(t, list, env)
    BY <1>2, <1>3, <1>4, <1>9 DEF Due
  <2>3. new = [i \in DOMAIN list |-> RestoredEffect(t, list[i], env.rows[i].saved)]
    BY <2>2, Zenon DEF Restored, RestoredEffect
  <2>4. /\ new = [i \in 1..Len(list) |-> new[i]]
        /\ \A i \in 1..Len(list) : new[i] = RestoredEffect(t, list[i], env.rows[i].saved)
    BY <1>8, <2>3
  <2>5. ASSUME NEW i \in 1..Len(list)
        PROVE  /\ new[i] \in EffectRecord /\ new[i].use = list[i].use
               /\ Belongs(new[i], uses, t, lives) /\ Kept(new[i], uses, t)
    <3>1. PICK saved : saved = env.rows[i].saved
      OBVIOUS
    <3>2. saved \in [use : Nat, uuid : Chars \cup {None}, level : Nat]
      BY <2>1, <3>1, EnvelopeFact DEF SavedRecord
    <3>3. saved # Unsaved => /\ list[i].use \in 1..Len(uses)
                             /\ saved.use = list[i].use /\ saved.uuid = uses[list[i].use]
      BY <1>5, <1>6, <1>7, <2>1, <3>1 DEF Tells
    <3>4. list[i].whole /\ list[i].use # 0 => saved.use = list[i].use
      BY <1>5, <1>6, <1>7, <3>1 DEF Complete
    <3>5. new[i] = RestoredEffect(t, list[i], saved) /\ list[i] \in EffectRecord /\ list[i].ctx = Unowned
      BY <1>6, <1>8, <2>4, <3>1
    <3> QED
      BY <3>2, <3>3, <3>4, <3>5, RestoredEffectFact
  <2>6. new \in Seq(EffectRecord) /\ Len(new) = Len(list)
    <3>1. PICK n \in Nat : n = Len(list)
      BY <1>8
    <3>2. new = [i \in 1..n |-> new[i]] /\ \A i \in 1..n : new[i] \in EffectRecord
      BY <2>4, <2>5, <3>1
    <3> QED
      BY <3>1, <3>2, MadeFact
  <2> QED
    BY <2>5, <2>6
<1>10. CASE ~(env # NoEnvelope /\ Current(env, levels, r.time))
  <2>1. new = list
    BY <1>2, <1>3, <1>4, <1>10 DEF Due
  <2>2. ASSUME NEW i \in 1..Len(list), list[i].whole, list[i].use # 0 PROVE FALSE
    <3>1. /\ env.kind = "ours" /\ env.time = r.time /\ Len(env.rows) = Len(r.rows)
          /\ \A j \in 1..Len(r.rows) : env.rows[j].level = r.rows[j].level
      BY <1>5, <1>6, <1>7, <2>2 DEF Complete
    <3>2. Current(env, levels, r.time)
      BY <1>5, <1>6, <1>8, <3>1 DEF Current
    <3> QED
      BY <1>10, <3>1, <3>2, ConstantFact
  <2>3. \A i \in 1..Len(list) : Belongs(list[i], uses, t, lives) /\ Kept(list[i], uses, t)
    BY <1>6, <2>2 DEF Belongs, Kept
  <2> QED
    BY <2>1, <2>3
<1> QED
  BY <1>9, <1>10

LEMMA BindKeeps == ASSUME IInv, NEW c \in Chars, Bind(c) PROVE IInv'
<1>1. /\ Typed /\ Distinct /\ EachSound /\ sprite \in [Chars -> Sprite] /\ sprite[c] \in Sprite
      /\ uses \in Seq(Chars) /\ changes \in Nat /\ lives \in Nat /\ disabled \in BOOLEAN
      /\ import \in [Chars -> ImportRecord] /\ record \in [Chars -> CharacterRecord]
  BY DEF IInv, Typed
<1>2. /\ Calm /\ export = NoExport /\ scopes = <<>> /\ sprite[c].stage = "decoded"
      /\ UNCHANGED <<record, uses, scopes, export, disabled, changes, lives, strangers, restarts>>
  BY DEF Bind, Calm
<1>3. CASE disabled
  <2>1. sprite' = [sprite EXCEPT ![c].stage = "bound"] /\ import' = import
    BY <1>3 DEF Bind, Healthy
  <2>2. disabled' = TRUE
    BY <1>1, <1>2, <1>3
  <2> QED
    BY <1>2, <2>1, <2>2, BoundBare
<1>4. CASE ~disabled
  <2> DEFINE made == [d \in Chars |-> [sprite[d] EXCEPT !.effects = Rebound(@, c), !.uuid = @ \/ d = c]]
  <2>1. PICK bound : bound = made
    OBVIOUS
  <2> HIDE DEF made
  <2>2. PICK list : list = IF Due(c) THEN Restored(bound, bound[c].effects, import[c].archive)
                           ELSE bound[c].effects
    OBVIOUS
  <2>3. \A d \in Chars : Good(sprite[d], uses, sprite, lives)
    BY <1>1, <1>4 DEF EachSound, Sound
  <2>4. ASSUME NEW d \in Chars
        PROVE  bound[d] = [sprite[d] EXCEPT !.effects = Rebound(sprite[d].effects, c), !.uuid = sprite[d].uuid \/ d = c]
    BY <2>1 DEF made
  <2>5. ASSUME NEW d \in Chars
        PROVE  /\ bound[d] \in Sprite /\ bound[d].effects = Rebound(sprite[d].effects, c)
               /\ bound[d].uuid = (sprite[d].uuid \/ d = c) /\ bound[d].life = sprite[d].life
               /\ bound[d].stage = sprite[d].stage /\ bound[d].raw = sprite[d].raw
               /\ bound[d].error = sprite[d].error /\ bound[d].finished = sprite[d].finished
    <3>1. PICK new : new = Rebound(sprite[d].effects, c)
      OBVIOUS
    <3>2. sprite[d] \in Sprite /\ Good(sprite[d], uses, sprite, lives)
      BY <1>1, <2>3
    <3>3. new \in Seq(EffectRecord)
      BY <1>1, <3>1, <3>2, ReboundFact
    <3>4. PICK got \in BOOLEAN : got = (sprite[d].uuid \/ d = c)
      BY <3>2, SpriteFact
    <3>5. bound[d] = [sprite[d] EXCEPT !.effects = new, !.uuid = got]
      BY <2>4, <3>1, <3>4
    <3> QED
      BY <3>1, <3>2, <3>3, <3>4, <3>5 DEF Sprite
  <2>6. bound \in [Chars -> Sprite]
    <3>1. bound = [d \in Chars |-> bound[d]]
      BY <2>1 DEF made
    <3> QED
      BY <2>5, <3>1
  <2>7. \A d \in Chars : bound[d].life = sprite[d].life /\ (bound[d].uuid => sprite[d].uuid \/ d = c)
    BY <2>5
  <2>8. ASSUME NEW d \in Chars
        PROVE  /\ bound[d].effects \in Seq(EffectRecord) /\ Len(bound[d].effects) = Len(sprite[d].effects)
               /\ \A i \in 1..Len(sprite[d].effects) :
                     /\ bound[d].effects[i].use = sprite[d].effects[i].use
                     /\ bound[d].effects[i].level = sprite[d].effects[i].level
                     /\ sprite[d].effects[i].ctx = Unowned => bound[d].effects[i] = sprite[d].effects[i]
                     /\ Belongs(bound[d].effects[i], uses, bound, lives)
                     /\ sprite[d].effects[i].use <= Len(uses) /\ Kept(sprite[d].effects[i], uses, sprite)
                           => Kept(bound[d].effects[i], uses, bound)
    <3>1. sprite[d] \in Sprite /\ Good(sprite[d], uses, sprite, lives)
      BY <1>1, <2>3
    <3> QED
      BY <2>5, <2>6, <2>7, <3>1, ReboundFact
  <2>9. ASSUME NEW d \in Chars, sprite[d].stage \in {"decoding", "decoded"}, NEW i \in 1..Len(sprite[d].effects)
        PROVE  bound[d].effects[i] = sprite[d].effects[i]
    <3>1. LoadOk(sprite[d], record[d], import[d], disabled)
      BY <1>1 DEF EachSound, Sound
    <3>2. sprite[d].effects[i] = Effect(record[d].rows[i].use, record[d].rows[i].level, Unowned, record[d].rows[i].whole)
      BY <2>9, <3>1 DEF LoadOk
    <3>3. sprite[d].effects[i].ctx = Unowned
      BY <3>2 DEF Effect
    <3> QED
      BY <2>8, <3>3
  <2>10. /\ list \in Seq(EffectRecord) /\ Len(list) = Len(sprite[c].effects)
         /\ \A i \in 1..Len(sprite[c].effects) :
               /\ list[i].use = sprite[c].effects[i].use
               /\ Belongs(list[i], uses, bound, lives) /\ Kept(list[i], uses, bound)
    <3>1. PICK old \in Seq(EffectRecord) : old = bound[c].effects
      BY <2>8
    <3>2. Len(old) = Len(sprite[c].effects) /\ \A i \in 1..Len(old) : old[i] = sprite[c].effects[i]
      BY <1>2, <2>8, <2>9, <3>1
    <3>3. list = IF Due(c) THEN Restored(bound, old, import[c].archive) ELSE old
      BY <2>2, <3>1
    <3>4. \A d \in Chars : bound[d].life = sprite[d].life
      BY <2>7
    <3>5. /\ list \in Seq(EffectRecord) /\ Len(list) = Len(old)
          /\ \A i \in 1..Len(old) : /\ list[i].use = old[i].use
                                    /\ Belongs(list[i], uses, bound, lives) /\ Kept(list[i], uses, bound)
      BY <1>2, <1>4, <2>6, <3>2, <3>3, <3>4, RestoreFact
    <3> QED
      BY <3>2, <3>5
  <2>11. PICK p : p = [bound[c] EXCEPT !.stage = "bound", !.finished = import[c].open, !.effects = list]
    OBVIOUS
  <2>12. /\ p \in Sprite /\ p.effects = list /\ p.stage = "bound" /\ p.finished = import[c].open
         /\ p.life = sprite[c].life /\ p.uuid /\ p.raw = sprite[c].raw /\ p.error = sprite[c].error
    <3>1. import[c].open \in BOOLEAN
      BY <1>1 DEF ImportRecord
    <3> QED
      BY <2>5, <2>10, <2>11, <3>1 DEF Sprite
  <2>13. sprite' = [bound EXCEPT ![c] = p] /\ import' = [import EXCEPT ![c] = NoImport]
    <3>1. /\ sprite' = [bound EXCEPT ![c].stage = "bound", ![c].finished = import[c].open, ![c].effects = list]
          /\ import' = [import EXCEPT ![c] = NoImport]
      BY <1>4, <2>1, <2>2 DEF Bind, Healthy, made, Due
    <3> QED
      BY <2>6, <2>11, <3>1
  <2>14. sprite' \in [Chars -> Sprite] /\ sprite'[c] = p /\ \A d \in Chars \ {c} : sprite'[d] = bound[d]
    BY <2>6, <2>12, <2>13
  <2>15. import' \in [Chars -> ImportRecord] /\ \A d \in Chars \ {c} : import'[d] = import[d]
    BY <1>1, <2>13, ConstantFact
  <2>16. Typed'
    BY <1>1, <1>2, <2>14, <2>15 DEF Typed
  <2>17. \A d \in Chars : sprite'[d].life = sprite[d].life /\ (sprite'[d].uuid => bound[d].uuid)
    BY <2>5, <2>7, <2>12, <2>14
  <2>18. Distinct'
    <3>1. \A d \in Chars : /\ sprite'[d].life = sprite[d].life
                           /\ sprite'[d].stage = "none" => sprite[d].stage = "none" /\ d # c
                           /\ sprite'[d].stage # "none" => sprite[d].stage # "none"
      BY <1>2, <2>5, <2>12, <2>14
    <3>2. ASSUME NEW d \in Chars, sprite'[d].stage = "none" PROVE sprite'[d] = NoSprite
      <4>1. sprite[d] = NoSprite /\ d # c /\ sprite'[d] = bound[d]
        BY <1>1, <2>14, <3>1, <3>2 DEF Distinct, LivesOk
      <4>2. Len(bound[d].effects) = 0 /\ bound[d].effects \in Seq(EffectRecord)
        BY <2>8, <4>1, ConstantFact
      <4>3. bound[d].effects = <<>>
        BY <4>2, EmptySeq
      <4>4. bound[d].uuid = FALSE
        BY <2>5, <4>1, ConstantFact
      <4>5. bound[d] = [NoSprite EXCEPT !.effects = <<>>, !.uuid = FALSE]
        <5>1. bound[d] = [sprite[d] EXCEPT !.effects = bound[d].effects, !.uuid = bound[d].uuid]
          BY <2>4, <2>5
        <5> QED
          BY <4>1, <4>3, <4>4, <5>1
      <4> QED
        BY <4>1, <4>5 DEF NoSprite
    <3> QED
      BY <1>1, <1>2, <3>1, <3>2 DEF Distinct, LivesOk
  <2>19. ScopesOk' /\ ExportOk'
    BY <1>2, NoScopes DEF ExportOk
  <2>20. Steady(bound, sprite', lives) /\ Grows(uses, uses) /\ lives <= lives
    BY <1>1, <2>7, <2>17, Same DEF Steady
  <2>21. ASSUME NEW e \in EffectRecord
         PROVE  /\ Belongs(e, uses, bound, lives) => Belongs(e, uses, sprite', lives)
                /\ e.use <= Len(uses) /\ Kept(e, uses, bound) => Kept(e, uses, sprite')
    BY <1>1, <2>6, <2>14, <2>20, EffectGrows
  <2>22. Sound(c)'
    <3>1. /\ LoadOk(sprite[c], record[c], import[c], disabled) /\ RecordOk(record[c], uses, changes)
          /\ sprite[c].error => disabled
          /\ c \in strangers => StrangerOk(c, sprite[c], record[c], export)
          /\ record[c] \in CharacterRecord
      BY <1>1 DEF EachSound, Sound
    <3>2. /\ \A i \in 1..Len(sprite[c].effects) : sprite[c].effects[i].use <= Len(uses)
          /\ Tells(sprite[c].raw, changes, sprite[c].effects, uses)
      BY <1>1, <1>2, <3>1, LoadTells
    <3>3. \A i \in 1..Len(list) : i \in 1..Len(sprite[c].effects) /\ list[i].use = sprite[c].effects[i].use
      BY <2>10
    <3>4. Tells(p.raw, changes, p.effects, uses)
      BY <2>12, <3>2, <3>3, TellsAlike
    <3>5. \A i \in 1..Len(list) : list[i] \in EffectRecord /\ list[i].use <= Len(uses)
      BY <2>10, <3>2, SeqFact
    <3>6. Good(p, uses, sprite', lives)
      <4>1. ASSUME NEW i \in 1..Len(list)
            PROVE  Belongs(list[i], uses, sprite', lives) /\ Kept(list[i], uses, sprite')
        BY <2>10, <2>21, <3>5
      <4> QED
        BY <2>12, <4>1 DEF Good
    <3>7. LiveOk(p, uses, changes, disabled)
      <4>1. import[c].open
        BY <1>2, <1>4, <3>1 DEF LoadOk
      <4> QED
        BY <2>12, <3>4, <3>5, <4>1 DEF LiveOk
    <3>8. ASSUME NEW im PROVE LoadOk(p, record[c], im, disabled)
      BY <2>12 DEF LoadOk
    <3>9. ASSUME c \in strangers PROVE StrangerOk(c, p, record[c], export)
      BY <1>2, <2>12, <3>1, <3>9 DEF StrangerOk
    <3>10. p.error => disabled
      BY <2>12, <3>1
    <3> QED
      BY <1>2, <2>14, <3>1, <3>6, <3>7, <3>8, <3>9, <3>10 DEF Sound
  <2>23. ASSUME NEW d \in Chars \ {c} PROVE Sound(d)'
    <3>1. /\ LoadOk(sprite[d], record[d], import[d], disabled) /\ RecordOk(record[d], uses, changes)
          /\ LiveOk(sprite[d], uses, changes, disabled)
          /\ sprite[d].error => disabled
          /\ d \in strangers => StrangerOk(d, sprite[d], record[d], export)
          /\ sprite[d] \in Sprite
      BY <1>1 DEF EachSound, Sound
    <3>2. PICK q \in Sprite : q = bound[d]
      BY <2>5
    <3>3. /\ q.life = sprite[d].life /\ q.uuid = sprite[d].uuid /\ q.stage = sprite[d].stage
          /\ q.raw = sprite[d].raw /\ q.error = sprite[d].error /\ q.finished = sprite[d].finished
      <4>1. bound[d].uuid = (sprite[d].uuid \/ d = c) /\ sprite[d].uuid \in BOOLEAN /\ d # c
        BY <2>5, <3>1, SpriteFact
      <4>2. q.uuid = sprite[d].uuid
        BY <3>2, <4>1
      <4> QED
        BY <2>5, <3>2, <4>2
    <3>4. /\ Len(q.effects) = Len(sprite[d].effects)
          /\ \A i \in 1..Len(q.effects) :
                /\ q.effects[i] \in EffectRecord
                /\ q.effects[i].use = sprite[d].effects[i].use
                /\ q.effects[i].level = sprite[d].effects[i].level
                /\ Belongs(q.effects[i], uses, bound, lives)
                /\ sprite[d].effects[i].use <= Len(uses) /\ Kept(sprite[d].effects[i], uses, sprite)
                      => Kept(q.effects[i], uses, bound)
      BY <2>8, <3>2, SpriteFact
    <3>5. Good(q, uses, sprite', lives)
      <4>1. ASSUME NEW i \in 1..Len(q.effects)
            PROVE  /\ Belongs(q.effects[i], uses, sprite', lives)
                   /\ IsLive(q) => Kept(q.effects[i], uses, sprite')
        <5>1. Belongs(q.effects[i], uses, sprite', lives)
          BY <2>21, <3>4
        <5>2. ASSUME IsLive(q) PROVE Kept(q.effects[i], uses, sprite')
          <6>1. sprite[d].effects[i].use <= Len(uses) /\ Kept(sprite[d].effects[i], uses, sprite)
            BY <2>3, <3>1, <3>3, <3>4, <5>2 DEF Good, LiveOk, IsLive
          <6>2. q.effects[i].use <= Len(uses) /\ Kept(q.effects[i], uses, bound)
            BY <3>4, <6>1
          <6> QED
            BY <2>21, <3>4, <6>2
        <5> QED
          BY <5>1, <5>2
      <4> QED
        BY <4>1 DEF Good
    <3>6. LoadOk(q, record[d], import[d], disabled)
      <4>1. CASE q.stage \in {"decoding", "decoded"}
        <5>1. \A i \in 1..Len(q.effects) : q.effects[i] = sprite[d].effects[i]
          BY <2>9, <3>2, <3>3, <3>4, <4>1
        <5> QED
          BY <3>1, <3>3, <3>4, <5>1 DEF LoadOk
      <4>2. CASE q.stage \notin {"decoding", "decoded"}
        BY <4>2 DEF LoadOk
      <4> QED
        BY <4>1, <4>2
    <3>7. LiveOk(q, uses, changes, disabled)
      <4>1. CASE IsLive(q)
        <5>1. Tells(sprite[d].raw, changes, sprite[d].effects, uses)
          BY <3>1, <3>3, <4>1 DEF LiveOk, IsLive
        <5>2. \A i \in 1..Len(q.effects) : i \in 1..Len(sprite[d].effects) /\ q.effects[i].use = sprite[d].effects[i].use
          BY <3>4
        <5>3. Tells(q.raw, changes, q.effects, uses)
          BY <3>3, <5>1, <5>2, TellsAlike
        <5>4. /\ ~disabled => q.uuid /\ q.finished
              /\ ~disabled /\ q.stage = "live" => q.raw = NoEnvelope
              /\ \A i \in 1..Len(q.effects) : q.effects[i].use <= Len(uses)
          BY <3>1, <3>3, <4>1, <5>2 DEF LiveOk, IsLive
        <5> QED
          BY <5>3, <5>4 DEF LiveOk
      <4>2. CASE ~IsLive(q)
        BY <4>2 DEF LiveOk
      <4> QED
        BY <4>1, <4>2
    <3>8. ASSUME d \in strangers PROVE StrangerOk(d, q, record[d], export)
      BY <3>1, <3>3, <3>8 DEF StrangerOk
    <3>9. q.error => disabled
      BY <3>1, <3>3
    <3>10. sprite'[d] = q /\ import'[d] = import[d]
      BY <2>14, <2>15, <3>2
    <3> QED
      BY <1>2, <3>1, <3>5, <3>6, <3>7, <3>8, <3>9, <3>10 DEF Sound
  <2>24. EachSound'
    BY <2>22, <2>23 DEF EachSound
  <2> QED
    BY <2>16, <2>18, <2>19, <2>24 DEF IInv
<1> QED
  BY <1>1, <1>3, <1>4
-----------------------------------------------------------------------------
(* What the runs check.                                                     *)

LEMMA Establishes == ASSUME Init PROVE IInv
<1>1. /\ sprite = [c \in Chars |-> NoSprite] /\ strangers \subseteq Chars
      /\ record = [c \in Chars |-> [rows |-> <<>>, time |-> 0,
                                    envelope |-> IF c \in strangers THEN Foreign ELSE NoEnvelope]]
      /\ uses = <<>> /\ scopes = <<>> /\ import = [c \in Chars |-> NoImport] /\ export = NoExport
      /\ disabled = FALSE /\ changes = 0 /\ lives = 0
  BY ScrollArchiveAssumption DEF Init
<1>2. /\ NoSprite.life = 0 /\ NoSprite.stage = "none" /\ ~NoSprite.uuid /\ ~NoSprite.error
      /\ NoSprite \in Sprite /\ NoImport \in ImportRecord /\ NoExport \in ExportRecord
      /\ NoEnvelope.kind = "none" /\ Foreign.kind = "foreign"
  BY ConstantFact
<1>3. ASSUME NEW c \in Chars
      PROVE  record[c] \in CharacterRecord /\ RecordOk(record[c], uses, changes)
             /\ (c \in strangers => record[c].envelope = Foreign)
  <2>1. PICK env \in {NoEnvelope, Foreign} : env = IF c \in strangers THEN Foreign ELSE NoEnvelope
    OBVIOUS
  <2>2. PICK r : r = [rows |-> <<>>, time |-> 0, envelope |-> env]
    OBVIOUS
  <2>3. record[c] = r
    BY <1>1, <2>1, <2>2
  <2>4. /\ r.rows = <<>> /\ Len(r.rows) = 0 /\ r.time = 0 /\ r.envelope = env /\ env.kind # "ours"
        /\ env \in EnvelopeRecord /\ <<>> \in Seq(Row)
    BY <1>2, <2>1, <2>2, ConstantFact
  <2>5. r \in CharacterRecord
    BY <2>2, <2>4 DEF CharacterRecord
  <2>6. RecordOk(r, uses, changes)
    BY <1>1, <2>4 DEF RecordOk, Tells, Complete
  <2> QED
    BY <2>1, <2>3, <2>4, <2>5, <2>6
<1>4. Typed
  <2>1. record \in [Chars -> CharacterRecord]
    BY <1>1, <1>3
  <2>2. sprite \in [Chars -> Sprite] /\ import \in [Chars -> ImportRecord]
    BY <1>1, <1>2
  <2>3. uses \in Seq(Chars) /\ scopes \in Seq(Chars)
    BY <1>1
  <2>4. changes \in Nat /\ lives \in Nat /\ export \in ExportRecord
    BY <1>1, <1>2
  <2>5. disabled \in BOOLEAN
    BY <1>1
  <2> QED
    BY <1>1, <2>1, <2>2, <2>3, <2>4, <2>5 DEF Typed
<1>5. Distinct
  BY <1>1, <1>2 DEF Distinct, LivesOk
<1>6. ScopesOk /\ ExportOk
  BY <1>1 DEF ScopesOk, ExportOk
<1>7. ASSUME NEW c \in Chars PROVE Sound(c)
  <2>1. sprite[c] = NoSprite
    BY <1>1
  <2> QED
    BY <1>1, <1>2, <1>3, <2>1, NoSpriteFact DEF Sound
<1> QED
  BY <1>4, <1>5, <1>6, <1>7 DEF IInv, EachSound

LEMMA Inductive == ASSUME IInv, [Next]_vars PROVE IInv'
<1>1. CASE UNCHANGED vars
  <2>1. /\ UNCHANGED <<sprite, record, uses, scopes, import, export, disabled, changes, lives, strangers>>
        /\ Typed /\ Distinct /\ ScopesOk /\ ExportOk /\ EachSound
    BY <1>1 DEF vars, IInv
  <2>2. Typed' /\ Distinct' /\ ScopesOk' /\ ExportOk'
    BY <2>1 DEF Typed, Distinct, ScopesOk, ExportOk
  <2>3. EachSound'
    BY <2>1 DEF EachSound, Sound
  <2> QED
    BY <2>2, <2>3 DEF IInv
<1>2. CASE \E c, d \in Chars : Read(c, d) \/ \E i \in 1..MaxEffects : Cast(c, i, d) \/ Link(c, i, d)
  BY <1>2, ReadKeeps, CastKeeps, LinkKeeps
<1>3. CASE \E i \in 1..MaxEffects, level \in Levels :
              Meddle(i, level) \/ \E c \in Chars : Ends(c, i) \/ Rewritten(c, i, level)
  BY <1>3, MeddleKeeps, EndsKeep, RewrittenKeeps
<1>4. CASE \E c \in Chars :
              Plain(c) \/ Marshal(c) \/ Load(c) \/ Bind(c) \/ BindFails(c) \/ Loaded(c) \/ Destroyed(c)
  BY <1>4, PlainKeeps, MarshalKeeps, LoadKeeps, BindKeeps, BindFailsKeeps, LoadedKeeps, DestroyedKeeps
<1>5. CASE Written \/ Decode \/ Import \/ Decoded \/ Fault \/ Restart
  BY <1>5, WrittenKeeps, DecodeKeeps, ImportKeeps, DecodedKeeps, FaultKeeps, RestartKeeps
<1> QED
  BY <1>1, <1>2, <1>3, <1>4, <1>5 DEF Next

\* The inductive invariant holds of every process, save and load.
LEMMA Holds == Spec => []IInv
<1>1. Init => IInv
  BY Establishes
<1>2. IInv /\ [Next]_vars => IInv'
  BY Inductive
<1> QED
  BY <1>1, <1>2, PTL DEF Spec

\* What the registry calls owned comes from the scroll it says, and its reader
\* is the one who read it: effect_archive.hpp restores only what is current, and
\* actor_uuid rebinds only those of the character whose UUID it is.
THEOREM OwnedAncestryIsTrue == Spec => []AncestryIsTrue
<1>1. ASSUME IInv PROVE AncestryIsTrue
  <2> SUFFICES ASSUME NEW c \in Chars, NEW i \in DOMAIN sprite[c].effects,
                      Context(sprite[c].effects[i]) # Unowned
               PROVE  LET e == sprite[c].effects[i]
                      IN  /\ e.ctx.use = e.use
                          /\ e.ctx.uuid \in {None, uses[e.use]}
                          /\ \A d \in Chars : LiveLife(e.ctx.reader) /\ sprite[d].life = e.ctx.reader
                                                 => d = uses[e.use]
    BY DEF AncestryIsTrue
  <2>1. ~disabled /\ sprite[c].effects[i].ctx # Unowned
    BY DEF Context
  <2>2. Good(sprite[c], uses, sprite, lives) /\ i \in 1..Len(sprite[c].effects)
    BY <1>1, <2>1, SpriteFact DEF IInv, Typed, EachSound, Sound
  <2>3. Belongs(sprite[c].effects[i], uses, sprite, lives)
    BY <2>2 DEF Good
  <2> QED
    BY <2>1, <2>3 DEF Belongs, LiveLife
<1> QED
  BY <1>1, Holds, PTL

\* No effect that only processes with the overrides on have handled loses its
\* ancestry, and an envelope of another kind is in every record: exporter hands
\* it on as it came in, and CBMS_FinishEffectImport gives up only its own.
THEOREM AncestryIsKept == Spec => []AncestrySurvives
<1>1. ASSUME IInv PROVE AncestrySurvives
  <2>1. ASSUME ~disabled, NEW c \in Chars, Live(c), NEW i \in DOMAIN sprite[c].effects
        PROVE  Survives(sprite[c].effects[i])
    <3>1. Good(sprite[c], uses, sprite, lives) /\ i \in 1..Len(sprite[c].effects) /\ IsLive(sprite[c])
      BY <1>1, <2>1, SpriteFact DEF IInv, Typed, EachSound, Sound, Live, IsLive
    <3>2. Kept(sprite[c].effects[i], uses, sprite)
      BY <3>1 DEF Good
    <3> QED
      BY <3>2 DEF Kept, Survives
  <2>2. \A c \in strangers : record[c].envelope = Foreign
    BY <1>1 DEF IInv, Typed, EachSound, Sound, StrangerOk
  <2> QED
    BY <2>1, <2>2 DEF AncestrySurvives
<1> QED
  BY <1>1, Holds, PTL
=============================================================================
