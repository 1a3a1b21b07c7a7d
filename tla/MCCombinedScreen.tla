--------------------------- MODULE MCCombinedScreen ---------------------------
(***************************************************************************)
(* One proficiency stat, with the character's records in the shapes the    *)
(* game and earlier screens leave them: none, two SETs, a SET with a       *)
(* carrier, a carrier alone, and a SET beside one of an unknown schema.    *)
(***************************************************************************)
EXTENDS CombinedScreen

CONSTANT axe

Axe == {axe}

E(n, kind, stat, act, old) == [node |-> n, kind |-> kind, stat |-> stat, act |-> act, old |-> old]
AxeLists ==
    {<<>>,
     <<E(1, "set", axe, 2, 0), E(2, "set", axe, 1, 2)>>,
     <<E(1, "set", axe, 1, 1), E(2, "carrier", axe, 0, 1)>>,
     <<E(1, "carrier", axe, 0, 1)>>,
     <<E(1, "alien", axe, 0, 0), E(2, "set", axe, 1, 1)>>}

\* The run joins two slices: every roll and two levels without a save, with a third
\* screen while the observers missed nothing, and a single roll with one level, two
\* screens, a save and a load or restart.
Unsaved ==
    /\ loads = 0
    /\ next_session <= 2 \/ (~unread /\ ~fault)
    /\ saved.effects \in StartLists /\ saved.level = 1 /\ ~saved.usable
    /\ saved.journal = NoJournal /\ saved.native_hp = NoBatch
OneRoll ==
    /\ next_session <= 2 /\ actor.level <= 2 /\ actor.native_hp.level <= 2
    /\ \A b \in {batch, actor.native_hp, saved.native_hp} \cup {cache[i] : i \in DOMAIN cache} :
          b.total <= 1
Slices == Unsaved \/ OneRoll
=============================================================================
