----------------------------- MODULE ProfRecords -----------------------------
(***************************************************************************)
(* The proficiency records of a dual-classed character and the             *)
(* transaction a level-up screen opens on them                             *)
(* (research/xp-banking-native/dual_prof_commit.cpp).  A class SET packs   *)
(* the active and the old class's pips; a carrier is an inert record that  *)
(* holds pips the dormant old class has earned; an "alien" is a record of  *)
(* the carrier family whose schema this build does not know.  An operator  *)
(* that can fail returns the outcome with the list and the transaction it  *)
(* leaves: "ok", "no" (nothing touched) or "uncertain" (the -1 results).   *)
(***************************************************************************)
EXTENDS Naturals, FiniteSets, SequencesExt

CONSTANTS
    Stats,    \* the extended proficiency stats in use (89..134 in the game)
    MaxPips   \* 7: a class's pips are three bits of the packed word

ASSUME PipAssumption == MaxPips \in Nat \ {0} /\ IsFiniteSet(Stats)

Pips == 0..MaxPips

\* A carrier holds its pips in `old`; a node is the place of one record.
Entries == [node : Nat, kind : {"set", "carrier", "alien"}, stat : Stats, act : Nat, old : Nat]
Lists == {list \in Seq(Entries) :
             \A i, j \in DOMAIN list : list[i].node = list[j].node => i = j}

Least(a, b) == IF a < b THEN a ELSE b
Most(a, b) == IF a < b THEN b ELSE a

Sets(list, stat) == {i \in DOMAIN list : list[i].kind = "set" /\ list[i].stat = stat}
LastSet(list, stat) == list[Max(Sets(list, stat))]
Carried(list, stat) ==
    FoldLeft(LAMBDA n, e : IF e.kind = "carrier" /\ e.stat = stat THEN n + e.old ELSE n,
             0, list)
Unknown(list) == \E i \in DOMAIN list : list[i].kind = "alien"
Nodes(list) == {list[i].node : i \in DOMAIN list}
FreshNode(list) == CHOOSE n \in 1..(Len(list) + 1) : n \notin Nodes(list)
\* The record is still in the list and still of its kind; a carrier as it was read.
Present(list, r) ==
    \E i \in DOMAIN list :
        /\ list[i].node = r.node /\ list[i].kind = r.kind /\ list[i].stat = r.stat
        /\ r.kind = "carrier" => list[i].old = r.old

\* The last record of the stat wins; without one the class base is zero.
BaseOld(list, stat) == IF Sets(list, stat) = {} THEN 0 ELSE LastSet(list, stat).old
ReadActive(list, stat) == IF Sets(list, stat) = {} THEN 0 ELSE LastSet(list, stat).act

\* CBMDPC_ReadOldAllocation; an unreadable allocation is MaxPips + 1.
Unreadable == MaxPips + 1
ReadOld(list, stat) ==
    LET n == BaseOld(list, stat) + Carried(list, stat)
    IN  IF Unknown(list) \/ n > MaxPips THEN Unreadable ELSE n
-----------------------------------------------------------------------------
(* The transaction: the records it owns, with the word each had before.     *)

NoTx == [state |-> "none", recs |-> {}]
Owned(e, start, created) ==
    [node |-> e.node, kind |-> e.kind, stat |-> e.stat, act |-> e.act, old |-> e.old,
     start |-> start, created |-> created]
RecordOf(tx, e) == CHOOSE r \in tx.recs : r.node = e.node
Owns(tx, e) == \E r \in tx.recs : r.node = e.node

Result(outcome, list, tx) == [outcome |-> outcome, list |-> list, tx |-> tx]

\* `made` says whether the game's factory makes the new records, `added` which
\* stats' records AddTail takes.
NewSet(list, stat, pips) ==
    [node |-> FreshNode(list), kind |-> "set", stat |-> stat, act |-> pips, old |-> 0]
NewCarrier(list, stat, pips) ==
    [node |-> FreshNode(list), kind |-> "carrier", stat |-> stat, act |-> 0, old |-> pips]

\* CBMDPC_BeginActivePreview: the class records as they are, nothing written.
BeginActive(list) ==
    LET sets == {i \in DOMAIN list : list[i].kind = "set"}
    IN  Result("ok", list,
               [state |-> "applied",
                recs |-> {Owned(list[i], list[i].act, FALSE) : i \in sets}])

\* CBMDPC_ApplyPreview, by stat: chosen and carried pips join the old class's
\* base, and the result replaces the active pips where it is more.
Delta(list, rows, stat) == rows[stat] + Carried(list, stat)
Fits(list, rows) ==
    /\ ~Unknown(list)
    /\ \A s \in Stats : Delta(list, rows, s) + BaseOld(list, s) <= MaxPips
\* Mutant: the merge reads the new rows and forgets the carried pips.
MergedPips_RowsOnly(list, rows, e) == Most(e.act, Least(MaxPips, e.old + rows[e.stat]))

MergedPips(list, rows, e) == Most(e.act, Least(MaxPips, e.old + Delta(list, rows, e.stat)))

Merged(list, rows) ==
    [i \in DOMAIN list |->
        IF list[i].kind = "set"
        THEN [list[i] EXCEPT !.act = MergedPips(list, rows, list[i]), !.old = 0]
        ELSE list[i]]
Missing(list, rows) == {s \in Stats : Sets(list, s) = {} /\ Delta(list, rows, s) > 0}
AddSets(list, rows, stats) ==
    FoldLeft(LAMBDA l, s : Append(l, NewSet(l, s, Delta(list, rows, s))), list, SetToSeq(stats))
ApplyPreview(list, rows, made, added) ==
    LET missing == Missing(list, rows)
        grown == AddSets(Merged(list, rows), rows, missing)
        kept == {Owned(list[i], Merged(list, rows)[i].act, FALSE) : i \in DOMAIN list}
        new == {Owned(grown[i], grown[i].act, TRUE) : i \in DOMAIN grown \ DOMAIN list}
    IN  IF ~Fits(list, rows) \/ (missing # {} /\ ~made) THEN Result("no", list, NoTx)
        ELSE IF ~(missing \subseteq added)
             THEN Result("uncertain", AddSets(list, rows, missing \cap added),
                         [state |-> "uncertain", recs |-> kept])
        ELSE Result("ok", grown, [state |-> "applied", recs |-> kept \cup new])

\* CBMDPC_SetActiveOwned: every record of the stat takes the chosen pips, a
\* stat without one gets a new record.  Nothing is written unless every
\* record of the transaction is still in the list.
SetActive(list, tx, stat, pips, added) ==
    LET mine == Sets(list, stat)
        late == {i \in mine : ~Owns(tx, list[i])}
        recs == tx.recs \cup {Owned(list[i], list[i].act, FALSE) : i \in late}
        grown == [tx EXCEPT !.recs = recs]
        new == NewSet(list, stat, pips)
        floor == IF mine = {} THEN 0 ELSE RecordOf(grown, LastSet(list, stat)).start
    IN  IF tx.state # "applied" \/ (\E r \in tx.recs : ~Present(list, r)) \/ pips < floor
        THEN Result("no", list, tx)
        ELSE IF mine = {} /\ pips > 0
        THEN IF stat \in added
             THEN Result("ok", Append(list, new), [grown EXCEPT !.recs = recs \cup {Owned(new, 0, TRUE)}])
             ELSE Result("uncertain", list, [tx EXCEPT !.state = "uncertain"])
        ELSE Result("ok", [i \in DOMAIN list |-> IF i \in mine THEN [list[i] EXCEPT !.act = pips] ELSE list[i]],
                    grown)

\* Mutant: only the active class's three bits go back.
Rewound_ActiveOnly(tx, e) ==
    IF e.kind = "set" /\ Owns(tx, e) THEN [e EXCEPT !.act = RecordOf(tx, e).act] ELSE e

\* CBMDPC_Restore, after the game's own Cancel: the six bits of every record
\* it owns go back and the records it made leave the list.
Rewound(tx, e) ==
    IF e.kind = "set" /\ Owns(tx, e)
    THEN [e EXCEPT !.act = RecordOf(tx, e).act, !.old = RecordOf(tx, e).old] ELSE e

Without(list, gone) ==
    FoldLeft(LAMBDA kept, e : IF \E r \in gone : r.node = e.node THEN kept ELSE Append(kept, e),
             <<>>, list)
Restore(list, tx) ==
    LET kept == Without(list, {r \in tx.recs : r.created})
    IN  IF tx.state # "applied" \/ \E r \in tx.recs : ~Present(list, r)
        THEN Result("no", list, tx)
        ELSE Result("ok", [i \in DOMAIN kept |-> Rewound(tx, kept[i])], NoTx)

\* CBMDPC_Complete: the carriers a merge consumed leave the list, exactly as
\* they were read; a transaction without carriers is only forgotten.
Consumed(tx) == {r \in tx.recs : r.kind = "carrier"}

Complete(list, tx) ==
    IF tx.state # "applied" \/ \E r \in Consumed(tx) : ~Present(list, r)
    THEN Result("no", list, tx)
    ELSE Result("ok", Without(list, Consumed(tx)), NoTx)

\* CBMDPC_PersistDormant: the new rows become carriers, one for each stat.
Chosen(rows) == {s \in Stats : rows[s] > 0}
AddCarriers(list, rows, stats) ==
    FoldLeft(LAMBDA l, s : Append(l, NewCarrier(l, s, rows[s])), list, SetToSeq(stats))
PersistDormant(list, rows, made, added) ==
    IF \/ \E s \in Chosen(rows) : ReadOld(list, s) + rows[s] > MaxPips
       \/ ~made
    THEN Result("no", list, NoTx)
    ELSE IF ~(Chosen(rows) \subseteq added)
         THEN Result("uncertain", AddCarriers(list, rows, Chosen(rows) \cap added),
                     [state |-> "uncertain", recs |-> {}])
    ELSE Result("ok", AddCarriers(list, rows, Chosen(rows)), [state |-> "applied", recs |-> {}])
=============================================================================
