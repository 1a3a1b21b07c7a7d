---------------------------- MODULE MCOldClassRules ----------------------------
(***************************************************************************)
(* Levels 0..4.  The experience tables: an ordinary one that ends, one with *)
(* a row no experience reaches, one whose thresholds fall again, one that  *)
(* does not parse in the middle, one that never ends, so that the byte runs *)
(* over, and one with a negative cell, which as a word of 0..7 is more than *)
(* 3: nothing reaches it before the experience is 4.                       *)
(***************************************************************************)
EXTENDS OldClassRules

CONSTANTS hide, locks, b

Thief == {hide}
T(a, c, d, e, f) == [n \in 0..4 |-> <<a, c, d, e, f>>[n + 1]]
Tables == {T(0, 0, 1, 3, -1), T(-1, 0, 1, -1, 2), T(0, 0, 2, 1, 3), T(0, 0, 1, b, 3),
           T(-1, 0, 0, 1, 2), T(0, 0, 1, 1, 2),
           T(-1, 0, 1, -4, 2), T(0, -3, 0, 2, 3)}
Hlas == {[first |-> 2, rate |-> 2, change |-> 4, new_rate |-> 4],
         [first |-> 1, rate |-> 4, change |-> 3, new_rate |-> 2],
         [first |-> 2, rate |-> 1, change |-> 3, new_rate |-> 0],
         [first |-> 4, rate |-> 0, change |-> 2, new_rate |-> -2]}
Rules == {[next |-> t, first |-> 4, rate |-> r, per_level |-> p, hla |-> h] :
            t \in Tables, r \in {1, 2, 3}, p \in {0, 1}, h \in Hlas}
=============================================================================
