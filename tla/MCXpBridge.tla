----------------------------- MODULE MCXpBridge -----------------------------
(***************************************************************************)
(* Small words: 0..7, of which 1..3 are positive amounts and 4..7 losses.  *)
(* The run joins three slices: one actor with a SET or an award, a loss    *)
(* that is set, and one crash, load, lost actor or other thread; one actor *)
(* with two awards and room for one retry; two actors that share an effect *)
(* address.  Only what the environment starts takes a behaviour out of its *)
(* slice, never a step that fairness promises.                             *)
(***************************************************************************)
EXTENDS XpBridge

CONSTANTS s1, s2, e1, e2

Add(n) == [mode |-> "add", raw |-> n]
Set(n) == [mode |-> "set", raw |-> n]

ASetOrAnAward == {Add(3), Set(6)}
ALoss == {Add(6)}

\* The actors are alike: s1 has the first incarnation of the process.
FirstOfTwo == tally.events = 0 => actors[s1].inc = 1

Alone(s) ==
    \A x \in Sprites \ {s} :
        /\ actors[x].inc = 2 /\ aux[x] = NoCarrier /\ disk[x].carrier = NoCarrier
        /\ x \notin foreign
        /\ \A e \in Effects : effects[e].sprite # x
        /\ \A i \in DOMAIN calls : calls[i].sprite # x
OneEffect == effects[e2] = Free
AwardsOnly == \A e \in Effects : effects[e].shape # Set(6)
Quiet == tally.events = 0

Slices ==
    /\ FirstOfTwo
    /\ \/ Alone(s1) /\ OneEffect /\ (Quiet \/ AwardsOnly \/ tally.sets = 0)
       \/ Alone(s1) /\ AwardsOnly /\ Quiet
       \/ OneEffect /\ AwardsOnly /\ Quiet /\ tally.sets = 0
=============================================================================
