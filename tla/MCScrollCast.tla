---------------------------- MODULE MCScrollCast ----------------------------
(***************************************************************************)
(* One reader, whose address may be reborn.  The run joins four slices of  *)
(* what its scrolls may do: two effects that are copied, linked and cast;  *)
(* effects that queue a message; effects that queue actions of one caster, *)
(* copied up to the last witness; casts of that caster inside each other.  *)
(* The run of the disagreement takes one scroll's actions and no slice.    *)
(***************************************************************************)
EXTENDS ScrollCast

CONSTANTS caster, queue

MCCasters == {caster}
MCReceivers == {caster, None}
MCFields == {caster, queue}
Swapped == Permutations(Effects)

Calls(kinds) == \A i \in DOMAIN stack : stack[i].kind \in kinds
CastsOn(receivers) ==
    \A i \in DOMAIN stack : stack[i].kind = "cast" => stack[i].object \in receivers
NoActions ==
    /\ \A f \in Fields : fields[f] = Idle
    /\ witnesses.issued = 0 /\ \A r \in Casters : working[r] = Native
NoMessages == \A m \in Messages : ~objects[m].alive
OneEffect == Cardinality({e \in Effects : objects[e].alive}) <= 1
OneLife == \A a \in Actors : life[a] = 1
OneScroll == Len(uses) <= 1
Shallow == \A o \in DOMAIN contexts : contexts[o].depth <= 1
Quiet == events.foreign = 0

OfEffects ==
    /\ NoActions /\ NoMessages
    /\ Calls({"item", "direct", "link", "cast"}) /\ CastsOn({None})
    /\ Quiet \/ OneScroll
    /\ Len(stack) <= IF Quiet /\ OneScroll THEN 3 ELSE 2
OfMessages ==
    /\ NoActions /\ OneEffect /\ Shallow
    /\ Calls({"item", "direct", "message", "run", "cast"}) /\ CastsOn({None})
    /\ Len(stack) <= 2 /\ (Quiet \/ OneScroll)
OfActions ==
    /\ NoMessages /\ OneEffect /\ OneLife /\ Shallow /\ Quiet
    /\ Calls({"item", "action", "cast"}) /\ CastsOn(Casters)
Queued == Len(stack) <= 1 /\ (events.uncounted = 0 \/ witnesses.issued <= 2)
Nested == Len(stack) <= 2 /\ OneScroll /\ witnesses.issued <= 1 /\ events.uncounted = 0

Slices == OfEffects \/ OfMessages \/ (OfActions /\ (Queued \/ Nested))
=============================================================================
