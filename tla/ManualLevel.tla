----------------------------- MODULE ManualLevel -----------------------------
(***************************************************************************)
(* What the manual old-class level promises, whoever calls it and whatever *)
(* the adapter answers: one attempt is open at a time, and it ends either  *)
(* applied or dropped, for good.                                           *)
(***************************************************************************)
CONSTANT Attempts

VARIABLE status

Init == status = [t \in Attempts |-> "fresh"]

NoneOpen == \A t \in Attempts : status[t] # "open"

Open(t) ==
    /\ status[t] = "fresh"
    /\ NoneOpen
    /\ status' = [status EXCEPT ![t] = "open"]

Apply(t) ==
    /\ status[t] = "open"
    /\ status' = [status EXCEPT ![t] = "applied"]

Drop(t) ==
    /\ status[t] = "open"
    /\ status' = [status EXCEPT ![t] = "dropped"]

Next == \E t \in Attempts : Open(t) \/ Apply(t) \/ Drop(t)

Spec == Init /\ [][Next]_status
=============================================================================
