----------------------------- MODULE LevelScreen -----------------------------
(***************************************************************************)
(* What a level-up screen promises a character, whatever fails on it: the  *)
(* screen is a transaction.  It opens on a character whose book is sure,   *)
(* and it is applied (one level, its receipt, what was earned), dropped    *)
(* (the very book it was opened with) or in doubt for good.  Only a load   *)
(* ends a doubt, with the character as it was saved; and what was saved    *)
(* while a screen was open is in doubt itself.  A screen that failed is    *)
(* stuck: it opens, applies and drops nothing more, but the game's own     *)
(* buttons on it still write a character's active pips.                    *)
(***************************************************************************)
EXTENDS Naturals

CONSTANT Stats

VARIABLES
    living, \* the character: whether its book is sure, and the book if it is known
    kept,   \* the character as it was last saved
    screen  \* "none", "open" or "stuck"

vars == <<living, kept, screen>>

Sure(book) == [sure |-> TRUE, books |-> {book}]
Working(book) == [sure |-> FALSE, books |-> {book}]
Doubtful == [sure |-> FALSE, books |-> {}]

Init ==
    /\ screen = "none"
    /\ kept = living
    /\ \E book \in living.books :
          living = Sure(book) /\ book.level = 1 /\ book.receipts = 0

Open ==
    /\ screen = "none" /\ screen' = "open"
    /\ \E book \in living.books : living = Sure(book) /\ living' = Working(book)
    /\ UNCHANGED kept

\* The screen fails while it opens, before or after the character is in doubt.
Fail ==
    /\ screen = "none" /\ screen' = "stuck"
    /\ living' \in {living, Doubtful}
    /\ UNCHANGED kept

Apply ==
    /\ screen = "open" /\ screen' = "none"
    /\ \E book \in living.books, next \in living'.books :
          /\ living = Working(book) /\ living' = Sure(next)
          /\ next.level = book.level + 1 /\ next.receipts = book.receipts + 1
          /\ \A s \in Stats : next.earned[s] >= book.earned[s]
    /\ UNCHANGED kept

Drop ==
    /\ screen = "open" /\ screen' = "none"
    /\ \E book \in living.books : living' = Sure(book)
    /\ UNCHANGED kept

Doubt ==
    /\ screen = "open" /\ screen' = "stuck"
    /\ living' = Doubtful
    /\ UNCHANGED kept

\* The buttons of a stuck screen.
Touch ==
    /\ screen = "stuck"
    /\ \E book \in living.books, next \in living'.books :
          /\ living = Sure(book) /\ living' = Sure(next)
          /\ next = [book EXCEPT !.active = next.active]
    /\ UNCHANGED <<kept, screen>>

Save ==
    /\ kept' = IF screen = "open" THEN Doubtful ELSE living
    /\ UNCHANGED <<living, screen>>

Load ==
    /\ living' = kept
    /\ screen' = "none" \/ (screen # "none" /\ screen' = "stuck")
    /\ UNCHANGED kept

Next == Open \/ Fail \/ Apply \/ Drop \/ Doubt \/ Touch \/ Save \/ Load

Spec == Init /\ [][Next]_vars
=============================================================================
