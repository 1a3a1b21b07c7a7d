-------------------------- MODULE OldAbilitiesProofs --------------------------
(***************************************************************************)
(* For any catalogue, batch size and bounds: no ability of a dormant old   *)
(* class is granted twice or lost, an interrupted delivery leaves at most  *)
(* one batch in doubt, and the page offers what the game's rules allow     *)
(* when everything granted, waiting and chosen is counted.                 *)
(***************************************************************************)
EXTENDS OldAbilities, SequenceTheorems, FiniteSetTheorems, TLAPS

Ticket == [n : Nat, row : Rows]
ManualJournal ==
    [stage : {"none", "preview", "committing", "uncertain"}, session : Nat, inc : Nat,
     retired : BOOLEAN, choices : Seq(Ticket), enqueued : BOOLEAN,
     old : {"none", "prepared", "deferred", "complete", "uncertain"}, count : Nat]
DeliveryJournal ==
    [stage : {"none", "delivering", "uncertain"}, session : Nat, count : Nat, completed : Nat]
Account ==
    [queue : Seq(Ticket), delivery : DeliveryJournal, manual : ManualJournal, xp : Nat,
     made : Nat, earned : SUBSET Ticket]
Actor == [inc : Nat, dormant : BOOLEAN, granted : Seq(Ticket), xp : Nat]
Screen ==
    [phase : {"closed", "preview", "committing", "uncertain"}, session : Nat, inc : Nat,
     owner : BOOLEAN]
Call ==
    [at : {"none", "native", "deliver", "returned"}, n : Nat, rows : Seq(Ticket),
     fired : Nat, done : Nat, status : {-1, 0, 1}]
Page == [open : BOOLEAN, points : Int, picks : Seq(Rows)]

Typed ==
    /\ actor \in Actor
    /\ account \in Account
    /\ saved \in [actor : Actor, account : Account]
    /\ page \in Page
    /\ screen \in Screen
    /\ call \in Call
    /\ next_session \in Nat

\* The tickets of a character, live or saved: each is older than the next one.
Has(s, t) == \E i \in DOMAIN s : s[i] = t
Older(s, c) == \A i \in DOMAIN s : s[i].n <= c.made
Distinct(a, c) ==
    /\ OnceEach(a.granted) /\ OnceEach(c.queue) /\ OnceEach(c.manual.choices)
    /\ Older(a.granted, c) /\ Older(c.queue, c) /\ Older(c.manual.choices, c)

Apart(s, t) == \A x \in Ticket : ~(Has(s, x) /\ Has(t, x))
Held(a, c, x) == Has(a.granted, x) \/ Has(c.queue, x)

\* Nothing is under way: what was earned is what is granted or waits.
Quiet(a, c) ==
    /\ c.delivery.stage = "none"
    /\ \A x \in Ticket : x \in c.earned <=> Held(a, c, x)
    /\ Apart(a.granted, c.queue)
    /\ Apart(a.granted, c.manual.choices) /\ Apart(c.queue, c.manual.choices)

\* One batch at most is in doubt.
KnownTo(c) == Smaller(c.delivery.completed * Batch, c.delivery.count)
OneBatch(a, c) ==
    /\ c.delivery.count = Len(c.queue)
    /\ \A i \in DOMAIN c.queue :
         /\ i <= KnownTo(c) => Has(a.granted, c.queue[i])
         /\ i > KnownTo(c) + Batch => ~Has(a.granted, c.queue[i])

Books(a, c) ==
    /\ Distinct(a, c)
    /\ \A x \in c.earned : Held(a, c, x)
    /\ c.manual.stage \in {"none", "preview"} => Quiet(a, c)
    /\ c.manual.stage = "preview" => ~c.manual.enqueued
    /\ c.manual.choices # <<>> => c.manual.retired
    /\ c.delivery.stage = "uncertain" => OneBatch(a, c)

\* What the handler under way may rely on.  The choices have joined the queue;
\* a delivery then grants it from the front.
Joined ==
    /\ account.manual.stage \in {"committing", "uncertain"}
    /\ \A x \in Ticket :
         Held(actor, account, x) <=> x \in account.earned \/ Has(account.manual.choices, x)
Waiting ==
    /\ Joined
    /\ account.delivery.stage = "none"
    /\ account.manual.count = Len(account.queue)
    /\ Apart(actor.granted, account.queue)
Whole(n) == n = Len(account.queue) \/ \E k \in Nat : n = k * Batch
Running ==
    /\ Joined
    /\ account.delivery.stage = "delivering"
    /\ account.delivery.count = Len(account.queue)
    /\ call.rows = account.queue
    /\ call.done <= Len(account.queue) /\ Whole(call.done)
Granting ==
    /\ call.fired <= Size
    /\ \A i \in DOMAIN account.queue :
         Has(actor.granted, account.queue[i]) <=> i <= call.done + call.fired
Returned ==
    /\ call.status = 1 => call.done = Len(account.queue)
    /\ \A i \in DOMAIN account.queue :
         /\ i <= call.done => Has(actor.granted, account.queue[i])
         /\ i > call.done + Batch => ~Has(actor.granted, account.queue[i])
Doing ==
    /\ call.at = "native" => Waiting
    /\ call.at = "deliver" => Running /\ Granting
    /\ call.at = "returned" => Running /\ Returned

\* The page closes before a screen opens, and a screen is in preview only while
\* no handler of it is under way.
Shown ==
    /\ page.open => screen.phase = "closed" /\ actor.dormant
    /\ ~page.open => page.picks = <<>>
    /\ screen.phase \in {"closed", "preview"} => call.at = "none"
    /\ screen.phase # "closed" => screen.inc <= actor.inc
    /\ screen.phase = "preview" /\ screen.inc = actor.inc => account.manual.stage = "preview"

IInv ==
    /\ Typed
    /\ Books(actor, account) /\ Books(saved.actor, saved.account)
    /\ Doing
    /\ Shown
-----------------------------------------------------------------------------
(* Arithmetic of batches.                                                   *)

LEMMA DivisionFact ==
    ASSUME NEW m \in Nat, NEW b \in Nat \ {0}
    PROVE  m \div b \in Nat /\ (m \div b) * b <= m /\ m < (m \div b) * b + b
OBVIOUS

LEMMA MultipleFact ==
    ASSUME NEW k \in Nat, NEW q \in Nat, NEW b \in Nat \ {0}, k * b <= q * b, q * b < k * b + b
    PROVE  q * b = k * b
<1>1. CASE q <= k
  <2>1. q * b <= k * b
    BY <1>1
  <2> QED
    BY <2>1
<1>2. CASE q > k
  <2>1. q - k - 1 \in Nat
    BY <1>2
  <2>2. (q - k - 1) * b \in Nat
    BY <2>1
  <2>3. (q - k - 1) * b = q * b - k * b - b
    BY <2>1
  <2> QED
    BY <2>2, <2>3
<1> QED
  BY <1>1, <1>2

\* The batches of a delivery that stopped after n abilities hold exactly those.
LEMMA BatchesFact ==
    ASSUME NEW len \in Nat, NEW n \in 0..len, n = len \/ \E k \in Nat : n = k * Batch
    PROVE  /\ Batches(n) \in Nat
           /\ Smaller(Batches(n) * Batch, len) = n
<1>1. Batch \in Nat \ {0} /\ n \in Nat
  BY AbilityAssumption
<1>2. n + Batch - 1 \in Nat
  BY <1>1
<1> DEFINE q == Batches(n)
<1>3. q \in Nat /\ q * Batch <= n + Batch - 1 /\ n + Batch - 1 < q * Batch + Batch
  BY <1>1, <1>2, DivisionFact DEF Batches
<1> HIDE DEF q
<1>4. q * Batch \in Nat
  BY <1>1, <1>3
<1>5. n <= q * Batch /\ q * Batch < n + Batch
  BY <1>1, <1>3, <1>4
<1>6. CASE n = len
  BY <1>1, <1>3, <1>4, <1>5, <1>6 DEF Smaller, q
<1>7. ASSUME NEW k \in Nat, n = k * Batch
      PROVE  Smaller(q * Batch, len) = n
  <2>1. q * Batch = n
    BY <1>1, <1>3, <1>5, <1>7, MultipleFact
  <2> QED
    BY <2>1 DEF Smaller
<1> QED
  BY <1>3, <1>6, <1>7 DEF q
-----------------------------------------------------------------------------
(* Tickets in sequences.                                                    *)

LEMMA TicketSeq ==
    ASSUME NEW s \in Seq(Ticket)
    PROVE  Len(s) \in Nat /\ DOMAIN s = 1..Len(s) /\ \A i \in DOMAIN s : s[i] \in Ticket
BY LenProperties, ElementOfSeq

LEMMA HasConcat ==
    ASSUME NEW s \in Seq(Ticket), NEW t \in Seq(Ticket), NEW x
    PROVE  Has(s \o t, x) <=> Has(s, x) \/ Has(t, x)
<1>1. /\ Len(s) \in Nat /\ DOMAIN s = 1..Len(s)
      /\ Len(t) \in Nat /\ DOMAIN t = 1..Len(t)
  BY TicketSeq
<1>2. s \o t \in Seq(Ticket) /\ Len(s \o t) = Len(s) + Len(t)
  BY ConcatProperties
<1>3. DOMAIN (s \o t) = 1..(Len(s) + Len(t))
  BY <1>2, TicketSeq
<1>4. \A i \in 1..(Len(s) + Len(t)) : (s \o t)[i] = IF i <= Len(s) THEN s[i] ELSE t[i - Len(s)]
  BY ConcatProperties
<1>5. ASSUME NEW i \in 1..Len(s), s[i] = x PROVE Has(s \o t, x)
  BY <1>1, <1>3, <1>4, <1>5 DEF Has
<1>6. ASSUME NEW i \in 1..Len(t), t[i] = x PROVE Has(s \o t, x)
  <2>1. i + Len(s) \in 1..(Len(s) + Len(t)) /\ (s \o t)[i + Len(s)] = x
    BY <1>1, <1>4, <1>6
  <2> QED
    BY <1>3, <2>1 DEF Has
<1>7. ASSUME NEW i \in 1..(Len(s) + Len(t)), (s \o t)[i] = x PROVE Has(s, x) \/ Has(t, x)
  <2>1. CASE i <= Len(s)
    BY <1>1, <1>4, <1>7, <2>1 DEF Has
  <2>2. CASE i > Len(s)
    <3>1. i - Len(s) \in 1..Len(t) /\ t[i - Len(s)] = x
      BY <1>1, <1>4, <1>7, <2>2
    <3> QED
      BY <1>1, <3>1 DEF Has
  <2> QED
    BY <1>1, <2>1, <2>2
<1> QED
  BY <1>1, <1>3, <1>5, <1>6, <1>7 DEF Has

LEMMA OnceConcat ==
    ASSUME NEW s \in Seq(Ticket), NEW t \in Seq(Ticket), OnceEach(s), OnceEach(t), Apart(s, t)
    PROVE  OnceEach(s \o t)
<1>1. /\ Len(s) \in Nat /\ DOMAIN s = 1..Len(s) /\ \A i \in DOMAIN s : s[i] \in Ticket
      /\ Len(t) \in Nat /\ DOMAIN t = 1..Len(t)
  BY TicketSeq
<1>2. DOMAIN (s \o t) = 1..(Len(s) + Len(t))
  BY ConcatProperties, TicketSeq
<1>3. \A i \in 1..(Len(s) + Len(t)) : (s \o t)[i] = IF i <= Len(s) THEN s[i] ELSE t[i - Len(s)]
  BY ConcatProperties
<1>4. ASSUME NEW i \in 1..Len(s), NEW j \in 1..(Len(s) + Len(t)), j > Len(s), (s \o t)[i] = (s \o t)[j]
      PROVE  FALSE
  <2>1. (s \o t)[i] = s[i] /\ s[i] \in Ticket /\ Has(s, s[i])
    BY <1>1, <1>3 DEF Has
  <2>2. (s \o t)[j] = t[j - Len(s)] /\ j - Len(s) \in DOMAIN t
    BY <1>1, <1>3, <1>4
  <2>3. Has(t, s[i])
    BY <1>4, <2>1, <2>2 DEF Has
  <2> QED
    BY <2>1, <2>3 DEF Apart
<1>5. ASSUME NEW i \in 1..(Len(s) + Len(t)), NEW j \in 1..(Len(s) + Len(t)),
             (s \o t)[i] = (s \o t)[j]
      PROVE  i = j
  <2>1. CASE i <= Len(s) /\ j <= Len(s)
    BY <1>1, <1>3, <1>5, <2>1 DEF OnceEach
  <2>2. CASE i > Len(s) /\ j > Len(s)
    <3>1. t[i - Len(s)] = t[j - Len(s)] /\ i - Len(s) \in DOMAIN t /\ j - Len(s) \in DOMAIN t
      BY <1>1, <1>3, <1>5, <2>2
    <3>2. i - Len(s) = j - Len(s)
      BY <3>1 DEF OnceEach
    <3> QED
      BY <1>1, <3>2
  <2>3. CASE i <= Len(s) /\ j > Len(s)
    BY <1>1, <1>4, <1>5, <2>3
  <2>4. CASE i > Len(s) /\ j <= Len(s)
    BY <1>1, <1>4, <1>5, <2>4
  <2> QED
    BY <1>1, <2>1, <2>2, <2>3, <2>4
<1> QED
  BY <1>2, <1>5 DEF OnceEach

LEMMA AppendFact ==
    ASSUME NEW s \in Seq(Ticket), NEW e \in Ticket
    PROVE  /\ Append(s, e) \in Seq(Ticket)
           /\ \A x : Has(Append(s, e), x) <=> Has(s, x) \/ x = e
           /\ OnceEach(s) /\ ~Has(s, e) => OnceEach(Append(s, e))
           /\ \A c : Older(s, c) /\ e.n <= c.made => Older(Append(s, e), c)
<1>1. Len(s) \in Nat /\ DOMAIN s = 1..Len(s)
  BY TicketSeq
<1>2. /\ Append(s, e) \in Seq(Ticket) /\ Len(Append(s, e)) = Len(s) + 1
      /\ \A i \in 1..Len(s) : Append(s, e)[i] = s[i]
      /\ Append(s, e)[Len(s) + 1] = e
  BY AppendProperties
<1>3. DOMAIN Append(s, e) = 1..(Len(s) + 1)
  BY <1>2, TicketSeq
<1>4. 1..(Len(s) + 1) = 1..Len(s) \cup {Len(s) + 1}
  BY <1>1
<1> DEFINE a == Append(s, e)
<1> HIDE DEF a
<1>5. \A x : Has(a, x) <=> Has(s, x) \/ x = e
  BY <1>1, <1>2, <1>3, <1>4 DEF Has, a
<1>6. OnceEach(s) /\ ~Has(s, e) => OnceEach(a)
  BY <1>1, <1>2, <1>3, <1>4 DEF Has, OnceEach, a
<1>7. \A c : Older(s, c) /\ e.n <= c.made => Older(a, c)
  BY <1>1, <1>2, <1>3, <1>4 DEF Older, a
<1> QED
  BY <1>2, <1>5, <1>6, <1>7 DEF a
-----------------------------------------------------------------------------
(* Types.                                                                   *)

Mark(c) == [c EXCEPT !.manual.stage = "uncertain"]

LEMMA MarkFact ==
    ASSUME NEW c \in Account
    PROVE  /\ Mark(c) \in Account
           /\ Mark(c).queue = c.queue /\ Mark(c).earned = c.earned /\ Mark(c).made = c.made
           /\ Mark(c).delivery = c.delivery /\ Mark(c).xp = c.xp
           /\ Mark(c).manual.choices = c.manual.choices /\ Mark(c).manual.retired = c.manual.retired
           /\ Mark(c).manual.enqueued = c.manual.enqueued /\ Mark(c).manual.count = c.manual.count
           /\ Mark(c).manual.stage = "uncertain"
BY DEF Mark, Account, ManualJournal

LEMMA UncertainFact ==
    ASSUME NEW c \in Account, NEW s \in Screen, Uncertain(c, s)
    PROVE  /\ account' \in {c, Mark(c)}
           /\ account' \in Account
           /\ screen' \in Screen /\ screen'.phase = "uncertain" /\ screen'.inc = s.inc
BY MarkFact DEF Uncertain, Mark, Screen

LEMMA EmptyFacts ==
    /\ NoManual \in ManualJournal /\ NoDelivery \in DeliveryJournal
    /\ NoScreen \in Screen /\ NoCall \in Call /\ NoCall.at = "none"
    /\ NoPage \in Page
    /\ NoManual.choices = <<>> /\ NoManual.stage = "none"
<1>1. <<>> \in Seq(Ticket) /\ <<>> \in Seq(Rows)
  BY EmptySeq
<1>2. NoManual \in ManualJournal /\ NoManual.choices = <<>> /\ NoManual.stage = "none"
  BY <1>1 DEF NoManual, ManualJournal
<1>3. NoDelivery \in DeliveryJournal /\ NoScreen \in Screen
  BY DEF NoDelivery, DeliveryJournal, NoScreen, Screen
<1>4. NoCall \in Call /\ NoCall.at = "none"
  BY <1>1 DEF NoCall, Call
<1>5. NoPage \in Page
  BY <1>1 DEF NoPage, Page
<1> QED
  BY <1>2, <1>3, <1>4, <1>5

LEMMA PageFact ==
    ASSUME NEW p \in Page, NEW n \in Int, NEW s \in Seq(Rows)
    PROVE  [p EXCEPT !.points = n, !.picks = s] \in Page
BY DEF Page

LEMMA RewardedFact ==
    ASSUME NEW c \in Account, NEW n \in Nat
    PROVE  /\ [c EXCEPT !.xp = n] \in Account
           /\ [c EXCEPT !.xp = n].queue = c.queue /\ [c EXCEPT !.xp = n].earned = c.earned
           /\ [c EXCEPT !.xp = n].delivery = c.delivery /\ [c EXCEPT !.xp = n].made = c.made
           /\ [c EXCEPT !.xp = n].manual = c.manual
BY DEF Account

LEMMA PickSeq ==
    ASSUME NEW s \in Seq(Rows)
    PROVE  /\ Len(s) \in Nat /\ DOMAIN s = 1..Len(s) /\ \A i \in DOMAIN s : s[i] \in Rows
           /\ \A row \in Rows : Append(s, row) \in Seq(Rows)
           /\ \A i \in DOMAIN s : RemoveAt(s, i) \in Seq(Rows)
<1>1. Len(s) \in Nat /\ DOMAIN s = 1..Len(s) /\ \A i \in DOMAIN s : s[i] \in Rows
  BY LenProperties, ElementOfSeq
<1>2. ASSUME NEW i \in DOMAIN s PROVE RemoveAt(s, i) \in Seq(Rows)
  <2>1. i \in Int /\ i - 1 \in Int /\ i + 1 \in Int /\ Len(s) \in Int
    BY <1>1
  <2>2. \A k \in 1..(i - 1) : s[k] \in Rows
    BY <1>1
  <2>3. \A k \in (i + 1)..Len(s) : s[k] \in Rows
    BY <1>1
  <2>4. SubSeq(s, 1, i - 1) \in Seq(Rows) /\ SubSeq(s, i + 1, Len(s)) \in Seq(Rows)
    BY <2>1, <2>2, <2>3, SubSeqProperties
  <2> QED
    BY <2>4, ConcatProperties DEF RemoveAt
<1> QED
  BY <1>1, <1>2, AppendProperties

\* The tickets of the picks: new ones, each its own.
LEMMA ChosenFact ==
    ASSUME Typed
    PROVE  /\ Chosen \in Seq(Ticket) /\ Len(page.picks) \in Nat
           /\ OnceEach(Chosen)
           /\ \A i \in DOMAIN Chosen : Chosen[i].n > account.made
           /\ \A i \in DOMAIN Chosen : Chosen[i].n <= account.made + Len(page.picks)
           /\ Chosen # <<>> => page.picks # <<>>
<1>1. page.picks \in Seq(Rows) /\ account.made \in Nat
  BY DEF Typed, Account, Page
<1>2. /\ Len(page.picks) \in Nat /\ DOMAIN page.picks = 1..Len(page.picks)
      /\ \A i \in DOMAIN page.picks : page.picks[i] \in Rows
  BY <1>1, PickSeq
<1>3. \A i \in 1..Len(page.picks) : [n |-> account.made + i, row |-> page.picks[i]] \in Ticket
  BY <1>1, <1>2 DEF Ticket
<1>4. /\ DOMAIN Chosen = 1..Len(page.picks)
      /\ \A i \in 1..Len(page.picks) : Chosen[i] = [n |-> account.made + i, row |-> page.picks[i]]
  BY <1>2 DEF Chosen
<1>5. Chosen \in [1..Len(page.picks) -> Ticket]
  BY <1>2, <1>3 DEF Chosen
<1>6. Chosen \in Seq(Ticket)
  BY <1>2, <1>5, SeqDef
<1>7. ASSUME NEW i \in 1..Len(page.picks)
      PROVE  Chosen[i].n = account.made + i
  <2>1. Chosen[i] = [n |-> account.made + i, row |-> page.picks[i]]
    BY <1>4
  <2> QED
    BY <2>1
<1>8. OnceEach(Chosen)
  <2> SUFFICES ASSUME NEW i \in 1..Len(page.picks), NEW j \in 1..Len(page.picks),
                      Chosen[i] = Chosen[j]
               PROVE  i = j
    BY <1>4 DEF OnceEach
  <2>1. account.made + i = account.made + j
    BY <1>7
  <2> QED
    BY <1>1, <1>2, <2>1
<1>9. Chosen # <<>> => page.picks # <<>>
  BY <1>2, <1>4, <1>5, <1>6, EmptySeq, LenProperties
<1>10. \A i \in DOMAIN Chosen :
          Chosen[i].n > account.made /\ Chosen[i].n <= account.made + Len(page.picks)
  BY <1>1, <1>2, <1>4, <1>7
<1> QED
  BY <1>2, <1>6, <1>8, <1>9, <1>10

LEMMA JournaledFact ==
    ASSUME Typed, NEW retired \in BOOLEAN
    PROVE  LET c == Journaled(retired)
           IN  /\ c \in Account
               /\ c.queue = account.queue /\ c.earned = account.earned
               /\ c.delivery = account.delivery /\ c.xp = account.xp
               /\ c.made = account.made + Len(page.picks)
               /\ c.manual.stage = "preview" /\ c.manual.choices = Chosen
               /\ c.manual.retired = retired /\ c.manual.enqueued = FALSE
<1>1. Chosen \in Seq(Ticket) /\ Len(page.picks) \in Nat
  BY ChosenFact
<1>2. account \in Account /\ actor.inc \in Nat /\ next_session + 1 \in Nat
  BY DEF Typed, Actor
<1>3. NoManual \in ManualJournal
  BY EmptyFacts
<1> DEFINE m == [NoManual EXCEPT !.stage = "preview", !.session = next_session + 1,
                                 !.inc = actor.inc, !.retired = retired, !.choices = Chosen]
<1>4. /\ m \in ManualJournal /\ m.stage = "preview" /\ m.choices = Chosen
      /\ m.retired = retired /\ m.enqueued = FALSE
  <2>1. NoManual.enqueued = FALSE
    BY DEF NoManual
  <2> QED
    BY <1>1, <1>2, <1>3, <2>1 DEF ManualJournal
<1> HIDE DEF m
<1>5. Journaled(retired) = [account EXCEPT !.made = @ + Len(page.picks), !.manual = m]
  BY DEF Journaled, m
<1>6. account.made + Len(page.picks) \in Nat
  BY <1>1, <1>2 DEF Account
<1> DEFINE made == account.made + Len(page.picks)
<1> HIDE DEF made
<1>7. Journaled(retired) = [account EXCEPT !.made = made, !.manual = m]
  BY <1>5 DEF made
<1>8. /\ Journaled(retired) \in Account
      /\ Journaled(retired).queue = account.queue
      /\ Journaled(retired).earned = account.earned
      /\ Journaled(retired).delivery = account.delivery
      /\ Journaled(retired).xp = account.xp
      /\ Journaled(retired).made = made /\ Journaled(retired).manual = m
  <2>1. made \in Nat
    BY <1>6 DEF made
  <2> QED
    BY <1>2, <1>4, <1>7, <2>1 DEF Account
<1> QED
  BY <1>4, <1>8 DEF made

LEMMA PreparedFact ==
    ASSUME Typed
    PROVE  /\ Prepared \in Account
           /\ Prepared.queue = Preview(account) /\ Prepared.queue \in Seq(Ticket)
           /\ Prepared.manual.stage = "committing"
           /\ Prepared.manual.choices = account.manual.choices
           /\ Prepared.manual.retired = account.manual.retired
           /\ Prepared.manual.count = Len(Prepared.queue)
           /\ Prepared.earned = account.earned /\ Prepared.made = account.made
           /\ Prepared.delivery = account.delivery /\ Prepared.xp = account.xp
<1>1. /\ account \in Account /\ account.manual \in ManualJournal
      /\ account.queue \in Seq(Ticket) /\ account.manual.choices \in Seq(Ticket)
  BY DEF Typed, Account, ManualJournal
<1>2. Preview(account) \in Seq(Ticket)
  BY <1>1, ConcatProperties, EmptySeq DEF Preview
<1> DEFINE q == Preview(account)
           old == account.manual
           m == [old EXCEPT !.stage = "committing", !.enqueued = old.retired,
                            !.old = "prepared", !.count = Len(q)]
<1> HIDE DEF q, old
<1>3. Len(q) \in Nat
  BY <1>2, LenProperties DEF q
<1>4. /\ m \in ManualJournal /\ m.stage = "committing" /\ m.choices = old.choices
      /\ m.retired = old.retired /\ m.count = Len(q)
  BY <1>1, <1>3 DEF ManualJournal, old
<1> HIDE DEF m
<1>5. Prepared = [account EXCEPT !.queue = q, !.manual = m]
  BY DEF Prepared, q, m, old
<1>6. /\ Prepared \in Account /\ Prepared.queue = q /\ Prepared.manual = m
      /\ Prepared.earned = account.earned /\ Prepared.made = account.made
      /\ Prepared.delivery = account.delivery /\ Prepared.xp = account.xp
  BY <1>1, <1>2, <1>4, <1>5 DEF Account, q
<1> QED
  BY <1>2, <1>4, <1>6 DEF q, old

LEMMA ReceiptedFact ==
    ASSUME NEW c \in Account
    PROVE  /\ Receipted(c) \in Account
           /\ \A x \in Ticket : x \in Receipted(c).earned <=> x \in c.earned \/ Has(c.manual.choices, x)
           /\ Receipted(c).queue = c.queue /\ Receipted(c).made = c.made
           /\ Receipted(c).delivery = c.delivery /\ Receipted(c).xp = c.xp
           /\ Receipted(c).manual = NoManual
<1>1. c.manual.choices \in Seq(Ticket) /\ c.earned \in SUBSET Ticket
  BY DEF Account, ManualJournal
<1>2. ToSet(c.manual.choices) \in SUBSET Ticket
  BY <1>1, TicketSeq DEF ToSet
<1> DEFINE e == c.earned \cup ToSet(c.manual.choices)
<1>3. e \in SUBSET Ticket
  BY <1>1, <1>2
<1>4. \A x : x \in e <=> x \in c.earned \/ Has(c.manual.choices, x)
  BY DEF ToSet, Has
<1> HIDE DEF e
<1>5. Receipted(c) = [c EXCEPT !.manual = NoManual, !.earned = e]
  BY DEF Receipted, e
<1>6. /\ Receipted(c) \in Account /\ Receipted(c).earned = e
      /\ Receipted(c).queue = c.queue /\ Receipted(c).made = c.made
      /\ Receipted(c).delivery = c.delivery /\ Receipted(c).xp = c.xp
      /\ Receipted(c).manual = NoManual
  BY <1>3, <1>5, EmptyFacts DEF Account
<1> QED
  BY <1>4, <1>6

\* The two ends of a commit.
LEMMA FinishFact ==
    ASSUME NEW c \in Account, screen \in Screen, Finish(c)
    PROVE  /\ account' \in {Receipted(c), c, Mark(c)}
           /\ account' \in Account
           /\ screen' \in Screen
           /\ \/ account' = Receipted(c) /\ screen' = NoScreen
              \/ account' \in {c, Mark(c)} /\ screen'.phase = "uncertain" /\ screen'.inc = screen.inc
<1>1. CASE account' = Receipted(c) /\ screen' = NoScreen
  BY <1>1, ReceiptedFact, EmptyFacts
<1>2. CASE Uncertain(c, screen)
  BY <1>2, UncertainFact
<1> QED
  BY <1>1, <1>2 DEF Finish

\* What a finished delivery leaves: nothing waits.
Delivered(c) == [c EXCEPT !.queue = <<>>, !.delivery = NoDelivery, !.manual.old = "complete"]
Doubted(c, n) == [c EXCEPT !.delivery.stage = "uncertain", !.delivery.completed = n,
                           !.manual.old = "uncertain"]

LEMMA DeliveredFact ==
    ASSUME NEW c \in Account
    PROVE  /\ Delivered(c) \in Account
           /\ Delivered(c).queue = <<>> /\ Delivered(c).delivery = NoDelivery
           /\ Delivered(c).earned = c.earned /\ Delivered(c).made = c.made
           /\ Delivered(c).xp = c.xp
           /\ Delivered(c).manual.choices = c.manual.choices
           /\ Delivered(c).manual.stage = c.manual.stage
           /\ Delivered(c).manual.retired = c.manual.retired
<1>1. <<>> \in Seq(Ticket)
  BY EmptySeq
<1> QED
  BY <1>1, EmptyFacts DEF Delivered, Account, ManualJournal

LEMMA DoubtedFact ==
    ASSUME NEW c \in Account, NEW n \in Nat
    PROVE  /\ Doubted(c, n) \in Account
           /\ Doubted(c, n).queue = c.queue /\ Doubted(c, n).earned = c.earned
           /\ Doubted(c, n).made = c.made /\ Doubted(c, n).xp = c.xp
           /\ Doubted(c, n).delivery.completed = n
           /\ Doubted(c, n).delivery.count = c.delivery.count
           /\ Doubted(c, n).manual.choices = c.manual.choices
           /\ Doubted(c, n).manual.stage = c.manual.stage
           /\ Doubted(c, n).manual.retired = c.manual.retired
BY DEF Doubted, Account, ManualJournal, DeliveryJournal

LEMMA TypedFacts ==
    ASSUME Typed
    PROVE  /\ actor \in Actor /\ account \in Account /\ screen \in Screen /\ call \in Call
           /\ saved.actor \in Actor /\ saved.account \in Account
           /\ actor.granted \in Seq(Ticket) /\ account.queue \in Seq(Ticket)
           /\ account.manual.choices \in Seq(Ticket) /\ call.rows \in Seq(Ticket)
           /\ account.earned \in SUBSET Ticket /\ account.made \in Nat
           /\ call.done \in Nat /\ call.fired \in Nat
BY DEF Typed, Actor, Account, ManualJournal, Call

LEMMA SizeFact ==
    ASSUME Typed, call.done <= Len(call.rows)
    PROVE  Size \in Nat /\ Size <= Batch /\ call.done + Size <= Len(call.rows)
<1>1. Len(call.rows) \in Nat /\ call.done \in Nat
  BY TypedFacts, TicketSeq
<1> QED
  BY <1>1, AbilityAssumption DEF Size, Smaller

\* The refused handlers, and the screens that begin.
LEMMA ScreenTyped ==
    ASSUME Typed, UNCHANGED <<actor, saved, call>>,
           \/ next_session' = next_session /\ page' = page
           \/ next_session' = next_session + 1 /\ page' = NoPage,
           account' \in Account, screen' \in Screen
    PROVE  Typed'
BY EmptyFacts DEF Typed

LEMMA BeginTyped ==
    ASSUME Typed, BeginRefused \/ BeginFails \/ Begin
    PROVE  Typed'
<1>1. /\ UNCHANGED <<actor, saved, call>>
      /\ next_session' = next_session + 1 /\ page' = NoPage
  BY DEF BeginRefused, BeginFails, Begin, StartScreen
<1>2. Journaled(actor.dormant) \in Account
  <2>1. actor.dormant \in BOOLEAN
    BY DEF Typed, Actor
  <2> QED
    BY <2>1, JournaledFact
<1>3. NewScreen \in Screen /\ [NewScreen EXCEPT !.owner = TRUE] \in Screen
  <2>1. actor.inc \in Nat /\ next_session + 1 \in Nat
    BY DEF Typed, Actor
  <2>2. NewScreen \in Screen
    BY <2>1 DEF NewScreen, Screen
  <2> QED
    BY <2>2 DEF Screen
<1>4. account' \in Account /\ screen' \in Screen
  <2>1. CASE BeginRefused
    BY <1>3, <2>1, UncertainFact, TypedFacts DEF BeginRefused
  <2>2. CASE BeginFails
    BY <1>2, <1>3, <2>2, UncertainFact DEF BeginFails
  <2>3. CASE Begin
    BY <1>2, <1>3, <2>3 DEF Begin
  <2> QED
    BY <2>1, <2>2, <2>3
<1> QED
  BY <1>1, <1>4, ScreenTyped

LEMMA RefusedTyped ==
    ASSUME Typed, UNCHANGED <<actor, saved, page, next_session>>, call' \in Call,
           NEW c \in Account, Uncertain(c, screen)
    PROVE  Typed'
<1>1. account' \in Account /\ screen' \in Screen
  BY UncertainFact, TypedFacts
<1> QED
  BY <1>1 DEF Typed

LEMMA FinishTyped ==
    ASSUME Typed, UNCHANGED <<actor, saved, page, next_session>>, call' \in Call,
           NEW c \in Account, Finish(c)
    PROVE  Typed'
<1>1. account' \in Account /\ screen' \in Screen
  BY FinishFact, TypedFacts
<1> QED
  BY <1>1 DEF Typed

LEMMA DeliveryReturnedCases ==
    ASSUME Typed, DeliveryReturned
    PROVE  /\ call.at = "returned" /\ call' = NoCall
           /\ UNCHANGED <<actor, saved, page, next_session>>
           /\ \/ Uncertain(account, screen)
              \/ call.status # 1 /\ Uncertain(Doubted(account, Batches(call.done)), screen)
              \/ call.status = 1 /\ Finish(Delivered(account))
BY DEF DeliveryReturned, Current, Doubted, Delivered

LEMMA BatchesNat == ASSUME Typed PROVE Batches(call.done) \in Nat
<1>1. call.done \in Nat /\ Batch \in Nat \ {0}
  BY TypedFacts, AbilityAssumption
<1>2. call.done + Batch - 1 \in Nat
  BY <1>1
<1> QED
  BY <1>1, <1>2, DivisionFact DEF Batches

LEMMA DeferredFact ==
    ASSUME Typed, CommitDeferred
    PROVE  \E old \in {"complete", "deferred"} :
              LET c == [account EXCEPT !.manual.old = old]
              IN  /\ Finish(c) /\ c \in Account
                  /\ c.queue = account.queue /\ c.earned = account.earned
                  /\ c.delivery = account.delivery /\ c.made = account.made
                  /\ c.xp = account.xp
                  /\ c.manual.choices = account.manual.choices
                  /\ c.manual.stage = account.manual.stage
                  /\ c.manual.retired = account.manual.retired
<1>1. PICK old \in {"complete", "deferred"} : Finish([account EXCEPT !.manual.old = old])
  BY DEF CommitDeferred
<1> DEFINE c == [account EXCEPT !.manual.old = old]
<1>2. /\ c \in Account /\ c.queue = account.queue /\ c.earned = account.earned
      /\ c.delivery = account.delivery /\ c.made = account.made /\ c.xp = account.xp
      /\ c.manual.choices = account.manual.choices
      /\ c.manual.stage = account.manual.stage /\ c.manual.retired = account.manual.retired
  BY TypedFacts DEF Account, ManualJournal
<1> HIDE DEF c
<1> QED
  BY <1>1, <1>2 DEF c

\* A delivery never goes past its rows; the rest is type by type.
LEMMA NextTyped ==
    ASSUME Typed, Doing, [Next]_vars
    PROVE  Typed'
<1>1. ASSUME NEW points \in 0..Smaller(MaxPoints, MaxTickets - account.made), OpenPage(points)
      PROVE  Typed'
  <2>1. page' \in Page
    BY <1>1, EmptySeq DEF OpenPage, Page
  <2> QED
    BY <1>1, <2>1 DEF OpenPage, Typed
<1>2. ASSUME NEW row \in Rows, Pick(row) PROVE Typed'
  <2>1. page \in Page /\ page' = [page EXCEPT !.points = @ - 1, !.picks = Append(@, row)]
    BY <1>2 DEF Pick, Typed
  <2>2. Append(page.picks, row) \in Seq(Rows)
    BY <2>1, PickSeq DEF Page
  <2>3. page.points - 1 \in Int
    BY <2>1 DEF Page
  <2>4. page' \in Page
    BY <2>1, <2>2, <2>3, PageFact
  <2> QED
    BY <1>2, <2>4 DEF Pick, Typed
<1>3. ASSUME NEW row \in Rows, Unpick(row) PROVE Typed'
  <2>1. PICK last \in LastPick(row, page.picks) :
           page' = [page EXCEPT !.points = @ + 1, !.picks = RemoveAt(page.picks, last)]
    BY <1>3, Zenon DEF Unpick
  <2>2. page \in Page /\ last \in DOMAIN page.picks
    BY DEF Typed, LastPick
  <2>3. RemoveAt(page.picks, last) \in Seq(Rows)
    BY <2>2, PickSeq DEF Page
  <2>4. page.points + 1 \in Int
    BY <2>2 DEF Page
  <2>5. page' \in Page
    BY <2>1, <2>2, <2>3, <2>4, PageFact
  <2> QED
    BY <1>3, <2>5 DEF Unpick, Typed
<1>4. CASE ClosePage
  BY <1>4, EmptyFacts DEF ClosePage, Typed
<1>5. CASE BeginRefused \/ BeginFails \/ Begin
  BY <1>5, BeginTyped
<1>6. CASE ResetWhileOpen
  BY <1>6, RefusedTyped, TypedFacts DEF ResetWhileOpen
<1>7. ASSUME NEW completes \in BOOLEAN, Cancel(completes) PROVE Typed'
  <2>1. CASE Uncertain(account, screen)
    BY <1>7, <2>1, RefusedTyped, TypedFacts DEF Cancel
  <2>2. CASE account' = [account EXCEPT !.manual = NoManual] /\ screen' = NoScreen
    <3>1. account' \in Account
      BY <2>2, TypedFacts, EmptyFacts DEF Account
    <3> QED
      BY <1>7, <2>2, <3>1, EmptyFacts DEF Cancel, Typed
  <2> QED
    BY <1>7, <2>1, <2>2 DEF Cancel
<1>8. CASE CommitRefused
  BY <1>8, RefusedTyped, TypedFacts DEF CommitRefused
<1>9. CASE PrepareFails
  <2>1. [account EXCEPT !.manual.stage = "committing"] \in Account
    BY TypedFacts DEF Account, ManualJournal
  <2>2. /\ UNCHANGED <<actor, saved, page, next_session>> /\ call' \in Call
        /\ \E c \in Account : Uncertain(c, screen)
    BY <1>9, <2>1, TypedFacts DEF PrepareFails
  <2> QED
    BY <2>2, RefusedTyped
<1>10. CASE StartCommit
  <2>1. account' \in Account
    BY <1>10, PreparedFact DEF StartCommit
  <2>2. screen' \in Screen /\ call' \in Call
    BY <1>10, TypedFacts, EmptyFacts DEF StartCommit, Screen, Call
  <2> QED
    BY <1>10, <2>1, <2>2 DEF StartCommit, Typed
<1>11. CASE CommitThrows
  BY <1>11, RefusedTyped, TypedFacts, EmptyFacts DEF CommitThrows
<1>12. CASE Reactivate \/ Drain
  <2>1. actor' \in Actor
    BY <1>12, TypedFacts DEF Reactivate, Drain, Actor
  <2> QED
    BY <1>12, <2>1 DEF Reactivate, Drain, Typed
<1>13. CASE CommitDeferred
  <2>1. \E c \in Account : Finish(c)
    BY <1>13, DeferredFact
  <2> QED
    BY <1>13, <2>1, FinishTyped, EmptyFacts DEF CommitDeferred
<1>14. CASE CommitStale
  BY <1>14, RefusedTyped, TypedFacts, EmptyFacts DEF CommitStale
<1>15. ASSUME NEW allocates \in BOOLEAN, Deliver(allocates) PROVE Typed'
  <2>1. screen.session \in Nat /\ account.manual.count \in Nat /\ account.xp \in Nat
    BY DEF Typed, Screen, Account, ManualJournal
  <2>2. account' \in Account
    BY <1>15, <2>1, TypedFacts DEF Deliver, Delivering, Account, DeliveryJournal
  <2>3. call' \in Call
    <3>1. account.queue \in Seq(Ticket)
      BY TypedFacts
    <3>2. \/ call' = [NoCall EXCEPT !.at = "deliver", !.rows = account.queue, !.n = account.xp]
          \/ call' = [NoCall EXCEPT !.at = "returned", !.rows = account.queue, !.n = account.xp]
      BY <1>15 DEF Deliver
    <3> QED
      BY <2>1, <3>1, <3>2, EmptyFacts DEF Call
  <2> QED
    BY <1>15, <2>2, <2>3 DEF Deliver, Typed
<1>16. CASE Fire
  <2>1. call.rows = account.queue /\ call.done <= Len(call.rows)
    BY <1>16 DEF Fire, Doing, Running
  <2>2. /\ Len(call.rows) \in Nat /\ DOMAIN call.rows = 1..Len(call.rows)
        /\ call.done \in Nat /\ call.fired \in Nat
        /\ \A i \in DOMAIN call.rows : call.rows[i] \in Ticket
    BY TypedFacts, TicketSeq
  <2>3. call.done + call.fired + 1 \in DOMAIN call.rows
    <3>1. call.fired < Size
      BY <1>16 DEF Fire
    <3>2. Size \in Nat /\ call.done + Size <= Len(call.rows)
      BY <2>1, SizeFact
    <3>3. call.done + call.fired + 1 \in 1..Len(call.rows)
      BY <2>2, <3>1, <3>2
    <3> QED
      BY <2>2, <3>3
  <2>4. Append(actor.granted, call.rows[call.done + call.fired + 1]) \in Seq(Ticket)
    BY <2>2, <2>3, AppendFact, TypedFacts
  <2>5. actor' \in Actor
    BY <1>16, <2>4, TypedFacts DEF Fire, Actor
  <2>6. call' \in Call
    <3>1. call \in Call /\ call' = [call EXCEPT !.fired = @ + 1] /\ call.fired + 1 \in Nat
      BY <1>16, <2>2 DEF Fire, Typed
    <3> QED
      BY <3>1 DEF Call
  <2> QED
    BY <1>16, <2>5, <2>6 DEF Fire, Typed
<1>17. CASE BatchReturns
  <2>1. call.rows = account.queue /\ call.done <= Len(call.rows)
    BY <1>17 DEF BatchReturns, Doing, Running
  <2>2. call.done + Size \in Nat
    BY <2>1, SizeFact, TypedFacts
  <2> DEFINE next == [call EXCEPT !.done = call.done + Size, !.fired = 0]
  <2>3. next \in Call
    BY <2>2, TypedFacts DEF Call
  <2> HIDE DEF next
  <2>4. call' \in {next, [next EXCEPT !.at = "returned", !.status = -1],
                   [next EXCEPT !.at = "returned", !.status = 1]}
    BY <1>17 DEF BatchReturns, next
  <2>5. call' \in Call
    BY <2>3, <2>4 DEF Call
  <2> QED
    BY <1>17, <2>5 DEF BatchReturns, Typed
<1>18. CASE BatchThrows
  <2>1. call' \in Call
    BY <1>18, TypedFacts DEF BatchThrows, Failed, Call
  <2> QED
    BY <1>18, <2>1 DEF BatchThrows, Typed
<1>19. CASE DeliveryReturned
  <2>1. Doubted(account, Batches(call.done)) \in Account /\ Delivered(account) \in Account
    BY TypedFacts, BatchesNat, DoubtedFact, DeliveredFact
  <2>2. \E c \in Account : Uncertain(c, screen) \/ Finish(c)
    BY <1>19, <2>1, DeliveryReturnedCases, TypedFacts
  <2> QED
    BY <1>19, <2>2, DeliveryReturnedCases, RefusedTyped, FinishTyped, EmptyFacts
<1>20. CASE Award
  <2>1. actor' \in Actor
    <3>1. actor \in Actor /\ actor' = [actor EXCEPT !.xp = @ + 1]
      BY <1>20, TypedFacts DEF Award
    <3> QED
      BY <3>1 DEF Actor
  <2>2. account' \in Account
    <3>1. account \in Account /\ account' = [account EXCEPT !.xp = @ + 1]
      BY <1>20, TypedFacts DEF Award
    <3>2. account.xp + 1 \in Nat
      BY <3>1 DEF Account
    <3> QED
      BY <3>1, <3>2, RewardedFact
  <2> QED
    BY <1>20, <2>1, <2>2 DEF Award, Typed
<1>21. CASE Save
  BY <1>21 DEF Save, Typed
<1>22. CASE Load
  <2>1. actor.inc + 1 \in Nat
    BY DEF Typed, Actor
  <2>2. actor' \in Actor /\ account' \in Account
    BY <1>22, <2>1, TypedFacts DEF Load, Reload, Actor
  <2> QED
    BY <1>22, <2>2, EmptyFacts DEF Load, Reload, Typed
<1>23. CASE Restart
  <2>1. actor' \in Actor /\ account' \in Account
    BY <1>23, TypedFacts DEF Restart, Reload, Actor
  <2> QED
    BY <1>23, <2>1, EmptyFacts DEF Restart, Reload, Typed
<1>24. CASE UNCHANGED vars
  BY <1>24 DEF vars, Typed
<1> QED
  BY <1>1, <1>2, <1>3, <1>4, <1>5, <1>6, <1>7, <1>8, <1>9, <1>10, <1>11, <1>12, <1>13, <1>14,
     <1>15, <1>16, <1>17, <1>18, <1>19, <1>20, <1>21, <1>22, <1>23, <1>24 DEF Next
-----------------------------------------------------------------------------
(* The books of a character, live or saved.                                 *)

LEMMA BooksSame ==
    ASSUME NEW a, NEW b, NEW c, NEW d, Books(a, c), b.granted = a.granted,
           d.queue = c.queue, d.earned = c.earned, d.delivery = c.delivery, d.made = c.made,
           d.manual = c.manual
    PROVE  Books(b, d)
BY DEF Books, Distinct, Older, Held, Quiet, OneBatch, KnownTo

LEMMA MarkBooks ==
    ASSUME NEW a, NEW c \in Account, Books(a, c)
    PROVE  Books(a, Mark(c))
<1> DEFINE d == Mark(c)
<1>1. /\ d.queue = c.queue /\ d.earned = c.earned /\ d.made = c.made /\ d.delivery = c.delivery
      /\ d.manual.choices = c.manual.choices /\ d.manual.retired = c.manual.retired
      /\ d.manual.stage = "uncertain"
  BY MarkFact
<1> HIDE DEF d
<1>2. Distinct(a, d)
  BY <1>1 DEF Books, Distinct, Older
<1>3. \A x \in d.earned : Held(a, d, x)
  BY <1>1 DEF Books, Held
<1>4. d.delivery.stage = "uncertain" => OneBatch(a, d)
  BY <1>1 DEF Books, OneBatch, KnownTo
<1>5. d.manual.choices # <<>> => d.manual.retired
  BY <1>1 DEF Books
<1> QED
  BY <1>1, <1>2, <1>3, <1>4, <1>5 DEF Books, d

\* Marking loses nothing that the handler under way relies on.
LEMMA MarkJoined ==
    ASSUME Typed, Doing, actor'.granted = actor.granted, account' = Mark(account), call' = call
    PROVE  Doing'
<1>1. /\ account'.queue = account.queue /\ account'.earned = account.earned
      /\ account'.delivery = account.delivery
      /\ account'.manual.choices = account.manual.choices
      /\ account'.manual.count = account.manual.count
      /\ account'.manual.stage = "uncertain"
  BY MarkFact, TypedFacts
<1>2. Joined => Joined'
  BY <1>1 DEF Joined, Held
<1>3. Waiting => Waiting'
  BY <1>1, <1>2 DEF Waiting
<1>4. Running => Running'
  BY <1>1, <1>2 DEF Running, Whole
<1>5. Granting => Granting'
  BY <1>1 DEF Granting, Size
<1>6. Returned => Returned'
  BY <1>1 DEF Returned
<1> QED
  BY <1>3, <1>4, <1>5, <1>6 DEF Doing

\* A handler that only ends leaves the books alone.
LEMMA UncertainBooks ==
    ASSUME NEW a, NEW c \in Account, Books(a, c), account' \in {c, Mark(c)}
    PROVE  Books(a, account')
BY MarkBooks

LEMMA JournaledBooks ==
    ASSUME Typed, Books(actor, account), Shown, Free
    PROVE  Books(actor, Journaled(actor.dormant))
<1> DEFINE d == Journaled(actor.dormant)
<1>1. /\ actor.dormant \in BOOLEAN /\ account.made \in Nat
      /\ actor.granted \in Seq(Ticket) /\ account.queue \in Seq(Ticket)
  BY TypedFacts DEF Actor
<1>2. /\ d.queue = account.queue /\ d.earned = account.earned
      /\ d.delivery = account.delivery /\ d.made = account.made + Len(page.picks)
      /\ d.manual.stage = "preview" /\ d.manual.choices = Chosen
      /\ d.manual.retired = actor.dormant /\ d.manual.enqueued = FALSE
  BY <1>1, JournaledFact
<1> HIDE DEF d
<1>3. /\ Chosen \in Seq(Ticket) /\ Len(page.picks) \in Nat /\ OnceEach(Chosen)
      /\ \A i \in DOMAIN Chosen : Chosen[i].n > account.made
      /\ \A i \in DOMAIN Chosen : Chosen[i].n <= account.made + Len(page.picks)
      /\ Chosen # <<>> => page.picks # <<>>
  BY ChosenFact
<1>4. Quiet(actor, account) /\ Distinct(actor, account)
  BY DEF Books, Free
<1>5. ASSUME NEW s \in Seq(Ticket), Older(s, account)
      PROVE  Older(s, d) /\ Apart(s, Chosen)
  <2>1. \A i \in DOMAIN s : s[i].n \in Nat /\ s[i].n <= account.made
    BY <1>5, TicketSeq DEF Older, Ticket
  <2>2. Older(s, d)
    BY <1>1, <1>2, <1>3, <2>1 DEF Older
  <2>3. \A i \in DOMAIN Chosen : Chosen[i].n \in Nat
    BY <1>3, TicketSeq DEF Ticket
  <2>4. \A i \in DOMAIN s, j \in DOMAIN Chosen : s[i] # Chosen[j]
    BY <1>1, <1>3, <2>1, <2>3
  <2> QED
    BY <2>2, <2>4 DEF Apart, Has
<1>6. Distinct(actor, d)
  <2>1. Older(Chosen, d)
    BY <1>2, <1>3 DEF Older
  <2> QED
    BY <1>1, <1>2, <1>3, <1>4, <1>5, <2>1 DEF Distinct
<1>7. Quiet(actor, d)
  BY <1>1, <1>2, <1>4, <1>5 DEF Quiet, Distinct, Held
<1>8. \A x \in d.earned : Held(actor, d, x)
  BY <1>2 DEF Books, Held
<1>9. d.manual.choices # <<>> => d.manual.retired
  BY <1>2, <1>3 DEF Shown
<1>10. d.delivery.stage # "uncertain"
  BY <1>2 DEF Free
<1> QED
  BY <1>2, <1>6, <1>7, <1>8, <1>9, <1>10 DEF Books, d

LEMMA OlderHas ==
    ASSUME NEW s, NEW c
    PROVE  Older(s, c) <=> \A x : Has(s, x) => x.n <= c.made
BY DEF Older, Has

LEMMA HasNone == \A x : ~Has(<<>>, x)
BY DEF Has

\* The choices join the queue, and nothing is granted yet.
LEMMA PreparedBooks ==
    ASSUME Typed, Books(actor, account), account.manual.stage = "preview"
    PROVE  /\ Books(actor, Prepared)
           /\ \A x \in Ticket : Held(actor, Prepared, x)
                                  <=> x \in Prepared.earned \/ Has(Prepared.manual.choices, x)
           /\ Prepared.delivery.stage = "none"
           /\ Apart(actor.granted, Prepared.queue)
<1> DEFINE d == Prepared
           ch == account.manual.choices
<1>1. /\ d.queue = Preview(account) /\ d.queue \in Seq(Ticket)
      /\ d.manual.stage = "committing" /\ d.manual.choices = ch
      /\ d.manual.retired = account.manual.retired
      /\ d.earned = account.earned /\ d.made = account.made /\ d.delivery = account.delivery
  BY PreparedFact
<1>2. /\ account.queue \in Seq(Ticket) /\ ch \in Seq(Ticket) /\ actor.granted \in Seq(Ticket)
  BY TypedFacts
<1> HIDE DEF d
<1>3. /\ Quiet(actor, account) /\ Distinct(actor, account)
      /\ ~account.manual.enqueued /\ (ch # <<>> => account.manual.retired)
  BY DEF Books
<1>4. d.queue = account.queue \o ch
  <2>1. CASE ch # <<>>
    BY <1>1, <1>3, <2>1 DEF Preview
  <2>2. CASE ch = <<>>
    BY <1>1, <2>2 DEF Preview
  <2> QED
    BY <2>1, <2>2
<1>5. \A x : Has(d.queue, x) <=> Has(account.queue, x) \/ Has(ch, x)
  BY <1>2, <1>4, HasConcat
<1>6. OnceEach(d.queue)
  BY <1>2, <1>3, <1>4, OnceConcat DEF Quiet, Distinct
<1>7. Older(d.queue, d)
  <2>1. Older(account.queue, account) /\ Older(ch, account)
    BY <1>3 DEF Distinct
  <2>2. \A x : Has(account.queue, x) \/ Has(ch, x) => x.n <= account.made
    BY <2>1, OlderHas
  <2> QED
    BY <1>1, <1>5, <2>2, OlderHas
<1>8. Distinct(actor, d)
  BY <1>1, <1>3, <1>6, <1>7 DEF Distinct, Older
<1>9. \A x \in Ticket : Held(actor, d, x) <=> x \in d.earned \/ Has(d.manual.choices, x)
  BY <1>1, <1>3, <1>5 DEF Quiet, Held
<1>10. d.delivery.stage = "none" /\ Apart(actor.granted, d.queue)
  BY <1>1, <1>3, <1>5 DEF Quiet, Apart
<1>11. \A x \in d.earned : Held(actor, d, x)
  BY <1>1, <1>9, TypedFacts
<1> QED
  BY <1>1, <1>3, <1>8, <1>9, <1>10, <1>11 DEF Books, d

\* The receipt of a screen whose choices all reached the character.
LEMMA ReceiptedBooks ==
    ASSUME NEW a \in Actor, NEW c \in Account, Books(a, c), c.delivery.stage = "none",
           Apart(a.granted, c.queue),
           \A x \in Ticket : Held(a, c, x) <=> x \in c.earned \/ Has(c.manual.choices, x)
    PROVE  Books(a, Receipted(c))
<1> DEFINE d == Receipted(c)
<1>1. /\ \A x \in Ticket : x \in d.earned <=> x \in c.earned \/ Has(c.manual.choices, x)
      /\ d \in Account /\ d.queue = c.queue /\ d.made = c.made /\ d.delivery = c.delivery
      /\ d.manual = NoManual
  BY ReceiptedFact
<1>2. d.manual.choices = <<>> /\ d.manual.stage = "none"
  BY <1>1, EmptyFacts
<1> HIDE DEF d
<1>3. Distinct(a, d)
  BY <1>1, <1>2 DEF Books, Distinct, Older, OnceEach
<1>4. \A x \in Ticket : x \in d.earned <=> Held(a, d, x)
  BY <1>1 DEF Held
<1>5. Quiet(a, d)
  BY <1>1, <1>2, <1>4, HasNone DEF Quiet, Apart
<1>6. \A x \in d.earned : Held(a, d, x)
  BY <1>1, <1>4 DEF Account
<1> QED
  BY <1>1, <1>2, <1>3, <1>5, <1>6 DEF Books, d

\* Finish, with the account a commit has reached.
LEMMA FinishBooks ==
    ASSUME Typed, Shown, NEW c \in Account, Finish(c), Books(actor, c),
           c.delivery.stage = "none", Apart(actor.granted, c.queue),
           \A x \in Ticket : Held(actor, c, x) <=> x \in c.earned \/ Has(c.manual.choices, x)
    PROVE  Books(actor, account')
<1>1. CASE account' = Receipted(c)
  BY <1>1, ReceiptedBooks, TypedFacts
<1>2. CASE account' \in {c, Mark(c)}
  BY <1>2, UncertainBooks
<1> QED
  BY <1>1, <1>2, FinishFact, TypedFacts

\* Everything was granted: the queue goes.
LEMMA DeliveredBooks ==
    ASSUME Typed, Books(actor, account), Running, Returned, call.status = 1
    PROVE  LET c == Delivered(account)
           IN  /\ Books(actor, c) /\ c.delivery.stage = "none" /\ Apart(actor.granted, c.queue)
               /\ \A x \in Ticket : Held(actor, c, x) <=> x \in c.earned \/ Has(c.manual.choices, x)
<1> DEFINE c == Delivered(account)
<1>1. /\ c \in Account /\ c.queue = <<>> /\ c.delivery = NoDelivery
      /\ c.earned = account.earned /\ c.made = account.made
      /\ c.manual.choices = account.manual.choices /\ c.manual.stage = account.manual.stage
      /\ c.manual.retired = account.manual.retired
  BY DeliveredFact, TypedFacts
<1>2. c.delivery.stage = "none"
  BY <1>1 DEF NoDelivery
<1> HIDE DEF c
<1>3. \A x \in Ticket : Has(account.queue, x) => Has(actor.granted, x)
  <2>1. DOMAIN account.queue = 1..Len(account.queue)
    BY TypedFacts, TicketSeq
  <2>2. \A i \in DOMAIN account.queue : Has(actor.granted, account.queue[i])
    BY <2>1 DEF Returned
  <2> QED
    BY <2>2 DEF Has
<1>4. \A x \in Ticket : Held(actor, c, x) <=> Held(actor, account, x)
  BY <1>1, <1>3, HasNone DEF Held
<1>5. \A x \in Ticket : Held(actor, c, x) <=> x \in c.earned \/ Has(c.manual.choices, x)
  BY <1>1, <1>4 DEF Running, Joined
<1>6. Distinct(actor, c)
  BY <1>1 DEF Books, Distinct, Older, OnceEach
<1>7. \A x \in c.earned : Held(actor, c, x)
  BY <1>1, <1>5, TypedFacts
<1>8. c.manual.stage \in {"committing", "uncertain"} /\ (c.manual.choices # <<>> => c.manual.retired)
  BY <1>1 DEF Running, Joined, Books
<1>9. Books(actor, c)
  BY <1>2, <1>6, <1>7, <1>8 DEF Books
<1>10. Apart(actor.granted, c.queue)
  BY <1>1, HasNone DEF Apart
<1> QED
  BY <1>2, <1>5, <1>9, <1>10 DEF c

\* It was interrupted: what the batches that returned hold was granted, and
\* nothing after the next one was.
LEMMA DoubtedBooks ==
    ASSUME Typed, Books(actor, account), Running, Returned
    PROVE  Books(actor, Doubted(account, Batches(call.done)))
<1> DEFINE n == Batches(call.done)
           c == Doubted(account, n)
<1>1. /\ Len(account.queue) \in Nat /\ DOMAIN account.queue = 1..Len(account.queue)
      /\ call.done \in 0..Len(account.queue)
  BY TypedFacts, TicketSeq DEF Running
<1>2. n \in Nat /\ Smaller(n * Batch, Len(account.queue)) = call.done
  BY <1>1, BatchesFact DEF Running, Whole
<1> HIDE DEF n
<1>3. /\ c.queue = account.queue /\ c.earned = account.earned /\ c.made = account.made
      /\ c.delivery.completed = n /\ c.delivery.count = account.delivery.count
      /\ c.manual.choices = account.manual.choices /\ c.manual.stage = account.manual.stage
      /\ c.manual.retired = account.manual.retired
  BY <1>2, DoubtedFact, TypedFacts
<1> HIDE DEF c
<1>4. KnownTo(c) = call.done /\ c.delivery.count = Len(c.queue)
  BY <1>2, <1>3 DEF KnownTo, Running
<1>5. OneBatch(actor, c)
  BY <1>3, <1>4 DEF OneBatch, Returned
<1>6. Distinct(actor, c) /\ \A x \in c.earned : Held(actor, c, x)
  BY <1>3 DEF Books, Distinct, Older, Held
<1>7. c.manual.stage \in {"committing", "uncertain"} /\ (c.manual.choices # <<>> => c.manual.retired)
  BY <1>3 DEF Running, Joined, Books
<1> QED
  BY <1>5, <1>6, <1>7 DEF Books, c, n
-----------------------------------------------------------------------------
(* The delivery.                                                            *)

LEMMA FireFact ==
    ASSUME Typed, Running, Fire
    PROVE  LET k == call.done + call.fired + 1
           IN  /\ k \in DOMAIN account.queue /\ account.queue[k] \in Ticket
               /\ actor'.granted = Append(actor.granted, account.queue[k])
               /\ account' = account
               /\ call'.fired = call.fired + 1 /\ call'.done = call.done
               /\ call'.rows = call.rows /\ call'.at = "deliver" /\ call.fired + 1 <= Size
<1>1. /\ call.rows = account.queue /\ call.done <= Len(call.rows)
      /\ Len(call.rows) \in Nat /\ DOMAIN call.rows = 1..Len(call.rows)
      /\ call.done \in Nat /\ call.fired \in Nat
      /\ \A i \in DOMAIN call.rows : call.rows[i] \in Ticket
  BY TypedFacts, TicketSeq DEF Running
<1>2. call.fired < Size /\ Size \in Nat /\ call.done + Size <= Len(call.rows)
  BY <1>1, SizeFact DEF Fire
<1>3. call.done + call.fired + 1 \in 1..Len(call.rows)
  BY <1>1, <1>2
<1>4. call.fired + 1 <= Size
  BY <1>1, <1>2
<1>5. call'.fired = call.fired + 1 /\ call'.done = call.done /\ call'.rows = call.rows
      /\ call'.at = "deliver"
  BY TypedFacts DEF Fire, Call
<1>6. /\ actor'.granted = Append(actor.granted, call.rows[call.done + call.fired + 1])
      /\ account' = account
  BY TypedFacts DEF Fire, Actor
<1> QED
  BY <1>1, <1>3, <1>4, <1>5, <1>6

LEMMA FireKeeps ==
    ASSUME Typed, Books(actor, account), Running, Granting, Fire
    PROVE  Books(actor', account') /\ Running' /\ Granting'
<1> DEFINE k == call.done + call.fired + 1
           e == account.queue[k]
<1>1. /\ k \in DOMAIN account.queue /\ e \in Ticket
      /\ actor'.granted = Append(actor.granted, e) /\ account' = account
      /\ call'.fired = call.fired + 1 /\ call'.done = call.done
      /\ call'.rows = call.rows /\ call'.at = "deliver" /\ call.fired + 1 <= Size
  BY FireFact
<1>2. /\ call.done \in Nat /\ call.fired \in Nat
      /\ DOMAIN account.queue = 1..Len(account.queue) /\ Len(account.queue) \in Nat
      /\ actor.granted \in Seq(Ticket)
  BY TypedFacts, TicketSeq
<1>3. ~Has(actor.granted, e)
  BY <1>1, <1>2 DEF Granting
<1>4. Has(account.queue, e)
  BY <1>1 DEF Has
<1>5. e.n <= account.made
  BY <1>1 DEF Books, Distinct, Older
<1> HIDE DEF e
<1>6. /\ \A x : Has(actor'.granted, x) <=> Has(actor.granted, x) \/ x = e
      /\ OnceEach(actor'.granted) /\ Older(actor'.granted, account)
  BY <1>1, <1>2, <1>3, <1>5, AppendFact DEF Books, Distinct
<1>7. \A x : Held(actor', account, x) <=> Held(actor, account, x)
  BY <1>4, <1>6 DEF Held
<1>8. Joined'
  BY <1>1, <1>7 DEF Running, Joined
<1>9. Running'
  BY <1>1, <1>8 DEF Running, Whole
<1>10. Books(actor', account')
  BY <1>1, <1>6, <1>7 DEF Books, Distinct, Running, Joined
<1>11. Granting'
  <2>1. call'.fired <= Size'
    BY <1>1 DEF Size
  <2>2. ASSUME NEW i \in DOMAIN account.queue
        PROVE  Has(actor'.granted, account.queue[i]) <=> i <= call.done + call.fired + 1
    <3>1. account.queue[i] = e <=> i = k
      BY <1>1 DEF e, Books, Distinct, OnceEach
    <3>2. Has(actor.granted, account.queue[i]) <=> i <= call.done + call.fired
      BY DEF Granting
    <3> QED
      BY <1>2, <1>6, <3>1, <3>2
  <2>3. call'.done + call'.fired = call.done + call.fired + 1
    <3>1. call'.done + call'.fired = call.done + (call.fired + 1)
      BY <1>1
    <3> QED
      BY <1>2, <3>1
  <2> QED
    BY <1>1, <2>1, <2>2, <2>3 DEF Granting
<1> QED
  BY <1>9, <1>10, <1>11

LEMMA WholeStep ==
    ASSUME Typed, Running
    PROVE  /\ Size \in Nat /\ call.done + Size <= Len(account.queue)
           /\ Whole(call.done + Size)
<1>1. /\ call.rows = account.queue /\ Len(account.queue) \in Nat /\ call.done \in Nat
      /\ call.done <= Len(account.queue) /\ Batch \in Nat \ {0}
  BY TypedFacts, TicketSeq, AbilityAssumption DEF Running
<1>2. Size \in Nat /\ call.done + Size <= Len(account.queue)
  BY <1>1, SizeFact
<1>3. CASE Size = Len(account.queue) - call.done
  <2>1. call.done + Size = Len(account.queue)
    BY <1>1, <1>3
  <2> QED
    BY <1>2, <2>1 DEF Whole
<1>4. CASE Size = Batch /\ call.done # Len(account.queue)
  <2>1. PICK k \in Nat : call.done = k * Batch
    BY <1>4 DEF Running, Whole
  <2>2. k + 1 \in Nat /\ call.done + Size = (k + 1) * Batch
    BY <1>1, <1>4, <2>1
  <2> QED
    BY <1>2, <2>2 DEF Whole
<1>5. Size = Batch \/ Size = Len(account.queue) - call.done
  BY <1>1 DEF Size, Smaller
<1>6. CASE Size = Batch /\ call.done = Len(account.queue)
  BY <1>1, <1>2, <1>6
<1> QED
  BY <1>3, <1>4, <1>5, <1>6

LEMMA BatchReturnsKeeps ==
    ASSUME Typed, Running, Granting, BatchReturns
    PROVE  /\ call'.at = "deliver" => Running' /\ Granting'
           /\ call'.at = "returned" => Running' /\ Returned'
           /\ call'.at \in {"deliver", "returned"}
<1> DEFINE n == call.done + Size
           next == [call EXCEPT !.done = n, !.fired = 0]
<1>1. /\ Size \in Nat /\ n <= Len(account.queue) /\ Whole(n) /\ call.done \in Nat
      /\ call.rows = account.queue /\ call.fired = Size /\ call.at = "deliver"
      /\ Batch \in Nat /\ Len(account.queue) \in Nat
      /\ DOMAIN account.queue = 1..Len(account.queue)
  BY WholeStep, TypedFacts, TicketSeq, AbilityAssumption DEF Running, BatchReturns
<1>2. \A i \in DOMAIN account.queue : Has(actor.granted, account.queue[i]) <=> i <= n
  BY <1>1 DEF Granting
<1>3. n \in Nat
  BY <1>1
<1>4. /\ actor' = actor /\ account' = account
      /\ \/ call' = [next EXCEPT !.at = "returned", !.status = -1]
         \/ call' = [next EXCEPT !.at = "returned", !.status = 1] /\ n = Len(account.queue)
         \/ call' = next
  BY <1>1 DEF BatchReturns
<1> HIDE DEF n
<1>5. next \in Call /\ next.done = n /\ next.fired = 0 /\ next.rows = call.rows
      /\ next.at = "deliver"
  BY <1>1, <1>3, TypedFacts DEF Call
<1> HIDE DEF next
<1>6. /\ call'.done = n /\ call'.fired = 0 /\ call'.rows = call.rows
      /\ call'.at \in {"deliver", "returned"}
      /\ call'.at = "returned" /\ call'.status = 1 => n = Len(account.queue)
  <2>1. ASSUME NEW s \in {-1, 1}, call' = [next EXCEPT !.at = "returned", !.status = s]
        PROVE  /\ call'.done = n /\ call'.fired = 0 /\ call'.rows = call.rows
               /\ call'.at = "returned" /\ call'.status = s
    BY <1>5, <2>1 DEF Call
  <2>2. CASE call' = [next EXCEPT !.at = "returned", !.status = -1]
    BY <2>1, <2>2
  <2>3. CASE call' = [next EXCEPT !.at = "returned", !.status = 1] /\ n = Len(account.queue)
    BY <2>1, <2>3
  <2>4. CASE call' = next
    BY <1>5, <2>4
  <2> QED
    BY <1>4, <2>2, <2>3, <2>4
<1>7. Joined'
  BY <1>4 DEF Running, Joined, Held
<1>8. Running'
  BY <1>1, <1>4, <1>6, <1>7 DEF Running, Whole
<1>9. Granting'
  <2>1. Size' \in Nat
    <3>1. Len(call'.rows) \in Nat /\ n <= Len(call'.rows)
      BY <1>1, <1>6
    <3> QED
      BY <1>1, <1>3, <1>6, <3>1 DEF Size, Smaller
  <2>2. call'.fired <= Size'
    BY <1>6, <2>1
  <2>3. call'.done + call'.fired = n
    BY <1>3, <1>6
  <2> QED
    BY <1>2, <1>4, <2>2, <2>3 DEF Granting
<1>10. call'.at = "returned" => Returned'
  <2> SUFFICES ASSUME call'.at = "returned" PROVE Returned'
    OBVIOUS
  <2>1. call'.status = 1 => call'.done = Len(account'.queue)
    BY <1>4, <1>6
  <2>2. \A i \in DOMAIN account.queue :
           /\ i <= n => Has(actor.granted, account.queue[i])
           /\ i > n + Batch => ~Has(actor.granted, account.queue[i])
    BY <1>1, <1>2, <1>3
  <2> QED
    BY <1>4, <1>6, <2>1, <2>2 DEF Returned
<1> QED
  BY <1>6, <1>8, <1>9, <1>10

LEMMA BatchThrowsKeeps ==
    ASSUME Typed, Running, Granting, BatchThrows
    PROVE  call'.at = "returned" /\ Running' /\ Returned'
<1>1. /\ actor' = actor /\ account' = account /\ call'.at = "returned"
      /\ call'.status = -1 /\ call'.done = call.done /\ call'.rows = call.rows
  BY TypedFacts DEF BatchThrows, Failed, Call
<1>2. /\ Size \in Nat /\ Size <= Batch /\ call.done \in Nat /\ call.fired \in Nat
      /\ Batch \in Nat /\ DOMAIN account.queue = 1..Len(account.queue)
      /\ call.fired <= Size /\ Len(account.queue) \in Nat
  BY SizeFact, TypedFacts, TicketSeq, AbilityAssumption DEF Running, Granting
<1>3. Running'
  BY <1>1 DEF Running, Joined, Held, Whole
<1>4. \A i \in DOMAIN account.queue :
         /\ i <= call.done => Has(actor.granted, account.queue[i])
         /\ i > call.done + Batch => ~Has(actor.granted, account.queue[i])
  BY <1>2 DEF Granting
<1>5. Returned'
  BY <1>1, <1>4 DEF Returned
<1> QED
  BY <1>1, <1>3, <1>5

LEMMA DeliverKeeps ==
    ASSUME Typed, Books(actor, account), Waiting, NEW allocates \in BOOLEAN, Deliver(allocates)
    PROVE  /\ Books(actor', account') /\ Running'
           /\ call'.at = "deliver" => Granting'
           /\ call'.at = "returned" => Returned'
           /\ call'.at \in {"deliver", "returned"}
<1>1. /\ account.queue \in Seq(Ticket) /\ Len(account.queue) \in Nat
      /\ DOMAIN account.queue = 1..Len(account.queue) /\ Batch \in Nat \ {0}
      /\ \A i \in DOMAIN account.queue : account.queue[i] \in Ticket
  BY TypedFacts, TicketSeq, AbilityAssumption
<1>2. /\ actor' = actor /\ account'.queue = account.queue /\ account'.earned = account.earned
      /\ account'.made = account.made /\ account'.manual = account.manual
      /\ account'.delivery.stage = "delivering"
      /\ account'.delivery.count = Len(account.queue)
  BY TypedFacts DEF Deliver, Delivering, Waiting, Account
<1>3. /\ call'.rows = account.queue /\ call'.done = 0 /\ call'.fired = 0 /\ call'.status = 0
      /\ call'.at \in {"deliver", "returned"}
  BY DEF Deliver, NoCall
<1>4. Running'
  <2>1. 0 = 0 * Batch /\ 0 <= Len(account.queue)
    BY <1>1
  <2> QED
    BY <1>2, <1>3, <2>1 DEF Waiting, Running, Joined, Held, Whole
<1>5. \A i \in DOMAIN account.queue : ~Has(actor.granted, account.queue[i]) /\ i > 0
  BY <1>1 DEF Waiting, Apart, Has
<1>6. Granting'
  <2>1. Size' \in Nat
    BY <1>1, <1>3 DEF Size, Smaller
  <2> QED
    BY <1>1, <1>2, <1>3, <1>5, <2>1 DEF Granting
<1>7. Returned'
  BY <1>1, <1>2, <1>3, <1>5 DEF Returned
<1>8. Books(actor', account')
  BY <1>2 DEF Waiting, Joined, Books, Distinct, Older, Held
<1> QED
  BY <1>3, <1>4, <1>6, <1>7, <1>8
-----------------------------------------------------------------------------
(* Every step.                                                              *)

LEMMA InitIInv == Init => IInv
<1> SUFFICES ASSUME Init PROVE IInv
  OBVIOUS
<1>1. PICK row \in Starts :
         /\ actor = [inc |-> 1, dormant |-> TRUE, granted |-> <<[n |-> 0, row |-> row]>>, xp |-> 0]
         /\ account = [queue |-> <<>>, delivery |-> NoDelivery, manual |-> NoManual, xp |-> 0,
                       made |-> 0, earned |-> {[n |-> 0, row |-> row]}]
  BY DEF Init
<1> DEFINE e == [n |-> 0, row |-> row]
<1>2. e \in Ticket /\ e.n = 0
  BY AbilityAssumption DEF Ticket, Rows
<1> HIDE DEF e
<1>3. /\ <<e>> \in Seq(Ticket) /\ <<>> \in Seq(Ticket)
      /\ DOMAIN <<e>> = {1} /\ <<e>>[1] = e
  BY <1>2
<1>4. /\ actor = [inc |-> 1, dormant |-> TRUE, granted |-> <<e>>, xp |-> 0]
      /\ account = [queue |-> <<>>, delivery |-> NoDelivery, manual |-> NoManual, xp |-> 0,
                    made |-> 0, earned |-> {e}]
  BY <1>1 DEF e
<1>5. actor \in Actor /\ account \in Account
  <2>1. actor \in Actor
    BY <1>3, <1>4 DEF Actor
  <2>2. account \in Account
    BY <1>2, <1>3, <1>4, EmptyFacts DEF Account
  <2> QED
    BY <2>1, <2>2
<1>6. Books(actor, account)
  <2>1. /\ actor.granted = <<e>> /\ account.queue = <<>> /\ account.earned = {e}
        /\ account.made = 0 /\ account.delivery.stage = "none"
        /\ account.manual.choices = <<>> /\ account.manual.stage = "none"
    BY <1>4, EmptyFacts DEF NoDelivery
  <2>2. \A x : Has(<<e>>, x) <=> x = e
    BY <1>3 DEF Has
  <2>3. Distinct(actor, account)
    BY <1>2, <1>3, <2>1 DEF Distinct, OnceEach, Older
  <2>4. \A x : Held(actor, account, x) <=> x = e
    BY <2>1, <2>2, HasNone DEF Held
  <2>5. Quiet(actor, account)
    BY <2>1, <2>4, HasNone DEF Quiet, Apart
  <2> QED
    BY <2>1, <2>3, <2>4, <2>5 DEF Books
<1>7. saved.actor = actor /\ saved.account = account /\ saved \in [actor : Actor, account : Account]
  BY <1>5 DEF Init
<1>8. Typed
  <2>1. /\ page = NoPage /\ screen = NoScreen /\ call = NoCall /\ next_session = 0
    BY DEF Init
  <2> QED
    BY <1>5, <1>7, <2>1, EmptyFacts DEF Typed
<1>9. Doing /\ Shown
  BY DEF Init, NoCall, NoScreen, NoPage, Doing, Shown
<1> QED
  BY <1>6, <1>7, <1>8, <1>9 DEF IInv

LEMMA NextSaved == ASSUME IInv, [Next]_vars PROVE Books(saved'.actor, saved'.account)
<1>1. CASE Save
  BY <1>1 DEF Save, IInv
<1>2. CASE saved' = saved
  BY <1>2 DEF IInv
<1>3. ASSUME NEW points, OpenPage(points) PROVE saved' = saved
  BY <1>3 DEF OpenPage
<1>4. ASSUME NEW row, Pick(row) \/ Unpick(row) PROVE saved' = saved
  BY <1>4 DEF Pick, Unpick
<1>5. CASE ClosePage \/ BeginRefused \/ BeginFails \/ Begin \/ ResetWhileOpen
  BY <1>2, <1>5 DEF ClosePage, BeginRefused, BeginFails, Begin, ResetWhileOpen
<1>6. ASSUME NEW completes, Cancel(completes) PROVE saved' = saved
  BY <1>6 DEF Cancel
<1>7. CASE CommitRefused \/ PrepareFails \/ StartCommit \/ CommitThrows \/ Reactivate
  BY <1>2, <1>7 DEF CommitRefused, PrepareFails, StartCommit, CommitThrows, Reactivate
<1>8. CASE CommitDeferred \/ CommitStale \/ DeliveryReturned
  BY <1>2, <1>8 DEF CommitDeferred, CommitStale, DeliveryReturned
<1>9. ASSUME NEW allocates, Deliver(allocates) PROVE saved' = saved
  BY <1>9 DEF Deliver
<1>10. CASE Fire \/ BatchReturns \/ BatchThrows \/ Award \/ Drain
  BY <1>2, <1>10 DEF Fire, BatchReturns, BatchThrows, Award, Drain
<1>11. CASE Load \/ Restart \/ UNCHANGED vars
  BY <1>2, <1>11 DEF Load, Restart, Reload, vars
<1> QED
  BY <1>1, <1>2, <1>3, <1>4, <1>5, <1>6, <1>7, <1>8, <1>9, <1>10, <1>11 DEF Next

\* A refusal: the account stays or is marked.
LEMMA RefusedKeeps ==
    ASSUME IInv, NEW s \in Screen, Uncertain(account, s), actor'.granted = actor.granted,
           call' = call \/ call'.at = "none"
    PROVE  Books(actor', account') /\ Doing'
<1>1. account' \in {account, Mark(account)}
  BY UncertainFact, TypedFacts DEF IInv
<1>2. Books(actor, account')
  BY <1>1, UncertainBooks, TypedFacts DEF IInv
<1>3. Books(actor', account')
  BY <1>2, BooksSame
<1>4. Doing'
  <2>1. CASE call'.at = "none"
    BY <2>1 DEF Doing
  <2>2. CASE call' = call /\ account' = Mark(account)
    BY <2>2, MarkJoined DEF IInv
  <2>3. CASE call' = call /\ account' = account
    BY <2>3 DEF IInv, Doing, Waiting, Joined, Running, Whole, Granting, Size, Returned, Held
  <2> QED
    BY <1>1, <2>1, <2>2, <2>3
<1> QED
  BY <1>3, <1>4

LEMMA NothingMoves ==
    ASSUME IInv, actor'.granted = actor.granted, call' = call,
           account'.queue = account.queue, account'.earned = account.earned,
           account'.delivery = account.delivery, account'.made = account.made,
           account'.manual = account.manual
    PROVE  Books(actor', account') /\ Doing'
<1>1. Books(actor', account')
  BY BooksSame DEF IInv
<1>2. Doing'
  BY DEF IInv, Doing, Waiting, Joined, Running, Whole, Granting, Size, Returned, Held
<1> QED
  BY <1>1, <1>2

LEMMA BeginKeeps ==
    ASSUME IInv, BeginRefused \/ BeginFails \/ Begin
    PROVE  Books(actor', account') /\ Doing'
<1>1. screen.phase = "closed" /\ call' = call /\ actor' = actor
  BY DEF BeginRefused, BeginFails, Begin, StartScreen
<1>2. call'.at = "none"
  BY <1>1 DEF IInv, Shown
<1>3. actor.inc \in Nat /\ next_session + 1 \in Nat /\ actor.dormant \in BOOLEAN
  BY DEF IInv, Typed, Actor
<1>4. NewScreen \in Screen
  BY <1>3 DEF NewScreen, Screen
<1>5. [NewScreen EXCEPT !.owner = TRUE] \in Screen
  BY <1>4 DEF Screen
<1>6. CASE BeginRefused
  BY <1>1, <1>4, <1>6, RefusedKeeps DEF BeginRefused
<1>7. CASE BeginFails \/ Begin
  <2> DEFINE c == Journaled(actor.dormant)
  <2>1. c \in Account
    BY <1>3, JournaledFact DEF IInv
  <2>2. Books(actor, c)
    BY <1>7, JournaledBooks DEF IInv, BeginFails, Begin
  <2> HIDE DEF c
  <2>3. account' \in {c, Mark(c)}
    <3>1. CASE BeginFails
      BY <1>5, <2>1, <3>1, UncertainFact DEF BeginFails, c
    <3>2. CASE Begin
      BY <3>2 DEF Begin, c
    <3> QED
      BY <1>7, <3>1, <3>2
  <2>4. Books(actor, account')
    BY <2>1, <2>2, <2>3, UncertainBooks
  <2> QED
    BY <1>1, <1>2, <2>4 DEF Doing
<1> QED
  BY <1>6, <1>7

LEMMA CancelKeeps ==
    ASSUME IInv, NEW completes \in BOOLEAN, Cancel(completes)
    PROVE  Books(actor', account') /\ Doing'
<1>1. /\ actor' = actor /\ call' = call /\ call.at = "none"
      /\ screen.phase = "preview" /\ screen.inc = actor.inc
  BY EmptyFacts DEF Cancel, Same
<1>2. CASE Uncertain(account, screen)
  BY <1>1, <1>2, RefusedKeeps, TypedFacts DEF IInv
<1>3. CASE account' = [account EXCEPT !.manual = NoManual]
  <2>1. account.manual.stage = "preview"
    BY <1>1 DEF IInv, Shown
  <2>2. /\ account'.queue = account.queue /\ account'.earned = account.earned
        /\ account'.delivery = account.delivery /\ account'.made = account.made
        /\ account'.manual = NoManual
    BY <1>3, TypedFacts DEF IInv, Account
  <2>3. account'.manual.choices = <<>> /\ account'.manual.stage = "none"
    BY <2>2, EmptyFacts
  <2>4. Distinct(actor, account) /\ Quiet(actor, account)
    BY <2>1 DEF IInv, Books
  <2>5. Distinct(actor, account')
    BY <2>2, <2>3, <2>4 DEF Distinct, Older, OnceEach
  <2>6. Quiet(actor, account')
    BY <2>2, <2>3, <2>4, HasNone DEF Quiet, Held, Apart
  <2>7. \A x \in account'.earned : Held(actor, account', x)
    BY <2>2 DEF IInv, Books, Held
  <2>8. account'.delivery.stage # "uncertain"
    BY <2>2, <2>4 DEF Quiet
  <2>9. Books(actor, account')
    BY <2>3, <2>5, <2>6, <2>7, <2>8 DEF Books
  <2> QED
    BY <1>1, <2>9 DEF Doing
<1> QED
  BY <1>2, <1>3 DEF Cancel

LEMMA PrepareFailsKeeps ==
    ASSUME IInv, PrepareFails
    PROVE  Books(actor', account') /\ Doing'
<1>1. actor' = actor /\ call' = call /\ call.at = "none" /\ screen.phase = "preview"
      /\ screen.inc = actor.inc /\ screen \in Screen
  BY EmptyFacts, TypedFacts DEF PrepareFails, Committable, Same, IInv
<1>2. CASE Uncertain(account, screen)
  BY <1>1, <1>2, RefusedKeeps
<1>3. CASE Uncertain([account EXCEPT !.manual.stage = "committing"], screen)
  <2> DEFINE c == [account EXCEPT !.manual.stage = "committing"]
  <2>1. /\ c \in Account /\ c.queue = account.queue /\ c.earned = account.earned
        /\ c.made = account.made /\ c.delivery = account.delivery
        /\ c.manual.choices = account.manual.choices
        /\ c.manual.retired = account.manual.retired /\ c.manual.stage = "committing"
    BY TypedFacts DEF IInv, Account, ManualJournal
  <2> HIDE DEF c
  <2>2. Quiet(actor, account) /\ Books(actor, account)
    BY <1>1 DEF IInv, Shown, Books
  <2>3. Distinct(actor, c) /\ (\A x \in c.earned : Held(actor, c, x))
    BY <2>1, <2>2 DEF Books, Distinct, Older, Held
  <2>4. Books(actor, c)
    BY <2>1, <2>2, <2>3 DEF Books, Quiet
  <2>5. account' \in {c, Mark(c)}
    BY <1>1, <1>3, <2>1, UncertainFact DEF c
  <2> QED
    BY <1>1, <2>1, <2>4, <2>5, UncertainBooks DEF Doing
<1> QED
  BY <1>2, <1>3 DEF PrepareFails

LEMMA StartCommitKeeps ==
    ASSUME IInv, StartCommit
    PROVE  Books(actor', account') /\ Doing'
<1>1. /\ actor' = actor /\ account' = Prepared /\ call' = [NoCall EXCEPT !.at = "native"]
      /\ screen.phase = "preview" /\ screen.inc = actor.inc
  BY DEF StartCommit, Committable, Same
<1>2. account.manual.stage = "preview"
  BY <1>1 DEF IInv, Shown
<1>3. /\ Books(actor, Prepared) /\ Prepared.delivery.stage = "none"
      /\ \A x \in Ticket : Held(actor, Prepared, x)
                             <=> x \in Prepared.earned \/ Has(Prepared.manual.choices, x)
      /\ Apart(actor.granted, Prepared.queue)
  BY <1>2, PreparedBooks DEF IInv
<1>4. Prepared.manual.stage = "committing" /\ Prepared.manual.count = Len(Prepared.queue)
  BY PreparedFact DEF IInv
<1>5. Waiting'
  BY <1>1, <1>3, <1>4 DEF Waiting, Joined
<1>6. call'.at = "native"
  BY <1>1 DEF NoCall
<1> QED
  BY <1>1, <1>3, <1>5, <1>6 DEF Doing

LEMMA CommitDeferredKeeps ==
    ASSUME IInv, CommitDeferred
    PROVE  Books(actor', account') /\ Doing'
<1>1. actor' = actor /\ call'.at = "none" /\ call.at = "native" /\ Waiting /\ Typed /\ Shown
      /\ Books(actor, account)
  BY EmptyFacts DEF CommitDeferred, IInv, Doing
<1>2. PICK old \in {"complete", "deferred"} :
         LET c == [account EXCEPT !.manual.old = old]
         IN  /\ Finish(c) /\ c \in Account
             /\ c.queue = account.queue /\ c.earned = account.earned
             /\ c.delivery = account.delivery /\ c.made = account.made
             /\ c.xp = account.xp
             /\ c.manual.choices = account.manual.choices
             /\ c.manual.stage = account.manual.stage
             /\ c.manual.retired = account.manual.retired
  BY <1>1, DeferredFact
<1> DEFINE c == [account EXCEPT !.manual.old = old]
<1>3. /\ Finish(c) /\ c \in Account
      /\ c.queue = account.queue /\ c.earned = account.earned
      /\ c.delivery = account.delivery /\ c.made = account.made
      /\ c.manual.choices = account.manual.choices
      /\ c.manual.stage = account.manual.stage
      /\ c.manual.retired = account.manual.retired
  BY <1>2
<1> HIDE DEF c
<1>4. Distinct(actor, c) /\ (\A x \in c.earned : Held(actor, c, x))
  BY <1>1, <1>3 DEF Books, Distinct, Older, Held
<1>5. /\ \A x \in Ticket : Held(actor, c, x) <=> x \in c.earned \/ Has(c.manual.choices, x)
      /\ c.delivery.stage = "none" /\ Apart(actor.granted, c.queue)
  BY <1>1, <1>3 DEF Waiting, Joined, Held
<1>6. Books(actor, c)
  BY <1>1, <1>3, <1>4, <1>5 DEF Books, Waiting, Joined
<1>7. Books(actor, account')
  BY <1>1, <1>3, <1>5, <1>6, FinishBooks
<1> QED
  BY <1>1, <1>7 DEF Doing

LEMMA DeliveryReturnedKeeps ==
    ASSUME IInv, DeliveryReturned
    PROVE  Books(actor', account') /\ Doing'
<1>1. /\ Typed /\ Shown /\ Books(actor, account) /\ Running /\ Returned
      /\ actor' = actor /\ call'.at = "none" /\ account \in Account /\ screen \in Screen
  BY DeliveryReturnedCases, EmptyFacts, TypedFacts DEF IInv, Doing
<1>2. CASE Uncertain(account, screen)
  BY <1>1, <1>2, RefusedKeeps
<1>3. CASE Uncertain(Doubted(account, Batches(call.done)), screen)
  <2> DEFINE c == Doubted(account, Batches(call.done))
  <2>1. c \in Account /\ Books(actor, c)
    BY <1>1, BatchesNat, DoubtedFact, DoubtedBooks
  <2> HIDE DEF c
  <2>2. account' \in {c, Mark(c)}
    BY <1>1, <1>3, <2>1, UncertainFact DEF c
  <2> QED
    BY <1>1, <2>1, <2>2, UncertainBooks DEF Doing
<1>4. CASE call.status = 1 /\ Finish(Delivered(account))
  <2> DEFINE c == Delivered(account)
  <2>1. c \in Account
    BY <1>1, DeliveredFact
  <2>2. /\ Books(actor, c) /\ c.delivery.stage = "none" /\ Apart(actor.granted, c.queue)
        /\ \A x \in Ticket : Held(actor, c, x) <=> x \in c.earned \/ Has(c.manual.choices, x)
    BY <1>1, <1>4, DeliveredBooks
  <2> HIDE DEF c
  <2>3. Finish(c)
    BY <1>4 DEF c
  <2>4. Books(actor, account')
    BY <1>1, <2>1, <2>2, <2>3, FinishBooks
  <2> QED
    BY <1>1, <2>4 DEF Doing
<1> QED
  BY <1>1, <1>2, <1>3, <1>4, DeliveryReturnedCases

LEMMA DeliveringKeeps ==
    ASSUME IInv, \/ \E allocates \in BOOLEAN : Deliver(allocates)
                 \/ Fire \/ BatchReturns \/ BatchThrows
    PROVE  Books(actor', account') /\ Doing'
<1>1. Typed /\ Books(actor, account) /\ Doing
  BY DEF IInv
<1>2. ASSUME NEW allocates \in BOOLEAN, Deliver(allocates)
      PROVE  Books(actor', account') /\ Doing'
  <2>1. Waiting
    BY <1>1, <1>2 DEF Deliver, Doing
  <2> QED
    BY <1>1, <1>2, <2>1, DeliverKeeps DEF Doing
<1>3. CASE Fire
  <2>1. Running /\ Granting
    BY <1>1, <1>3 DEF Fire, Doing
  <2>2. call'.at = "deliver"
    BY <1>1, <1>3, <2>1, FireFact
  <2> QED
    BY <1>1, <1>3, <2>1, <2>2, FireKeeps DEF Doing
<1>4. CASE BatchReturns
  <2>1. Running /\ Granting /\ actor' = actor /\ account' = account
    BY <1>1, <1>4 DEF BatchReturns, Doing
  <2> QED
    BY <1>1, <1>4, <2>1, BatchReturnsKeeps DEF Doing
<1>5. CASE BatchThrows
  <2>1. Running /\ Granting /\ actor' = actor /\ account' = account
    BY <1>1, <1>5 DEF BatchThrows, Doing
  <2> QED
    BY <1>1, <1>5, <2>1, BatchThrowsKeeps DEF Doing
<1> QED
  BY <1>2, <1>3, <1>4, <1>5

LEMMA ReloadKeeps ==
    ASSUME IInv, Load \/ Restart
    PROVE  Books(actor', account') /\ Doing'
<1>1. \E n : Reload(n)
  BY DEF Load, Restart
<1>2. account' = saved.account /\ actor'.granted = saved.actor.granted
  BY <1>1, TypedFacts DEF Reload, IInv, Actor
<1>3. Books(actor', account')
  BY <1>2, BooksSame DEF IInv
<1>4. call'.at = "none"
  BY EmptyFacts DEF Load, Restart
<1> QED
  BY <1>3, <1>4 DEF Doing

LEMMA NextBooks == ASSUME IInv, [Next]_vars PROVE Books(actor', account') /\ Doing'
<1>1. ASSUME actor' = actor, call' = call, account' = account
      PROVE  Books(actor', account') /\ Doing'
  BY <1>1, NothingMoves
<1>2. ASSUME NEW points, OpenPage(points) PROVE Books(actor', account') /\ Doing'
  BY <1>1, <1>2 DEF OpenPage
<1>3. ASSUME NEW row, Pick(row) PROVE Books(actor', account') /\ Doing'
  BY <1>1, <1>3 DEF Pick
<1>4. ASSUME NEW row, Unpick(row) PROVE Books(actor', account') /\ Doing'
  <2>1. actor' = actor /\ call' = call /\ account' = account
    BY <1>4, Zenon DEF Unpick
  <2> QED
    BY <1>1, <2>1
<1>5. CASE ClosePage \/ Save \/ UNCHANGED vars
  BY <1>1, <1>5 DEF ClosePage, Save, vars
<1>6. CASE BeginRefused \/ BeginFails \/ Begin
  BY <1>6, BeginKeeps
<1>7. CASE ResetWhileOpen \/ CommitRefused
  <2>1. actor' = actor /\ call' = call /\ Uncertain(account, screen)
    BY <1>7 DEF ResetWhileOpen, CommitRefused
  <2> QED
    BY <2>1, RefusedKeeps, TypedFacts DEF IInv
<1>8. ASSUME NEW completes \in BOOLEAN, Cancel(completes) PROVE Books(actor', account') /\ Doing'
  BY <1>8, CancelKeeps
<1>9. CASE PrepareFails
  BY <1>9, PrepareFailsKeeps
<1>10. CASE StartCommit
  BY <1>10, StartCommitKeeps
<1>11. CASE CommitThrows \/ CommitStale
  <2>1. actor' = actor /\ call'.at = "none" /\ Uncertain(account, screen)
    BY <1>11, EmptyFacts DEF CommitThrows, CommitStale
  <2> QED
    BY <2>1, RefusedKeeps, TypedFacts DEF IInv
<1>12. CASE Reactivate \/ Drain
  <2>1. actor'.granted = actor.granted /\ call' = call /\ account' = account
    BY <1>12, TypedFacts DEF Reactivate, Drain, IInv, Actor
  <2> QED
    BY <2>1, NothingMoves
<1>13. CASE CommitDeferred
  BY <1>13, CommitDeferredKeeps
<1>14. CASE (\E allocates \in BOOLEAN : Deliver(allocates)) \/ Fire \/ BatchReturns \/ BatchThrows
  BY <1>14, DeliveringKeeps
<1>15. CASE DeliveryReturned
  BY <1>15, DeliveryReturnedKeeps
<1>16. CASE Award
  <2>1. actor \in Actor /\ account \in Account /\ account.xp + 1 \in Nat
    BY TypedFacts DEF IInv, Account
  <2>2. actor'.granted = actor.granted /\ call' = call
    BY <1>16, <2>1 DEF Award, Actor
  <2>3. account' = [account EXCEPT !.xp = account.xp + 1]
    BY <1>16 DEF Award
  <2>4. /\ account'.queue = account.queue /\ account'.earned = account.earned
        /\ account'.delivery = account.delivery /\ account'.made = account.made
        /\ account'.manual = account.manual
    BY <2>1, <2>3 DEF Account
  <2> QED
    BY <2>2, <2>4, NothingMoves
<1>17. CASE Load \/ Restart
  BY <1>17, ReloadKeeps
<1> QED
  BY <1>2, <1>3, <1>4, <1>5, <1>6, <1>7, <1>8, <1>9, <1>10, <1>11, <1>12, <1>13, <1>14, <1>15,
     <1>16, <1>17 DEF Next

LEMMA UncertainShown ==
    ASSUME IInv, NEW c \in Account, Uncertain(c, screen), screen.phase # "closed",
           page' = page, actor' = actor
    PROVE  Shown'
<1>1. screen'.phase = "uncertain" /\ screen'.inc = screen.inc
  BY UncertainFact, TypedFacts DEF IInv
<1> QED
  BY <1>1 DEF IInv, Shown

\* While a handler is under way the screen stays as it is.
LEMMA BusyShown ==
    ASSUME IInv, call.at # "none", page' = page, screen' = screen, actor'.inc = actor.inc
    PROVE  Shown'
BY DEF IInv, Shown

LEMMA FinishShown ==
    ASSUME IInv, NEW c \in Account, Finish(c), call.at # "none", call'.at = "none",
           page' = page, actor' = actor
    PROVE  Shown'
<1>1. CASE screen' = NoScreen
  <2>1. ~page'.open
    BY DEF IInv, Shown
  <2> QED
    BY <1>1, <2>1 DEF IInv, Shown, NoScreen
<1>2. CASE screen'.phase = "uncertain" /\ screen'.inc = screen.inc
  BY <1>2 DEF IInv, Shown
<1> QED
  BY <1>1, <1>2, FinishFact, TypedFacts DEF IInv

LEMMA BeginShown ==
    ASSUME IInv, BeginRefused \/ BeginFails \/ Begin
    PROVE  Shown'
<1>1. page' = NoPage /\ actor' = actor /\ call' = call /\ screen.phase = "closed"
  BY DEF BeginRefused, BeginFails, Begin, StartScreen
<1>2. call'.at = "none" /\ ~page'.open /\ page'.picks = <<>>
  BY <1>1 DEF IInv, Shown, NoPage
<1>3. actor.inc \in Nat /\ next_session + 1 \in Nat /\ actor.dormant \in BOOLEAN
  BY DEF IInv, Typed, Actor
<1>4. NewScreen \in Screen /\ NewScreen.inc = actor.inc
  BY <1>3 DEF NewScreen, Screen
<1> DEFINE w == [NewScreen EXCEPT !.owner = TRUE]
<1>5. w \in Screen /\ w.inc = actor.inc
  BY <1>4 DEF Screen
<1> HIDE DEF w
<1>6. Journaled(actor.dormant) \in Account
      /\ Journaled(actor.dormant).manual.stage = "preview"
  BY <1>3, JournaledFact DEF IInv
<1>7. CASE BeginRefused
  <2>1. screen'.phase = "uncertain" /\ screen'.inc = actor.inc
    BY <1>4, <1>7, UncertainFact, TypedFacts DEF BeginRefused, IInv
  <2> QED
    BY <1>1, <1>2, <1>3, <2>1 DEF Shown
<1>8. CASE BeginFails
  <2>1. screen'.phase = "uncertain" /\ screen'.inc = actor.inc
    BY <1>5, <1>6, <1>8, UncertainFact DEF BeginFails, w
  <2> QED
    BY <1>1, <1>2, <1>3, <2>1 DEF Shown
<1>9. CASE Begin
  <2>1. screen'.inc = actor.inc /\ account'.manual.stage = "preview"
    BY <1>5, <1>6, <1>9 DEF Begin, w
  <2> QED
    BY <1>1, <1>2, <1>3, <2>1 DEF Shown
<1> QED
  BY <1>7, <1>8, <1>9

LEMMA NextShown == ASSUME IInv, [Next]_vars PROVE Shown'
<1>1. ASSUME NEW points, OpenPage(points) PROVE Shown'
  BY <1>1 DEF OpenPage, IInv, Shown
<1>2. ASSUME NEW row, Pick(row) \/ Unpick(row) PROVE Shown'
  <2>1. /\ UNCHANGED <<actor, account, screen, call>> /\ page.open
        /\ \E n, s : page' = [page EXCEPT !.points = n, !.picks = s]
    BY <1>2, Zenon DEF Pick, Unpick
  <2>2. page'.open = page.open
    BY <2>1 DEF IInv, Typed, Page
  <2> QED
    BY <2>1, <2>2 DEF IInv, Shown
<1>3. CASE ClosePage
  BY <1>3 DEF ClosePage, NoPage, IInv, Shown
<1>4. CASE BeginRefused \/ BeginFails \/ Begin
  BY <1>4, BeginShown
<1>5. CASE ResetWhileOpen \/ CommitRefused
  BY <1>5, UncertainShown, TypedFacts DEF ResetWhileOpen, CommitRefused, IInv
<1>6. ASSUME NEW completes \in BOOLEAN, Cancel(completes) PROVE Shown'
  <2>1. screen.phase = "preview" /\ page' = page /\ actor' = actor /\ call' = call
    BY <1>6 DEF Cancel
  <2>2. CASE Uncertain(account, screen)
    BY <2>1, <2>2, UncertainShown, TypedFacts DEF IInv
  <2>3. CASE screen' = NoScreen
    BY <2>1, <2>3 DEF IInv, Shown, NoScreen
  <2> QED
    BY <1>6, <2>2, <2>3 DEF Cancel
<1>7. CASE PrepareFails
  <2>1. screen.phase # "closed" /\ page' = page /\ actor' = actor
    BY <1>7 DEF PrepareFails, Committable
  <2>2. [account EXCEPT !.manual.stage = "committing"] \in Account
    BY TypedFacts DEF IInv, Account, ManualJournal
  <2>3. \E c \in Account : Uncertain(c, screen)
    BY <1>7, <2>2, TypedFacts DEF PrepareFails, IInv
  <2> QED
    BY <2>1, <2>3, UncertainShown
<1>8. CASE StartCommit
  <2>1. screen.phase = "preview" /\ page' = page /\ actor' = actor
    BY <1>8 DEF StartCommit, Committable
  <2>2. screen'.phase = "committing" /\ screen'.inc = screen.inc
    BY <1>8, TypedFacts DEF StartCommit, IInv, Screen
  <2> QED
    BY <2>1, <2>2 DEF IInv, Shown
<1>9. CASE CommitThrows \/ CommitStale
  <2>1. call.at = "native" /\ page' = page /\ actor' = actor /\ Uncertain(account, screen)
    BY <1>9 DEF CommitThrows, CommitStale
  <2>2. screen.phase # "closed"
    BY <2>1 DEF IInv, Shown
  <2> QED
    BY <2>1, <2>2, UncertainShown, TypedFacts DEF IInv
<1>10. CASE Reactivate \/ Drain \/ Award \/ Fire
  <2>1. call.at # "none" /\ page' = page /\ screen' = screen
    BY <1>10 DEF Reactivate, Drain, Award, InGame, Fire
  <2>2. actor'.inc = actor.inc
    BY <1>10, TypedFacts DEF Reactivate, Drain, Award, Fire, IInv, Actor
  <2> QED
    BY <2>1, <2>2, BusyShown
<1>11. CASE BatchReturns \/ BatchThrows \/ \E allocates \in BOOLEAN : Deliver(allocates)
  BY <1>11, BusyShown DEF BatchReturns, BatchThrows, Deliver
<1>12. CASE CommitDeferred
  <2>1. \E c \in Account : Finish(c)
    BY <1>12, DeferredFact DEF IInv
  <2> QED
    BY <1>12, <2>1, FinishShown, EmptyFacts DEF CommitDeferred
<1>13. CASE DeliveryReturned
  <2>1. /\ call.at = "returned" /\ call'.at = "none" /\ page' = page /\ actor' = actor
        /\ screen.phase # "closed"
    BY <1>13, DeliveryReturnedCases, EmptyFacts DEF IInv, Shown
  <2>2. \E c \in Account : Uncertain(c, screen) \/ Finish(c)
    BY <1>13, DeliveryReturnedCases, TypedFacts, BatchesNat, DoubtedFact, DeliveredFact DEF IInv
  <2> QED
    BY <2>1, <2>2, UncertainShown, FinishShown
<1>14. CASE Save
  BY <1>14 DEF Save, IInv, Shown
<1>15. CASE Load
  <2>1. /\ page' = NoPage /\ call'.at = "none" /\ screen' = screen
        /\ actor'.inc = actor.inc + 1
    BY <1>15, TypedFacts, EmptyFacts DEF Load, Reload, IInv, Actor
  <2>2. actor.inc \in Nat /\ screen.inc \in Nat
    BY DEF IInv, Typed, Actor, Screen
  <2>3. screen'.phase # "closed" => screen'.inc < actor'.inc
    BY <2>1, <2>2 DEF IInv, Shown
  <2> QED
    BY <2>1, <2>2, <2>3 DEF Shown, NoPage
<1>16. CASE Restart
  BY <1>16, EmptyFacts DEF Restart, Reload, Shown, NoPage, NoScreen
<1>17. CASE UNCHANGED vars
  BY <1>17 DEF vars, IInv, Shown
<1> QED
  BY <1>1, <1>2, <1>3, <1>4, <1>5, <1>6, <1>7, <1>8, <1>9, <1>10, <1>11, <1>12, <1>13, <1>14,
     <1>15, <1>16, <1>17 DEF Next

LEMMA NextIInv == IInv /\ [Next]_vars => IInv'
<1> SUFFICES ASSUME IInv, [Next]_vars PROVE IInv'
  OBVIOUS
<1>1. Typed'
  BY NextTyped DEF IInv
<1> QED
  BY <1>1, NextBooks, NextSaved, NextShown DEF IInv
-----------------------------------------------------------------------------
LEMMA Inductive == Spec => []IInv
BY InitIInv, NextIInv, PTL DEF Spec

LEMMA HasToSet == ASSUME NEW s \in Seq(Ticket), NEW x PROVE x \in ToSet(s) <=> Has(s, x)
BY DEF ToSet, Has

\* A stretch of a sequence holds the elements at its places and no other.
LEMMA SubSeqHas ==
    ASSUME NEW s \in Seq(Ticket), NEW m \in 1..Len(s) + 1, NEW n \in 0..Len(s),
           NEW x \in ToSet(SubSeq(s, m, n))
    PROVE  \E i \in DOMAIN s : m <= i /\ i <= n /\ s[i] = x
<1>1. Len(s) \in Nat /\ DOMAIN s = 1..Len(s)
  BY TicketSeq
<1> DEFINE part == SubSeq(s, m, n)
<1>2. /\ part \in Seq(Ticket)
      /\ Len(part) = IF m <= n THEN n - m + 1 ELSE 0
      /\ \A i \in 1..(n - m + 1) : part[i] = s[m + i - 1]
  BY <1>1, SubSeqProperties
<1>3. DOMAIN part = 1..Len(part)
  BY <1>2, TicketSeq
<1>4. x \in ToSet(part)
  OBVIOUS
<1> HIDE DEF part
<1>5. PICK j \in DOMAIN part : part[j] = x
  BY <1>2, <1>4, HasToSet DEF Has
<1>6. m <= n /\ j \in 1..(n - m + 1)
  BY <1>1, <1>2, <1>3, <1>5
<1>7. m + j - 1 \in 1..Len(s) /\ m <= m + j - 1 /\ m + j - 1 <= n
  BY <1>1, <1>6
<1> QED
  BY <1>1, <1>2, <1>5, <1>6, <1>7

LEMMA BooksBalance == IInv => AbilitiesAccounted
<1> SUFFICES ASSUME IInv PROVE AbilitiesAccounted
  OBVIOUS
<1> DEFINE granted == actor.granted
           queue == account.queue
<1>1. /\ granted \in Seq(Ticket) /\ queue \in Seq(Ticket) /\ account.earned \subseteq Ticket
      /\ account.delivery.completed \in Nat
  BY DEF IInv, Typed, Actor, Account, DeliveryJournal
<1>2. Books(actor, account)
  BY DEF IInv
<1>3. \A x : x \in ToSet(granted) <=> Has(granted, x)
  BY <1>1, HasToSet
<1>4. \A x : x \in ToSet(queue) <=> Has(queue, x)
  BY <1>1, HasToSet
<1>5. \A x : x \in GrantedOrQueued <=> Held(actor, account, x)
  BY <1>3, <1>4 DEF GrantedOrQueued, Held
<1>6. \A x : Held(actor, account, x) => x \in Ticket
  BY <1>1, TicketSeq DEF Held, Has
<1>7. OnceEach(granted) /\ OnceEach(queue)
  BY <1>2 DEF Books, Distinct
<1>8. account.earned \subseteq GrantedOrQueued
  BY <1>2, <1>5 DEF Books
<1>9. ASSUME Free
      PROVE  account.earned = GrantedOrQueued /\ ToSet(granted) \cap ToSet(queue) = {}
  <2>1. Quiet(actor, account)
    BY <1>2, <1>9 DEF Free, Books
  <2>2. \A x : x \in account.earned <=> Held(actor, account, x)
    BY <1>1, <1>6, <2>1 DEF Quiet
  <2>3. \A x : ~(Has(granted, x) /\ Has(queue, x))
    BY <1>6, <2>1 DEF Quiet, Apart, Held
  <2> QED
    BY <1>3, <1>4, <1>5, <2>2, <2>3
<1>10. ASSUME account.delivery.stage = "uncertain"
       PROVE  /\ ToSet(SubSeq(queue, 1, Known)) \subseteq ToSet(granted)
              /\ ToSet(SubSeq(queue, Doubtful + 1, Len(queue))) \cap ToSet(granted) = {}
  <2>1. OneBatch(actor, account)
    BY <1>2, <1>10 DEF Books
  <2>2. Known = KnownTo(account)
    BY DEF Known, KnownTo
  <2>3. /\ account.delivery.count = Len(queue)
        /\ \A i \in DOMAIN queue : /\ i <= Known => Has(granted, queue[i])
                                   /\ i > Known + Batch => ~Has(granted, queue[i])
    BY <2>1, <2>2 DEF OneBatch
  <2>4. Len(queue) \in Nat /\ Batch \in Nat /\ DOMAIN queue = 1..Len(queue)
    BY <1>1, TicketSeq, AbilityAssumption
  <2>5. account.delivery.completed * Batch \in Nat
    BY <1>1, <2>4
  <2>6. Known \in 0..Len(queue)
    BY <2>3, <2>4, <2>5 DEF Known, Smaller
  <2>7. /\ Doubtful \in 0..Len(queue)
        /\ \A i \in 1..Len(queue) : i >= Doubtful + 1 => i > Known + Batch
    BY <2>3, <2>4, <2>6 DEF Doubtful, Smaller
  <2>8. ASSUME NEW x \in ToSet(SubSeq(queue, 1, Known)) PROVE x \in ToSet(granted)
    <3>1. 1 \in 1..Len(queue) + 1
      BY <2>4
    <3>2. PICK i \in DOMAIN queue : i <= Known /\ queue[i] = x
      BY <1>1, <2>6, <2>8, <3>1, SubSeqHas
    <3> QED
      BY <1>3, <2>3, <3>2
  <2>9. ASSUME NEW x \in ToSet(SubSeq(queue, Doubtful + 1, Len(queue))) PROVE x \notin ToSet(granted)
    <3>1. Doubtful + 1 \in 1..Len(queue) + 1 /\ Len(queue) \in 0..Len(queue)
      BY <2>4, <2>7
    <3>2. PICK i \in DOMAIN queue : Doubtful + 1 <= i /\ queue[i] = x
      BY <1>1, <2>9, <3>1, SubSeqHas
    <3>3. i > Known + Batch
      BY <2>4, <2>7, <3>2
    <3> QED
      BY <1>3, <2>3, <3>2, <3>3
  <2> QED
    BY <2>8, <2>9
<1> QED
  BY <1>7, <1>8, <1>9, <1>10 DEF AbilitiesAccounted

\* Whatever fails, is saved in the middle of a commit or is loaded, and for any
\* catalogue and batch size: no ability of a dormant class is granted twice,
\* none that a finished screen earned is lost, and an interrupted delivery
\* leaves one batch in doubt (Prepare, Commit, CBMDHLA_Deliver).
THEOREM AbilitiesKept == Spec => []AbilitiesAccounted
BY Inductive, BooksBalance, PTL
-----------------------------------------------------------------------------
(* Experience.                                                              *)

XpInv ==
    /\ account.xp = actor.xp
    /\ saved.account.xp = saved.actor.xp

LEMMA UncertainXp ==
    ASSUME NEW c \in Account, NEW s \in Screen, Uncertain(c, s)
    PROVE  account'.xp = c.xp
BY UncertainFact, MarkFact

LEMMA FinishXp ==
    ASSUME NEW c \in Account, Finish(c), screen \in Screen
    PROVE  account'.xp = c.xp
BY UncertainXp, ReceiptedFact DEF Finish

\* A commit that prepares or fails to: neither changes what the account holds.
LEMMA CommittingXp ==
    ASSUME IInv, account.xp = actor.xp, PrepareFails \/ StartCommit \/ CommitDeferred \/ DeliveryReturned
    PROVE  account'.xp = actor'.xp
<1> USE DEF IInv
<1>1. account \in Account /\ screen \in Screen
  BY TypedFacts
<1>2. CASE PrepareFails
  <2> DEFINE c == [account EXCEPT !.manual.stage = "committing"]
  <2>1. c \in Account /\ c.xp = account.xp
    BY <1>1 DEF Account, ManualJournal
  <2>2. actor' = actor /\ (Uncertain(account, screen) \/ Uncertain(c, screen))
    BY <1>2 DEF PrepareFails
  <2> HIDE DEF c
  <2> QED
    BY <1>1, <2>1, <2>2, UncertainXp
<1>3. CASE StartCommit
  BY <1>3, PreparedFact DEF StartCommit
<1>4. CASE CommitDeferred
  <2>1. actor' = actor
    BY <1>4 DEF CommitDeferred
  <2>2. PICK old \in {"complete", "deferred"} :
          LET c == [account EXCEPT !.manual.old = old]
          IN  Finish(c) /\ c \in Account /\ c.xp = account.xp
    BY <1>4, DeferredFact
  <2> QED
    BY <1>1, <2>1, <2>2, FinishXp
<1>5. CASE DeliveryReturned
  <2>1. actor' = actor
    BY <1>5, DeliveryReturnedCases
  <2>2. CASE Uncertain(account, screen)
    BY <1>1, <2>1, <2>2, UncertainXp
  <2>3. CASE Uncertain(Doubted(account, Batches(call.done)), screen)
    BY <1>1, <2>1, <2>3, UncertainXp, DoubtedFact, BatchesNat
  <2>4. CASE Finish(Delivered(account))
    BY <1>1, <2>1, <2>4, FinishXp, DeliveredFact
  <2> QED
    BY <1>5, <2>2, <2>3, <2>4, DeliveryReturnedCases
<1> QED
  BY <1>2, <1>3, <1>4, <1>5

LEMMA OpeningXp ==
    ASSUME IInv, account.xp = actor.xp, BeginRefused \/ BeginFails \/ Begin
    PROVE  account'.xp = actor'.xp
<1> USE DEF IInv
<1>1. account \in Account /\ actor.inc \in Nat /\ next_session + 1 \in Nat /\ actor.dormant \in BOOLEAN
  BY DEF Typed, Actor
<1>2. NewScreen \in Screen /\ [NewScreen EXCEPT !.owner = TRUE] \in Screen
  <2>1. NewScreen \in Screen
    BY <1>1 DEF NewScreen, Screen
  <2> QED
    BY <2>1 DEF Screen
<1>3. Journaled(actor.dormant) \in Account /\ Journaled(actor.dormant).xp = account.xp
  BY <1>1, JournaledFact
<1>4. actor' = actor
  BY DEF BeginRefused, BeginFails, Begin
<1>5. CASE BeginRefused
  BY <1>1, <1>2, <1>4, <1>5, UncertainXp DEF BeginRefused
<1>6. CASE BeginFails
  BY <1>2, <1>3, <1>4, <1>6, UncertainXp DEF BeginFails
<1>7. CASE Begin
  BY <1>3, <1>4, <1>7 DEF Begin
<1> QED
  BY <1>5, <1>6, <1>7

LEMMA NextXp == ASSUME IInv, XpInv, [Next]_vars PROVE XpInv'
<1> USE DEF XpInv
<1>1. /\ account \in Account /\ screen \in Screen /\ actor \in Actor
      /\ saved.actor \in Actor /\ saved.account \in Account
  BY TypedFacts DEF IInv
<1>2. saved' = saved \/ (saved'.account = account /\ saved'.actor = actor)
  <2>1. ASSUME NEW points, OpenPage(points) PROVE saved' = saved
    BY <2>1 DEF OpenPage
  <2>2. ASSUME NEW row, Pick(row) \/ Unpick(row) PROVE saved' = saved
    BY <2>2 DEF Pick, Unpick
  <2>3. CASE ClosePage \/ BeginRefused \/ BeginFails \/ Begin \/ ResetWhileOpen
    BY <2>3 DEF ClosePage, BeginRefused, BeginFails, Begin, ResetWhileOpen
  <2>4. ASSUME NEW completes, Cancel(completes) PROVE saved' = saved
    BY <2>4 DEF Cancel
  <2>5. CASE CommitRefused \/ PrepareFails \/ StartCommit \/ CommitThrows \/ Reactivate
    BY <2>5 DEF CommitRefused, PrepareFails, StartCommit, CommitThrows, Reactivate
  <2>6. CASE CommitDeferred \/ CommitStale \/ DeliveryReturned
    BY <2>6 DEF CommitDeferred, CommitStale, DeliveryReturned
  <2>7. ASSUME NEW allocates, Deliver(allocates) PROVE saved' = saved
    BY <2>7 DEF Deliver
  <2>8. CASE Fire \/ BatchReturns \/ BatchThrows \/ Award \/ Drain
    BY <2>8 DEF Fire, BatchReturns, BatchThrows, Award, Drain
  <2>9. CASE Load \/ Restart \/ UNCHANGED vars
    BY <2>9 DEF Load, Restart, Reload, vars
  <2>10. CASE Save
    BY <2>10 DEF Save
  <2> QED
    BY <2>1, <2>2, <2>3, <2>4, <2>5, <2>6, <2>7, <2>8, <2>9, <2>10 DEF Next
<1>3. ASSUME actor' = actor, account' = account PROVE account'.xp = actor'.xp
  BY <1>3
<1>4. ASSUME actor' = actor, Uncertain(account, screen) PROVE account'.xp = actor'.xp
  BY <1>1, <1>4, UncertainXp
<1>5. account'.xp = actor'.xp
  <2>1. ASSUME NEW points, OpenPage(points) PROVE account'.xp = actor'.xp
    BY <1>3, <2>1 DEF OpenPage
  <2>2. ASSUME NEW row, Pick(row) \/ Unpick(row) PROVE account'.xp = actor'.xp
    BY <1>3, <2>2 DEF Pick, Unpick
  <2>3. CASE ClosePage \/ BatchReturns \/ BatchThrows \/ Save \/ UNCHANGED vars
    BY <2>3 DEF ClosePage, BatchReturns, BatchThrows, Save, vars
  <2>4. CASE BeginRefused \/ BeginFails \/ Begin
    BY <2>4, OpeningXp
  <2>5. CASE ResetWhileOpen \/ CommitRefused \/ CommitThrows \/ CommitStale
    BY <1>4, <2>5 DEF ResetWhileOpen, CommitRefused, CommitThrows, CommitStale
  <2>6. ASSUME NEW completes, Cancel(completes) PROVE account'.xp = actor'.xp
    <3>1. actor' = actor
      BY <2>6 DEF Cancel
    <3>2. CASE Uncertain(account, screen)
      BY <1>4, <3>1, <3>2
    <3>3. CASE account' = [account EXCEPT !.manual = NoManual]
      BY <1>1, <3>1, <3>3 DEF Account
    <3> QED
      BY <2>6, <3>2, <3>3 DEF Cancel
  <2>7. CASE PrepareFails \/ StartCommit \/ CommitDeferred \/ DeliveryReturned
    BY <2>7, CommittingXp
  <2>8. CASE Reactivate \/ Drain \/ Fire
    BY <1>1, <2>8 DEF Reactivate, Drain, Fire, Actor
  <2>9. ASSUME NEW allocates, Deliver(allocates) PROVE account'.xp = actor'.xp
    <3>1. actor' = actor /\ account' = Delivering
      BY <2>9 DEF Deliver
    <3>2. Delivering.xp = account.xp
      BY <1>1 DEF Delivering, Account
    <3> QED
      BY <3>1, <3>2
  <2>10. CASE Award
    BY <1>1, <2>10 DEF Award, Actor, Account
  <2>11. CASE Load \/ Restart
    <3>1. PICK n : actor' = [saved.actor EXCEPT !.inc = n] /\ account' = saved.account
      BY <2>11 DEF Load, Restart, Reload
    <3> QED
      BY <1>1, <3>1 DEF Actor
  <2> QED
    BY <2>1, <2>2, <2>3, <2>4, <2>5, <2>6, <2>7, <2>8, <2>9, <2>10, <2>11 DEF Next
<1> QED
  BY <1>2, <1>5

\* Experience that an ability awards inside the delivery is never lost to the
\* copy of the carrier that the commit made before it, through saves, loads
\* and failed batches (Commit of dual_old_hla_receipts.lua).
THEOREM RewardXpIsKept == Spec => []RewardXpKept
<1>1. Init => XpInv
  BY DEF Init, XpInv
<1>2. IInv /\ XpInv /\ [Next]_vars => XpInv'
  BY NextXp
<1>3. XpInv => RewardXpKept
  BY DEF XpInv, RewardXpKept
<1> QED
  BY <1>1, <1>2, <1>3, Inductive, PTL DEF Spec
-----------------------------------------------------------------------------
(* The rules of the page.                                                   *)

\* Every pick was allowed when its predecessors are counted; g is what counts
\* beside the picks.
LegalPicks(p, g) ==
    \A i \in DOMAIN p : Enabled(p[i], Catalog[p[i]].max, Count(SubSeq(p, 1, i - 1)), g)

\* What the character has and waits for does not change under an open page, and
\* a screen in preview sees what its journal will queue.
RulesInv ==
    /\ page.open => LegalPicks(page.picks, Granted)
    /\ Manual("preview") =>
         ContextHeld /\ projection.rows = Effects(Preview(account))

LEMMA IndicesFinite ==
    ASSUME NEW n \in Nat, NEW I \in SUBSET (1..n)
    PROVE  Cardinality(I) \in Nat
<1>1. IsFiniteSet(1..n)
  BY FS_Interval
<1>2. IsFiniteSet(I)
  BY <1>1, FS_Subset
<1> QED
  BY <1>2, FS_CardinalityType

LEMMA CountFact ==
    ASSUME NEW picks \in Seq(Rows), NEW e \in AllEffects
    PROVE  Count(picks)[e] \in Nat
<1>1. DOMAIN picks = 1..Len(picks) /\ Len(picks) \in Nat
  BY PickSeq
<1>2. {i \in DOMAIN picks : Effect(picks[i]) = e} \in SUBSET (1..Len(picks))
  BY <1>1
<1> QED
  BY <1>1, <1>2, IndicesFinite DEF Count

Resources == {e[2] : e \in AllEffects}

LEMMA EarnedFact ==
    ASSUME NEW s \in Seq(Ticket), NEW res \in Resources
    PROVE  Earned(Effects(s))[res] \in Nat
<1>1. DOMAIN s = 1..Len(s) /\ Len(s) \in Nat
  BY TicketSeq
<1>2. DOMAIN Effects(s) = 1..Len(s)
  BY <1>1 DEF Effects
<1>3. {i \in DOMAIN Effects(s) : Effects(s)[i][2] = res} \in SUBSET (1..Len(s))
  BY <1>2
<1> QED
  BY <1>1, <1>3, IndicesFinite DEF Earned, Resources

LEMMA GrantedFact ==
    ASSUME Typed, NEW res \in Resources
    PROVE  Granted[res] \in Nat
<1>1. actor.granted \o account.queue \in Seq(Ticket)
  BY TypedFacts, ConcatProperties
<1> QED
  BY <1>1, EarnedFact DEF Granted

LEMMA RowFact ==
    ASSUME NEW row \in Rows
    PROVE  /\ Effect(row) \in AllEffects /\ Effect(row)[2] = Catalog[row].res
           /\ Catalog[row].max \in Int
           /\ \A e \in {Catalog[row].prereq, Catalog[row].excl} \ {Nothing} : e \in AllEffects
<1>1. Effect(row)[2] = Catalog[row].res
  BY DEF Effect
<1> QED
  BY <1>1, AbilityAssumption DEF AllEffects, Rows

LEMMA RankFact ==
    ASSUME NEW chosen \in Nat, NEW earned \in Nat, NEW max \in Int, NEW self \in {0, 1}
    PROVE  /\ (self + earned < max - chosen + self) <=> (chosen + earned < max)
           /\ (chosen + earned < max) => max > 0 /\ chosen < max
OBVIOUS

\* The reduced question that CBMDHLA_CanChoose puts to the game has the answer of
\* the full one: the selections it leaves out are off the rank.
LEMMA SameRule ==
    ASSUME Typed, NEW row \in Rows, NEW picks \in Seq(Rows)
    PROVE  CanChoose(row, picks) <=> Allowed(row, picks)
<1> DEFINE c == Catalog[row]
           n == Count(picks)
           g == Granted
           reps == Represented(row, picks)
           self == IF Effect(row) \in reps THEN 1 ELSE 0
           few == [e \in AllEffects |-> IF e \in reps THEN 1 ELSE 0]
           All(e) == e # Nothing /\ (n[e] > 0 \/ g[e[2]] > 0)
           Few(e) == e # Nothing /\ (few[e] > 0 \/ g[e[2]] > 0)
<1>1. /\ Effect(row) \in AllEffects /\ c.res \in Resources /\ c.max \in Int
      /\ \A e \in {c.prereq, c.excl} \ {Nothing} : e \in AllEffects
  BY RowFact DEF Resources
<1>2. n[Effect(row)] \in Nat /\ g[c.res] \in Nat
  BY <1>1, CountFact, GrantedFact
<1>3. few[Effect(row)] = self
  BY <1>1
<1>4. ASSUME NEW e \in {c.prereq, c.excl} PROVE All(e) <=> Few(e)
  <2>1. CASE e = Nothing
    BY <2>1
  <2>2. CASE e # Nothing
    <3>1. e \in AllEffects /\ n[e] \in Nat
      BY <1>1, <2>2, CountFact
    <3>2. e \in reps <=> n[e] > 0
      BY <2>2 DEF Represented
    <3>3. few[e] > 0 <=> n[e] > 0
      BY <3>1, <3>2
    <3> QED
      BY <3>3
  <2> QED
    BY <2>1, <2>2
<1>5. Enabled(row, c.max, n, g) <=>
        /\ n[Effect(row)] + g[c.res] < c.max
        /\ c.prereq = Nothing \/ All(c.prereq)
        /\ ~All(c.excl)
  BY DEF Enabled
<1>6. Enabled(row, c.max - n[Effect(row)] + self, few, g) <=>
        /\ few[Effect(row)] + g[c.res] < c.max - n[Effect(row)] + self
        /\ c.prereq = Nothing \/ Few(c.prereq)
        /\ ~Few(c.excl)
  BY DEF Enabled
<1>7. CanChoose(row, picks) <=>
        /\ c.max > 0 /\ n[Effect(row)] < c.max
        /\ Enabled(row, c.max - n[Effect(row)] + self, few, g)
  BY DEF CanChoose
<1>8. Allowed(row, picks) <=> Enabled(row, c.max, n, g)
  BY DEF Allowed
<1>9. self \in {0, 1}
  OBVIOUS
<1> HIDE DEF c, n, g, self, few, All, Few, reps
<1>10. /\ (self + g[c.res] < c.max - n[Effect(row)] + self) <=> (n[Effect(row)] + g[c.res] < c.max)
       /\ (n[Effect(row)] + g[c.res] < c.max) => c.max > 0 /\ n[Effect(row)] < c.max
  BY <1>1, <1>2, <1>9, RankFact
<1> QED
  BY <1>3, <1>4, <1>5, <1>6, <1>7, <1>8, <1>10

\* The picks before the i-th one.
LEMMA AppendedPicks ==
    ASSUME NEW s \in Seq(Rows), NEW row \in Rows, NEW i \in 1..(Len(s) + 1)
    PROVE  SubSeq(Append(s, row), 1, i - 1) = SubSeq(s, 1, i - 1)
<1> DEFINE t == Append(s, row)
<1>1. Len(s) \in Nat /\ \A j \in 1..Len(s) : s[j] \in Rows
  BY PickSeq
<1>2. t \in Seq(Rows) /\ \A j \in 1..Len(s) : t[j] = s[j]
  BY AppendProperties
<1> HIDE DEF t
<1>3. i - 1 \in Int /\ 1..(i - 1) \subseteq 1..Len(s)
  BY <1>1
<1>4. \A j \in 1..(i - 1) : s[j] \in Rows /\ t[j] \in Rows /\ t[j] = s[j]
  BY <1>1, <1>2, <1>3
<1> DEFINE u == SubSeq(s, 1, i - 1)
           v == SubSeq(t, 1, i - 1)
<1>5. u \in Seq(Rows) /\ Len(u) = i - 1 /\ \A j \in 1..(i - 1) : u[j] = s[j]
  <2>1. /\ u \in Seq(Rows) /\ Len(u) = (IF 1 <= i - 1 THEN i - 1 - 1 + 1 ELSE 0)
        /\ \A j \in 1..(i - 1 - 1 + 1) : u[j] = s[1 + j - 1]
    BY <1>3, <1>4, SubSeqProperties
  <2> HIDE DEF u
  <2> QED
    BY <1>1, <2>1
<1>6. v \in Seq(Rows) /\ Len(v) = i - 1 /\ \A j \in 1..(i - 1) : v[j] = t[j]
  <2>1. /\ v \in Seq(Rows) /\ Len(v) = (IF 1 <= i - 1 THEN i - 1 - 1 + 1 ELSE 0)
        /\ \A j \in 1..(i - 1 - 1 + 1) : v[j] = t[1 + j - 1]
    BY <1>3, <1>4, SubSeqProperties
  <2> HIDE DEF v
  <2> QED
    BY <1>1, <2>1
<1> HIDE DEF u, v
<1>7. u = v
  BY <1>4, <1>5, <1>6, SeqEqual
<1> QED
  BY <1>7 DEF u, v, t

LEMMA PickRules ==
    ASSUME Typed, LegalPicks(page.picks, Granted), NEW row \in Rows, CanChoose(row, page.picks)
    PROVE  LegalPicks(Append(page.picks, row), Granted)
<1> DEFINE s == page.picks
           t == Append(s, row)
<1>1. s \in Seq(Rows) /\ Len(s) \in Nat /\ DOMAIN s = 1..Len(s)
  BY PickSeq DEF Typed, Page
<1>2. /\ DOMAIN t = 1..(Len(s) + 1) /\ t[Len(s) + 1] = row
      /\ \A i \in 1..Len(s) : t[i] = s[i]
  <2>1. t \in Seq(Rows) /\ Len(t) = Len(s) + 1
    BY <1>1, AppendProperties
  <2> QED
    BY <1>1, <2>1, AppendProperties, PickSeq
<1> SUFFICES ASSUME NEW i \in 1..(Len(s) + 1)
             PROVE  Enabled(t[i], Catalog[t[i]].max, Count(SubSeq(t, 1, i - 1)), Granted)
  BY <1>2 DEF LegalPicks
<1>3. SubSeq(t, 1, i - 1) = SubSeq(s, 1, i - 1)
  BY <1>1, AppendedPicks
<1>4. CASE i = Len(s) + 1
  <2>1. SubSeq(s, 1, i - 1) = s
    BY <1>1, <1>4, SubSeqFull
  <2>2. Allowed(row, s)
    BY <1>1, SameRule
  <2> QED
    BY <1>2, <1>3, <1>4, <2>1, <2>2 DEF Allowed
<1>5. CASE i \in 1..Len(s)
  BY <1>1, <1>2, <1>3, <1>5 DEF LegalPicks
<1> QED
  BY <1>1, <1>4, <1>5

\* A list in which each pick can be chosen after those before it.
LEMMA ReplayedRules ==
    ASSUME Typed, NEW s \in Seq(Rows), \A i \in DOMAIN s : CanChoose(s[i], SubSeq(s, 1, i - 1))
    PROVE  LegalPicks(s, Granted)
<1>1. Len(s) \in Nat /\ DOMAIN s = 1..Len(s) /\ \A i \in DOMAIN s : s[i] \in Rows
  BY PickSeq
<1> SUFFICES ASSUME NEW i \in DOMAIN s
             PROVE  Enabled(s[i], Catalog[s[i]].max, Count(SubSeq(s, 1, i - 1)), Granted)
  BY DEF LegalPicks
<1>2. i - 1 \in Int /\ \A j \in 1..(i - 1) : s[j] \in Rows
  BY <1>1
<1>3. SubSeq(s, 1, i - 1) \in Seq(Rows)
  BY <1>2, SubSeqProperties
<1> QED
  BY <1>1, <1>3, SameRule DEF Allowed

LEMMA NoPicks ==
    LegalPicks(<<>>, Granted)
BY EmptySeq, PickSeq DEF LegalPicks

\* A page is open only while no screen is and nothing is under way.
LEMMA PageAlone ==
    ASSUME IInv, screen.phase # "closed" \/ call.at # "none"
    PROVE  ~page.open
BY DEF IInv, Shown

LEMMA UncertainRules ==
    ASSUME NEW c, NEW s \in Screen, Uncertain(c, s), page' = page \/ page' = NoPage, ~page.open
    PROVE  RulesInv'
<1>1. screen'.phase = "uncertain"
  BY DEF Uncertain, Screen
<1>2. ~page'.open
  BY DEF NoPage
<1> QED
  BY <1>1, <1>2 DEF RulesInv, Manual

LEMMA FinishRules ==
    ASSUME IInv, NEW c, Finish(c), page' = page, ~page.open
    PROVE  RulesInv'
<1>1. CASE screen' = NoScreen
  BY <1>1 DEF RulesInv, Manual, NoScreen
<1>2. CASE Uncertain(c, screen)
  BY <1>2, UncertainRules, TypedFacts DEF IInv
<1> QED
  BY <1>1, <1>2 DEF Finish

\* A handler that runs has a screen past its preview.
LEMMA BusyRules ==
    ASSUME IInv, call.at # "none", page' = page, screen' = screen
    PROVE  RulesInv'
BY DEF IInv, Shown, RulesInv, Manual

LEMMA BeginRules ==
    ASSUME IInv, BeginRefused \/ BeginFails \/ Begin
    PROVE  RulesInv'
<1>1. page' = NoPage /\ ~page'.open
  BY DEF BeginRefused, BeginFails, Begin, StartScreen, NoPage
<1>2. actor.inc \in Nat /\ next_session \in Nat
  BY DEF IInv, Typed, Actor
<1>3. NewScreen \in Screen /\ NewScreen.session = next_session + 1 /\ NewScreen.inc = actor.inc
  BY <1>2 DEF NewScreen, Screen
<1> DEFINE w == [NewScreen EXCEPT !.owner = TRUE]
<1>4. w \in Screen /\ w.session = next_session + 1 /\ w.inc = actor.inc
  BY <1>3 DEF Screen
<1> HIDE DEF w
<1>5. CASE BeginRefused \/ BeginFails
  <2>1. \E c, s : s \in Screen /\ Uncertain(c, s)
    BY <1>3, <1>4, <1>5 DEF BeginRefused, BeginFails, w
  <2>2. screen'.phase = "uncertain"
    BY <2>1 DEF Uncertain, Screen
  <2> QED
    BY <1>1, <2>2 DEF RulesInv, Manual
<1>6. CASE Begin
  <2> DEFINE a == Journaled(actor.dormant)
  <2>1. /\ account' = a /\ screen' = w
        /\ projection' = [session |-> next_session + 1, inc |-> actor.inc, rows |-> Effects(Preview(a))]
    BY <1>6 DEF Begin, w
  <2> HIDE DEF a
  <2>2. ContextHeld'
    BY <1>4, <2>1 DEF ContextHeld
  <2>3. projection'.rows = Effects(Preview(account'))
    BY <2>1
  <2> QED
    BY <1>1, <2>2, <2>3 DEF RulesInv
<1> QED
  BY <1>5, <1>6

LEMMA NextRules == ASSUME IInv, RulesInv, [Next]_vars PROVE RulesInv'
<1>1. ASSUME NEW points, OpenPage(points) PROVE RulesInv'
  <2>1. page'.picks = <<>> /\ screen' = screen /\ screen.phase = "closed"
    BY <1>1 DEF OpenPage
  <2>2. Granted' = Granted
    BY <1>1 DEF OpenPage, Granted
  <2>3. LegalPicks(page'.picks, Granted')
    BY <2>1, <2>2, NoPicks
  <2> QED
    BY <2>1, <2>3 DEF RulesInv, Manual
<1>2. ASSUME NEW row \in Rows, Pick(row) \/ Unpick(row) PROVE RulesInv'
  <2>1. page.open /\ screen' = screen /\ screen.phase = "closed"
    BY <1>2 DEF Pick, Unpick, IInv, Shown
  <2>2. Granted' = Granted
    BY <1>2 DEF Pick, Unpick, Granted
  <2>3. Typed /\ page.picks \in Seq(Rows) /\ page \in Page /\ LegalPicks(page.picks, Granted)
    BY <2>1 DEF IInv, Typed, Page, RulesInv
  <2>4. CASE Pick(row)
    <3>1. page'.picks = Append(page.picks, row) /\ CanChoose(row, page.picks)
      BY <2>3, <2>4 DEF Pick, Page
    <3> QED
      BY <2>1, <2>2, <2>3, <3>1, PickRules DEF RulesInv, Manual
  <2>5. CASE Unpick(row)
    <3>1. PICK last \in LastPick(row, page.picks) :
            LET left == RemoveAt(page.picks, last)
            IN  /\ \A i \in DOMAIN left : CanChoose(left[i], SubSeq(left, 1, i - 1))
                /\ page' = [page EXCEPT !.points = @ + 1, !.picks = left]
      BY <2>5 DEF Unpick
    <3> DEFINE left == RemoveAt(page.picks, last)
    <3>2. left \in Seq(Rows)
      BY <2>3, <3>1, PickSeq DEF LastPick
    <3>3. page'.picks = left
      BY <2>3, <3>1 DEF Page
    <3>4. LegalPicks(left, Granted)
      BY <2>3, <3>1, <3>2, ReplayedRules
    <3> QED
      BY <2>1, <2>2, <3>3, <3>4 DEF RulesInv, Manual
  <2> QED
    BY <1>2, <2>4, <2>5
<1>3. CASE ClosePage
  <2>1. ~page'.open /\ screen' = screen /\ screen.phase = "closed"
    BY <1>3 DEF ClosePage, NoPage, IInv, Shown
  <2> QED
    BY <2>1 DEF RulesInv, Manual
<1>4. CASE BeginRefused \/ BeginFails \/ Begin
  BY <1>4, BeginRules
<1>5. CASE ResetWhileOpen \/ CommitRefused
  BY <1>5, PageAlone, UncertainRules, TypedFacts DEF ResetWhileOpen, CommitRefused, IInv
<1>6. ASSUME NEW completes \in BOOLEAN, Cancel(completes) PROVE RulesInv'
  <2>1. page' = page /\ ~page.open
    BY <1>6, PageAlone DEF Cancel
  <2>2. CASE Uncertain(account, screen)
    BY <2>1, <2>2, UncertainRules, TypedFacts DEF IInv
  <2>3. CASE screen' = NoScreen
    BY <2>1, <2>3 DEF RulesInv, Manual, NoScreen
  <2> QED
    BY <1>6, <2>2, <2>3 DEF Cancel
<1>7. CASE PrepareFails
  <2>1. page' = page /\ ~page.open
    BY <1>7, PageAlone DEF PrepareFails, Committable
  <2>2. \E c : Uncertain(c, screen)
    BY <1>7 DEF PrepareFails
  <2> QED
    BY <2>1, <2>2, UncertainRules, TypedFacts DEF IInv
<1>8. CASE StartCommit
  <2>1. page' = page /\ ~page.open
    BY <1>8, PageAlone DEF StartCommit, Committable
  <2>2. screen'.phase = "committing"
    BY <1>8, TypedFacts DEF StartCommit, IInv, Screen
  <2> QED
    BY <2>1, <2>2 DEF RulesInv, Manual
<1>9. CASE CommitThrows \/ CommitStale
  BY <1>9, PageAlone, UncertainRules, TypedFacts DEF CommitThrows, CommitStale, IInv
<1>10. CASE Reactivate \/ Drain \/ Award \/ Fire
  <2>1. call.at # "none" /\ page' = page /\ screen' = screen
    BY <1>10 DEF Reactivate, Drain, Award, InGame, Fire
  <2> QED
    BY <2>1, BusyRules
<1>11. CASE BatchReturns \/ BatchThrows \/ \E allocates \in BOOLEAN : Deliver(allocates)
  BY <1>11, BusyRules DEF BatchReturns, BatchThrows, Deliver
<1>12. CASE CommitDeferred
  <2>1. page' = page /\ ~page.open
    BY <1>12, PageAlone DEF CommitDeferred
  <2>2. \E c : Finish(c)
    BY <1>12 DEF CommitDeferred
  <2> QED
    BY <2>1, <2>2, FinishRules
<1>13. CASE DeliveryReturned
  <2>1. page' = page /\ ~page.open
    BY <1>13, PageAlone DEF DeliveryReturned
  <2>2. \E c : Uncertain(c, screen) \/ Finish(c)
    BY <1>13, DeliveryReturnedCases DEF IInv
  <2> QED
    BY <2>1, <2>2, UncertainRules, FinishRules, TypedFacts DEF IInv
<1>14. CASE Save
  BY <1>14 DEF Save, RulesInv, Granted, Manual, Same, ContextHeld, Preview
<1>15. CASE Load
  <2>1. page' = NoPage /\ screen' = screen /\ actor'.inc = actor.inc + 1
    BY <1>15, TypedFacts DEF Load, Reload, IInv, Actor
  <2>2. actor.inc \in Nat /\ screen.inc \in Nat
    BY DEF IInv, Typed, Actor, Screen
  <2>3. screen'.phase # "closed" => screen'.inc # actor'.inc
    BY <2>1, <2>2 DEF IInv, Shown
  <2> QED
    BY <2>1, <2>3 DEF RulesInv, Manual, Same, NoPage
<1>16. CASE Restart
  BY <1>16 DEF Restart, Reload, RulesInv, Manual, NoPage, NoScreen
<1>17. CASE UNCHANGED vars
  BY <1>17 DEF vars, RulesInv, Granted, Manual, Same, ContextHeld, Preview
<1> QED
  BY <1>1, <1>2, <1>3, <1>4, <1>5, <1>6, <1>7, <1>8, <1>9, <1>10, <1>11, <1>12, <1>13, <1>14,
     <1>15, <1>16, <1>17 DEF Next

LEMMA InitRules == Init => RulesInv
BY DEF Init, RulesInv, NoPage, NoScreen, Manual

LEMMA EffectsConcat ==
    ASSUME NEW s \in Seq(Ticket), NEW t \in Seq(Ticket)
    PROVE  Effects(s \o t) = Effects(s) \o Effects(t)
<1>1. Len(s) \in Nat /\ DOMAIN s = 1..Len(s) /\ Len(t) \in Nat /\ DOMAIN t = 1..Len(t)
  BY TicketSeq
<1>2. /\ s \o t \in Seq(Ticket) /\ Len(s \o t) = Len(s) + Len(t)
      /\ \A i \in 1..(Len(s) + Len(t)) : (s \o t)[i] = IF i <= Len(s) THEN s[i] ELSE t[i - Len(s)]
  BY ConcatProperties
<1>3. DOMAIN (s \o t) = 1..(Len(s) + Len(t))
  BY <1>2, TicketSeq
<1> DEFINE S == {Effect(s[i].row) : i \in 1..Len(s)} \cup {Effect(t[i].row) : i \in 1..Len(t)}
           E == Effects(s)
           F == Effects(t)
           G == Effects(s \o t)
<1>4. E \in Seq(S) /\ Len(E) = Len(s) /\ \A i \in 1..Len(s) : E[i] = Effect(s[i].row)
  <2>1. E = [i \in 1..Len(s) |-> Effect(s[i].row)]
    BY <1>1 DEF Effects
  <2> QED
    BY <1>1, <2>1, IsASeq, LenProperties
<1>5. F \in Seq(S) /\ Len(F) = Len(t) /\ \A i \in 1..Len(t) : F[i] = Effect(t[i].row)
  <2>1. F = [i \in 1..Len(t) |-> Effect(t[i].row)]
    BY <1>1 DEF Effects
  <2> QED
    BY <1>1, <2>1, IsASeq, LenProperties
<1> HIDE DEF S, E, F
<1>6. G = [i \in 1..(Len(s) + Len(t)) |-> Effect((s \o t)[i].row)]
  BY <1>3 DEF Effects
<1>7. /\ E \o F \in Seq(S) /\ Len(E \o F) = Len(s) + Len(t)
      /\ \A i \in 1..(Len(s) + Len(t)) : (E \o F)[i] = IF i <= Len(s) THEN E[i] ELSE F[i - Len(s)]
  <2>1. /\ E \o F \in Seq(S) /\ Len(E \o F) = Len(E) + Len(F)
        /\ \A i \in 1..(Len(E) + Len(F)) : (E \o F)[i] = IF i <= Len(E) THEN E[i] ELSE F[i - Len(E)]
    <3>1. E \in Seq(S) /\ F \in Seq(S)
      BY <1>4, <1>5
    <3> QED
      BY <3>1, ConcatProperties, Zenon
  <2>2. Len(E) = Len(s) /\ Len(F) = Len(t)
    BY <1>4, <1>5
  <2> QED
    BY <2>1, <2>2, Zenon
<1>8. ASSUME NEW i \in 1..(Len(s) + Len(t)) PROVE G[i] = (E \o F)[i]
  <2>1. CASE i <= Len(s)
    BY <1>1, <1>2, <1>4, <1>6, <1>7, <2>1
  <2>2. CASE i > Len(s)
    <3>1. i - Len(s) \in 1..Len(t)
      BY <1>1, <2>2
    <3> QED
      BY <1>1, <1>2, <1>5, <1>6, <1>7, <2>2, <3>1
  <2>3. i <= Len(s) \/ i > Len(s)
    BY <1>1
  <2> QED
    BY <2>1, <2>2, <2>3
<1>9. E \o F = [i \in 1..(Len(s) + Len(t)) |-> (E \o F)[i]]
  BY <1>7, LenProperties
<1>10. G = E \o F
  BY <1>6, <1>8, <1>9
<1> QED
  BY <1>10 DEF E, F

LEMMA RulesMean == IInv /\ RulesInv => SelectionIsLegal
<1> SUFFICES ASSUME IInv, RulesInv PROVE SelectionIsLegal
  OBVIOUS
<1>1. Typed /\ page.picks \in Seq(Rows)
  BY DEF IInv, Typed, Page
<1>2. \A row \in Rows : CanChoose(row, page.picks) <=> Allowed(row, page.picks)
  BY <1>1, SameRule
<1>3. page.open => \A i \in DOMAIN page.picks : Allowed(page.picks[i], SubSeq(page.picks, 1, i - 1))
  BY DEF RulesInv, LegalPicks, Allowed
<1>4. ASSUME Manual("preview")
      PROVE  ContextHeld /\ ScreenSees = Earned(Effects(actor.granted \o Prepared.queue))
  <2>1. Prepared.queue = Preview(account)
    BY TypedFacts DEF Prepared, IInv, Account
  <2>2. actor.granted \in Seq(Ticket) /\ Preview(account) \in Seq(Ticket)
    <3>1. account.queue \in Seq(Ticket) /\ account.manual.choices \in Seq(Ticket) /\ <<>> \in Seq(Ticket)
      BY TypedFacts, EmptySeq DEF IInv
    <3>2. (IF account.manual.retired /\ ~account.manual.enqueued THEN account.manual.choices ELSE <<>>)
            \in Seq(Ticket)
      BY <3>1
    <3> QED
      BY <3>1, <3>2, TypedFacts, ConcatProperties DEF Preview, IInv
  <2>3. Effects(actor.granted \o Preview(account)) = Effects(actor.granted) \o Effects(Preview(account))
    BY <2>2, EffectsConcat
  <2>4. ContextHeld /\ projection.rows = Effects(Preview(account))
    BY <1>4 DEF RulesInv
  <2> QED
    BY <2>1, <2>3, <2>4 DEF ScreenSees
<1> QED
  BY <1>2, <1>3, <1>4 DEF SelectionIsLegal

\* For any catalogue, and whatever was granted or waits: the question with
\* representatives that CBMDHLA_CanChoose puts to the game has the answer of the
\* full question, every pick on the page was allowed after those before it, also
\* when one between them was taken back, and an open screen counts what its
\* commit will queue (CBMDHLA_CanChoose, CanAdjust, CBMDHLA_PrepareManual).
THEOREM SelectionsAreLegal == Spec => []SelectionIsLegal
<1>1. IInv /\ RulesInv /\ [Next]_vars => RulesInv'
  BY NextRules
<1> QED
  BY <1>1, Inductive, InitRules, RulesMean, PTL DEF Spec
=============================================================================
