---------------------------- MODULE HookHostProofs ----------------------------
(***************************************************************************)
(* For any order of groups, number of routines in each and number of other *)
(* threads: nothing that a byte still leads to, or that a thread which the *)
(* checks can see runs on, is ever given back.                             *)
(***************************************************************************)
EXTENDS HookHost, TLAPS

Ops == {"rest", "build", "write", "undo", "undo stuck", "remove"}
Whys == {"none", "install", "catch", "rollback"}
Kinds == {"engine", "ours", "theirs", "theirs over ours"}
PartNames ==
    {"page", "table", "lifePage", "lifeTable", "lifeCarrier", "carrier", "marshalCarrier"}
Places == {Nowhere} \cup [at : Groups, gate : Carriers, stage : {"entering", "counted", "leaving"}]
Steps == [op : Ops, at : 0..Top, todo : SUBSET Nat, why : Whys]

Typed ==
    /\ runtime \in BOOLEAN
    /\ pc \in Steps
    /\ active \subseteq Groups
    /\ thread \in [Threads -> Places] /\ unseen \subseteq Threads
    /\ \A t \in Threads : thread[t] # Nowhere => thread[t].gate \in Gates(thread[t].at)
    /\ held \in [Groups -> SUBSET PartNames]
    /\ written \in [Groups -> SUBSET Nat]
    /\ loose \in [Groups -> SUBSET Nat]
    /\ \A g \in Groups : written[g] \subseteq Sites(g)

\* The bytes of a site are of one kind, in both dimensions of the array.
Laid ==
    /\ bytes \in [Groups -> UNION {[Sites(h) -> Kinds] : h \in Groups}]
    /\ \A g \in Groups : bytes[g] \in [Sites(g) -> Kinds]

\* A site that leads to us is counted, whoever wrote over it since.
Counted == \A g \in Groups : \A s \in Sites(g) : LeadsToUs(g, s) => s \in written[g]

\* A group with a counted site holds all its parts, and one with a thread that
\* the checks can see holds those the thread needs.
Kept(g) == g \in active /\ held[g] = Parts(g)
WrittenKept == \A g \in Groups : written[g] # {} => Kept(g)
Carried(t) == thread[t].at \in active /\ Needs(t) \subseteq held[thread[t].at]
InsideKept == \A t \in Threads \ unseen : thread[t] # Nowhere => Carried(t)

\* Under a group that is still there, every earlier one is whole.
Stacked ==
    \A g \in active : runtime /\ \A h \in 1..(g - 1) : Whole(h) /\ held[h] = Parts(h)

Tables ==
    \A g \in Groups : /\ held[g] \subseteq Parts(g)
                      /\ "table" \in held[g] => "page" \in held[g]
                      /\ "lifeTable" \in held[g] => "lifePage" \in held[g]

\* Every thread in the group is one that no check will see.
Missed(g) == \A t \in Threads : thread[t].at = g => t \in unseen

\* What each step of the start may rely on.
Below(n) == \A g \in active : g <= n
Control ==
    /\ start = "none" => active = {}
    /\ pc.op # "rest" => start = "running"
    /\ pc.op = "build" =>
         /\ pc.at \in Groups /\ runtime /\ Below(pc.at - 1)
         /\ \A h \in 1..(pc.at - 1) : Whole(h) /\ held[h] = Parts(h)
    /\ pc.op = "write" =>
         /\ pc.at \in Groups /\ Kept(pc.at) /\ Below(pc.at)
         /\ pc.todo \subseteq Sites(pc.at) /\ written[pc.at] = Sites(pc.at) \ pc.todo
    /\ pc.op \in {"undo", "undo stuck"} =>
         /\ pc.at \in active /\ Below(pc.at) /\ pc.todo \subseteq written[pc.at]
         /\ IsCalls(pc.at) => Missed(pc.at)
    /\ pc.op = "undo" => pc.todo = written[pc.at]
    /\ pc.op = "remove" => Below(pc.at)

IInv == Typed /\ Laid /\ Counted /\ WrittenKept /\ InsideKept /\ Stacked /\ Tables /\ Control
-----------------------------------------------------------------------------
LEMMA TopFact == Top \in Nat /\ Top > 0 /\ Groups = 1..Top
BY OrderAssumption DEF Top, Groups

LEMMA SitesFact == \A g \in Groups : Sites(g) # {} /\ Sites(g) \subseteq Nat
<1> SUFFICES ASSUME NEW g \in Groups PROVE Sites(g) # {} /\ Sites(g) \subseteq Nat
  OBVIOUS
<1>1. SiteCount[g] \in Nat \ {0}
  BY OrderAssumption
<1>2. 1 \in Sites(g)
  BY <1>1 DEF Sites
<1> QED
  BY <1>1, <1>2 DEF Sites

LEMMA HostFact == \A g \in Groups : g \in Host(g)
BY DEF Host

LEMMA AtType ==
    ASSUME NEW op \in Ops, NEW g \in 0..Top, NEW todo \in SUBSET Nat, NEW why \in Whys
    PROVE  /\ At(op, g, todo, why) \in Steps
           /\ At(op, g, todo, why).op = op /\ At(op, g, todo, why).at = g
           /\ At(op, g, todo, why).todo = todo /\ At(op, g, todo, why).why = why
BY DEF At, Steps

\* One byte pattern changes at one site.
LEMMA BytesUpdate ==
    ASSUME Laid, NEW g \in Groups, NEW s \in Sites(g), NEW kind \in Kinds,
           bytes' = [bytes EXCEPT ![g][s] = kind]
    PROVE  /\ Laid'
           /\ \A h \in Groups : \A q \in Sites(h) :
                bytes'[h][q] = IF h = g /\ q = s THEN kind ELSE bytes[h][q]
<1>1. bytes[g] \in [Sites(g) -> Kinds]
  BY DEF Laid
<1>2. [bytes[g] EXCEPT ![s] = kind] \in [Sites(g) -> Kinds]
  BY <1>1
<1>3. \A h \in Groups : bytes'[h] = IF h = g THEN [bytes[g] EXCEPT ![s] = kind] ELSE bytes[h]
  BY DEF Laid
<1>4. \A h \in Groups : bytes'[h] \in [Sites(h) -> Kinds]
  BY <1>2, <1>3 DEF Laid
<1>5. bytes' \in [Groups -> UNION {[Sites(h) -> Kinds] : h \in Groups}]
  BY <1>2 DEF Laid
<1>6. Laid'
  BY <1>4, <1>5 DEF Laid, Sites
<1> QED
  BY <1>1, <1>3, <1>6
-----------------------------------------------------------------------------
\* Where a failed install and a failed removal go on.
LEMMA AfterInstallFacts ==
    ASSUME NEW g \in Groups, NEW act \in SUBSET Groups, \A h \in act : h <= g
    PROVE  /\ AfterInstall(g, act) \in Steps /\ AfterInstall(g, act).op = "remove"
           /\ \A h \in act : h <= AfterInstall(g, act).at
<1> DEFINE entries == IF IsCalls(g) THEN g - 1 ELSE g
           catches == entries \in act /\ ((IsCalls(g) /\ g \notin act) \/ Order[g] = "conditional")
<1>1. CASE catches
  <2>1. AfterInstall(g, act) = At("remove", entries, {}, "catch") /\ entries \in 0..Top
    BY <1>1, TopFact DEF AfterInstall
  <2>2. AfterInstall(g, act) \in Steps /\ AfterInstall(g, act).op = "remove" /\ AfterInstall(g, act).at = entries
    BY <2>1 DEF At, Steps, Ops, Whys
  <2>3. \A h \in act : h <= entries
    <3>1. CASE ~IsCalls(g)
      BY <3>1
    <3>2. CASE IsCalls(g)
      <4>1. Order[g] # "conditional"
        BY <3>2 DEF IsCalls, CallGroups
      <4>2. g \notin act
        BY <4>1, <3>2, <1>1
      <4> QED
        BY <4>2, <3>2, TopFact
    <3> QED
      BY <3>1, <3>2
  <2> QED
    BY <2>2, <2>3
<1>2. CASE ~catches
  <2>1. AfterInstall(g, act) = At("remove", Top, {}, "rollback")
    BY <1>2 DEF AfterInstall
  <2> QED
    BY <2>1, TopFact DEF At, Steps, Ops, Whys
<1> QED
  BY <1>1, <1>2

LEMMA RemoveFailsFacts ==
    ASSUME NEW why \in Whys, RemoveFails(why), start = "running", active \subseteq Groups
    PROVE  /\ pc' \in Steps /\ pc'.op \in {"remove", "rest"} /\ start' # "none"
           /\ pc'.op = "remove" => start' = "running" /\ \A h \in active : h <= pc'.at
<1>1. CASE why = "catch"
  <2>1. pc' = At("remove", Top, {}, "rollback") /\ start' = "running"
    BY <1>1 DEF RemoveFails
  <2>2. pc' \in Steps /\ pc'.op = "remove" /\ pc'.at = Top
    BY <2>1, TopFact DEF At, Steps, Ops, Whys
  <2>3. \A h \in active : h <= Top
    BY TopFact
  <2> QED
    BY <2>1, <2>2, <2>3
<1>2. CASE why # "catch"
  <2>1. pc' = At("rest", 0, {}, "none") /\ start' = "retained"
    BY <1>2 DEF RemoveFails
  <2>2. pc' \in Steps /\ pc'.op = "rest"
    BY <2>1, TopFact DEF At, Steps, Ops, Whys
  <2> QED
    BY <2>1, <2>2
<1> QED
  BY <1>1, <1>2

LEMMA ControlOutside ==
    ASSUME pc'.op \in {"remove", "rest"}, start' # "none",
           pc'.op = "remove" => start' = "running" /\ \A h \in active' : h <= pc'.at
    PROVE  Control'
BY DEF Control, Below

\* Nothing of a group changes but the step that is next.
LEMMA Frame ==
    ASSUME IInv, UNCHANGED <<runtime, active, held, written, loose, bytes, thread>>,
           unseen \subseteq unseen'
    PROVE  Laid' /\ Counted' /\ WrittenKept' /\ InsideKept' /\ Stacked' /\ Tables'
<1>1. InsideKept'
  BY DEF IInv, InsideKept, Carried, Needs
<1> QED
  BY <1>1 DEF IInv, Laid, Counted, LeadsToUs, WrittenKept, Kept, Stacked, Whole, Tables

LEMMA FrameOut ==
    ASSUME IInv, UNCHANGED <<runtime, active, held, written, loose, bytes, thread, unseen>>,
           pc' \in Steps, pc'.op \in {"remove", "rest"}, start' # "none",
           pc'.op = "remove" => start' = "running" /\ \A h \in active : h <= pc'.at
    PROVE  IInv'
<1>1. Typed'
  BY DEF IInv, Typed
<1>2. Control'
  BY ControlOutside
<1> QED
  BY <1>1, <1>2, Frame DEF IInv
-----------------------------------------------------------------------------
LEMMA Initial == Init => IInv
<1> SUFFICES ASSUME Init PROVE IInv
  OBVIOUS
<1>0. pc \in Steps
  BY TopFact DEF Init, At, Steps, Ops, Whys
<1>1. Typed
  BY <1>0 DEF Init, Typed, Places
<1>2. Laid
  BY DEF Init, Laid, Kinds
<1>3. Counted
  BY DEF Init, Counted, LeadsToUs
<1>4. WrittenKept /\ InsideKept /\ Stacked /\ Tables
  BY DEF Init, WrittenKept, InsideKept, Stacked, Tables
<1>5. Control
  BY DEF Init, Control, At, Ops
<1> QED
  BY <1>1, <1>2, <1>3, <1>4, <1>5 DEF IInv

LEMMA StartStep == IInv /\ Start => IInv'
<1> SUFFICES ASSUME IInv, Start PROVE IInv'
  OBVIOUS
<1> USE DEF IInv
<1>0. At("build", 1, {}, "none") \in Steps
  BY TopFact DEF At, Steps, Ops, Whys
<1>1. Typed'
  BY <1>0 DEF Start, Typed
<1>2. Laid' /\ Counted' /\ WrittenKept' /\ InsideKept' /\ Tables'
  BY DEF Start, Laid, Counted, LeadsToUs, WrittenKept, InsideKept, Carried, Needs, Kept, Tables
<1>3. active = {} /\ active' = {}
  BY DEF Start, Control
<1>4. Stacked'
  BY <1>3 DEF Stacked
<1>5. Control'
  <2>1. CASE start' = "running" /\ runtime' = TRUE /\ pc' = At("build", 1, {}, "none")
    <3>1. pc'.op = "build" /\ pc'.at = 1
      BY <2>1 DEF At
    <3>2. pc'.at \in Groups /\ 1..(pc'.at - 1) = {}
      BY <3>1, TopFact
    <3> QED
      BY <3>1, <3>2, <1>3, <2>1 DEF Control, Below
  <2>2. CASE UNCHANGED pc /\ start' = "refused"
    <3>1. pc.op = "rest"
      BY DEF Start, Control
    <3> QED
      BY <3>1, <1>3, <2>2 DEF Start, Control
  <2> QED
    BY <2>1, <2>2 DEF Start
<1> QED
  BY <1>1, <1>2, <1>4, <1>5

LEMMA RefuseStep == IInv /\ Refuse => IInv'
<1> SUFFICES ASSUME IInv, Refuse PROVE IInv'
  OBVIOUS
<1>1. /\ pc.at \in Groups /\ start = "running" /\ \A h \in active : h <= pc.at
      /\ active \subseteq Groups
  BY TopFact DEF Refuse, IInv, Control, Below, Typed
<1>2. /\ pc' \in Steps /\ pc'.op = "remove" /\ \A h \in active : h <= pc'.at
  BY <1>1, AfterInstallFacts DEF Refuse
<1> QED
  BY <1>1, <1>2, FrameOut DEF Refuse

LEMMA AcquireStep == IInv /\ Acquire => IInv'
<1> SUFFICES ASSUME IInv, Acquire PROVE IInv'
  OBVIOUS
<1> DEFINE g == pc.at
<1>1. PICK n \in 0..7 :
         /\ held' = [held EXCEPT ![g] = {part \in Parts(g) : Acquired[part] <= n}]
         /\ pc' = IF held'[g] = Parts(g) THEN At("write", g, Sites(g), "install")
                                         ELSE At("undo", g, {}, "install")
  BY DEF Acquire
<1>2. /\ pc.op = "build" /\ active' = active \cup {g}
      /\ UNCHANGED <<start, runtime, written, loose, bytes, thread, unseen, meddled>>
  BY DEF Acquire
<1>3. /\ g \in Groups /\ runtime /\ start = "running" /\ \A h \in active : h < g
      /\ \A h \in 1..(g - 1) : Whole(h) /\ held[h] = Parts(h)
  BY <1>2, TopFact DEF IInv, Control, Below, Typed
<1>4. g \notin active /\ written[g] = {} /\ Missed(g)
  <2>1. g \notin active
    BY <1>3, TopFact DEF IInv, Typed
  <2>2. ASSUME NEW t \in Threads, thread[t].at = g PROVE t \in unseen
    <3>1. thread[t].at = g /\ thread[t] # Nowhere
      BY <1>3, <2>2, TopFact DEF Nowhere
    <3> QED
      BY <2>1, <3>1 DEF IInv, InsideKept, Carried
  <2> QED
    BY <1>3, <2>1, <2>2 DEF IInv, WrittenKept, Kept, Missed
<1>5. \A h \in Groups : held'[h] = IF h = g THEN {part \in Parts(g) : Acquired[part] <= n} ELSE held[h]
  BY <1>1, <1>3 DEF IInv, Typed
<1>6. Parts(g) \subseteq PartNames
  BY DEF Parts, PartNames
<1>7. pc' \in Steps
  BY <1>1, <1>3, TopFact, SitesFact DEF At, Steps, Ops, Whys
<1>8. Typed'
  BY <1>1, <1>2, <1>3, <1>6, <1>7 DEF IInv, Typed
<1>9. Laid' /\ Counted'
  BY <1>2 DEF IInv, Laid, Counted, LeadsToUs
<1>10. WrittenKept'
  BY <1>2, <1>4, <1>5 DEF IInv, WrittenKept, Kept
<1>11. InsideKept'
  <2>1. \A t \in Threads \ unseen : thread[t] # Nowhere => thread[t].at # g /\ thread[t].at \in Groups /\ Carried(t)
    BY <1>4 DEF IInv, InsideKept, Carried, Typed
  <2> QED
    BY <1>2, <1>5, <2>1 DEF InsideKept, Carried, Needs
<1>12. \A h \in active' : \A k \in 1..(h - 1) : k \in Groups /\ k # g /\ Whole(k) /\ held[k] = Parts(k)
  BY <1>2, <1>3, TopFact DEF IInv, Stacked, Typed
<1>13. Stacked'
  BY <1>2, <1>3, <1>5, <1>12 DEF Stacked, Whole
<1>14. Tables'
  <2>1. /\ {part \in Parts(g) : Acquired[part] <= n} \subseteq Parts(g)
        /\ "table" \in held'[g] => "page" \in held'[g]
        /\ "lifeTable" \in held'[g] => "lifePage" \in held'[g]
    <3>1. "table" \in Parts(g) => "page" \in Parts(g)
      BY DEF Parts
    <3>2. "lifeTable" \in Parts(g) => "lifePage" \in Parts(g)
      BY DEF Parts
    <3>3. \A part \in PartNames : part \in held'[g] <=> part \in Parts(g) /\ Acquired[part] <= n
      BY <1>3, <1>5, <1>6
    <3>4. "table" \in held'[g] => "page" \in held'[g]
      BY <3>1, <3>3 DEF Acquired, PartNames
    <3>5. "lifeTable" \in held'[g] => "lifePage" \in held'[g]
      BY <3>2, <3>3 DEF Acquired, PartNames
    <3> QED
      BY <3>4, <3>5
  <2> QED
    BY <2>1, <1>5 DEF IInv, Tables
<1>15. Control'
  <2>1. CASE held'[g] = Parts(g)
    <3>1. pc'.op = "write" /\ pc'.at = g /\ pc'.todo = Sites(g)
      BY <1>1, <2>1 DEF At
    <3>2. /\ g \in active' /\ \A h \in active' : h <= g
          /\ written'[g] = {} /\ Missed(g)' /\ start' = "running"
      BY <1>2, <1>3, <1>4, <3>1, TopFact DEF IInv, Typed, Missed
    <3> QED
      BY <3>1, <3>2, <1>3, <2>1 DEF Control, Kept, Below
  <2>2. CASE held'[g] # Parts(g)
    <3>1. pc'.op = "undo" /\ pc'.at = g /\ pc'.todo = {}
      BY <1>1, <2>2 DEF At
    <3>2. /\ g \in active' /\ \A h \in active' : h <= g
          /\ written'[g] = {} /\ Missed(g)' /\ start' = "running"
      BY <1>2, <1>3, <1>4, <3>1, TopFact DEF IInv, Typed, Missed
    <3> QED
      BY <3>1, <3>2 DEF Control, Below
  <2> QED
    BY <2>1, <2>2
<1> QED
  BY <1>8, <1>9, <1>10, <1>11, <1>13, <1>14, <1>15 DEF IInv

LEMMA InstalledStep == IInv /\ Installed => IInv'
<1> SUFFICES ASSUME IInv, Installed PROVE IInv'
  OBVIOUS
<1> DEFINE g == pc.at
<1>1. /\ pc.op = "write" /\ pc.todo = {} /\ start = "running"
      /\ UNCHANGED <<runtime, active, held, written, loose, bytes, thread, unseen, meddled>>
  BY DEF IInv, Control, Installed
<1>2. /\ g \in Groups /\ Kept(g) /\ \A h \in active : h <= g
      /\ written[g] = Sites(g) /\ active \subseteq Groups
  BY <1>1 DEF IInv, Control, Below, Typed
<1>3. CASE g < Top /\ pc' = At("build", g + 1, {}, "none") /\ UNCHANGED start
  <2>1. pc'.op = "build" /\ pc'.at = g + 1 /\ pc' \in Steps
    BY <1>2, <1>3, TopFact DEF At, Steps, Ops, Whys
  <2>2. runtime /\ \A h \in 1..g : Whole(h) /\ held[h] = Parts(h)
    <3>1. runtime /\ \A h \in 1..(g - 1) : Whole(h) /\ held[h] = Parts(h)
      BY <1>2 DEF IInv, Stacked, Kept
    <3>2. \A h \in 1..g : h = g \/ h \in 1..(g - 1)
      BY <1>2, TopFact
    <3> QED
      BY <3>1, <3>2, <1>2 DEF Whole, Kept
  <2>3. Control'
    <3>1. pc'.at \in Groups /\ pc'.at - 1 = g
      BY <1>2, <1>3, <2>1, TopFact
    <3> QED
      BY <3>1, <2>1, <2>2, <1>1, <1>2, <1>3 DEF Control, Below, Whole
  <2> QED
    BY <2>1, <2>3, <1>1, Frame DEF IInv, Typed
<1>4. CASE start' = "ready" /\ pc' = At("rest", 0, {}, "none")
  <2>1. pc' \in Steps /\ pc'.op = "rest"
    BY <1>4, TopFact DEF At, Steps, Ops, Whys
  <2> QED
    BY <2>1, <1>1, <1>4, FrameOut
<1>5. CASE pc' = At("remove", Top, {}, "rollback") /\ UNCHANGED start
  <2>1. pc' \in Steps /\ pc'.op = "remove" /\ pc'.at = Top
    BY <1>5, TopFact DEF At, Steps, Ops, Whys
  <2>2. \A h \in active : h <= Top
    BY <1>2, TopFact
  <2> QED
    BY <2>1, <2>2, <1>1, <1>5, FrameOut
<1> QED
  BY <1>3, <1>4, <1>5 DEF Installed

\* A site of a group that holds all its parts is written.
LEMMA WriteStep == IInv /\ Write => IInv'
<1> SUFFICES ASSUME IInv, Write PROVE IInv'
  OBVIOUS
<1> DEFINE g == pc.at
<1>1. /\ pc.op = "write" /\ start = "running" /\ g \in Groups /\ active \subseteq Groups
      /\ Kept(g) /\ \A h \in active : h <= g
      /\ pc.todo \subseteq Sites(g) /\ written[g] = Sites(g) \ pc.todo
      /\ UNCHANGED <<start, runtime, active, held, thread, meddled>>
  BY DEF IInv, Control, Write, Below, Typed
<1>2. PICK s \in pc.todo :
        \/ /\ pc' = At("undo", g, written[g], "install")
           /\ unseen' = unseen \cup Abandoned(g)
           /\ UNCHANGED <<written, bytes, loose>>
        \/ /\ bytes' = [bytes EXCEPT ![g][s] = "ours"]
           /\ written' = [written EXCEPT ![g] = @ \cup {s}]
           /\ \/ pc' = At("write", g, pc.todo \ {s}, "install") /\ UNCHANGED <<loose, unseen>>
              \/ /\ loose' = [loose EXCEPT ![g] = @ \cup {s}]
                 /\ pc' = At("undo", g, written'[g], "install")
                 /\ unseen' = unseen \cup Abandoned(g)
  BY DEF Write
<1>3. s \in Sites(g) /\ s \in Nat
  BY <1>1, <1>2, SitesFact
<1>a. unseen \subseteq unseen' /\ unseen' \subseteq Threads
  BY <1>2 DEF IInv, Typed, Abandoned, In
<1>b. unseen' = unseen \cup Abandoned(g) => (IsCalls(g) => \A t \in Threads : thread'[t].at = g => t \in unseen')
  BY <1>1 DEF Abandoned, In
<1>4. CASE /\ pc' = At("undo", g, written[g], "install") /\ UNCHANGED <<written, bytes, loose>>
           /\ unseen' = unseen \cup Abandoned(g)
  <2>1. pc' \in Steps /\ pc'.op = "undo" /\ pc'.at = g /\ pc'.todo = written[g]
    BY <1>1, <1>4, TopFact DEF At, Steps, Ops, Whys, IInv, Typed
  <2>2. Typed'
    BY <1>1, <1>4, <1>a, <2>1 DEF IInv, Typed
  <2>3. Control'
    BY <1>1, <1>3, <1>4, <1>b, <2>1 DEF Control, Kept, Below, Missed
  <2> QED
    BY <1>1, <1>4, <1>a, <2>2, <2>3, Frame DEF IInv
<1>5. CASE /\ bytes' = [bytes EXCEPT ![g][s] = "ours"]
           /\ written' = [written EXCEPT ![g] = @ \cup {s}]
           /\ \/ pc' = At("write", g, pc.todo \ {s}, "install") /\ UNCHANGED <<loose, unseen>>
              \/ /\ loose' = [loose EXCEPT ![g] = @ \cup {s}]
                 /\ pc' = At("undo", g, written'[g], "install")
                 /\ unseen' = unseen \cup Abandoned(g)
  <2>a. g \in Groups /\ s \in Sites(g) /\ Laid /\ "ours" \in Kinds
    BY <1>1, <1>3 DEF IInv, Kinds
  <2>b. bytes' = [bytes EXCEPT ![g][s] = "ours"]
    BY <1>5
  <2>1. /\ Laid'
        /\ \A h \in Groups : \A q \in Sites(h) :
             bytes'[h][q] = IF h = g /\ q = s THEN "ours" ELSE bytes[h][q]
    <3> HIDE DEF g
    <3> QED
      BY <2>a, <2>b, BytesUpdate, ZenonT(60)
  <2>2. \A h \in Groups : written'[h] = IF h = g THEN written[g] \cup {s} ELSE written[h]
    BY <1>1, <1>5 DEF IInv, Typed
  <2>3. Counted'
    BY <2>1, <2>2 DEF IInv, Counted, LeadsToUs
  <2>4. WrittenKept' /\ InsideKept' /\ Tables'
    BY <1>1, <1>a, <2>2 DEF IInv, WrittenKept, InsideKept, Carried, Needs, Kept, Tables
  <2>5. Stacked'
    <3>1. \A h \in active : \A k \in 1..(h - 1) : k \in Groups /\ k # g
      BY <1>1, TopFact
    <3> QED
      BY <1>1, <2>2, <3>1 DEF IInv, Stacked, Whole
  <2>6. written' \in [Groups -> SUBSET Nat] /\ \A h \in Groups : written'[h] \subseteq Sites(h)
    BY <1>1, <1>3, <1>5, <2>2 DEF IInv, Typed
  <2>7. CASE pc' = At("write", g, pc.todo \ {s}, "install") /\ UNCHANGED <<loose, unseen>>
    <3>1. pc'.op = "write" /\ pc'.at = g /\ pc'.todo = pc.todo \ {s} /\ pc' \in Steps
      BY <1>1, <2>7, TopFact, SitesFact DEF At, Steps, Ops, Whys
    <3>2. Typed'
      BY <1>1, <1>a, <2>6, <2>7, <3>1 DEF IInv, Typed
    <3>3. written'[g] = Sites(g) \ pc'.todo
      BY <1>1, <1>3, <2>2, <3>1
    <3>4. Control'
      BY <1>1, <1>3, <3>1, <3>3 DEF Control, Kept, Below
    <3> QED
      BY <2>1, <2>3, <2>4, <2>5, <3>2, <3>4 DEF IInv
  <2>8. CASE /\ loose' = [loose EXCEPT ![g] = @ \cup {s}]
             /\ pc' = At("undo", g, written'[g], "install")
             /\ unseen' = unseen \cup Abandoned(g)
    <3>1. pc'.op = "undo" /\ pc'.at = g /\ pc'.todo = written'[g] /\ pc' \in Steps
      BY <1>1, <2>6, <2>8, TopFact DEF At, Steps, Ops, Whys
    <3>2. Typed'
      BY <1>1, <1>3, <1>a, <2>6, <2>8, <3>1 DEF IInv, Typed
    <3>3. Control'
      BY <1>1, <1>3, <1>b, <2>8, <3>1 DEF Control, Kept, Below, Missed
    <3> QED
      BY <2>1, <2>3, <2>4, <2>5, <3>2, <3>3 DEF IInv
  <2> QED
    BY <1>5, <2>7, <2>8
<1> QED
  BY <1>2, <1>4, <1>5

LEMMA SkipStep == IInv /\ Skip => IInv'
<1> SUFFICES ASSUME IInv, Skip PROVE IInv'
  OBVIOUS
<1>1. /\ pc.op = "remove" /\ pc.at \in 1..Top /\ pc.at \notin active /\ start = "running"
      /\ \A h \in active : h <= pc.at
      /\ active \subseteq Groups /\ pc' = AfterRemove(pc.at, pc.why)
  BY TopFact DEF Skip, IInv, Control, Below, Typed, Steps
<1>2. pc' \in Steps /\ pc'.op = "remove" /\ \A h \in active : h <= pc'.at
  <2>1. CASE pc.why = "catch"
    BY <1>1, <2>1, TopFact DEF AfterRemove, At, Steps, Ops, Whys
  <2>2. CASE pc.why # "catch"
    BY <1>1, <2>2, TopFact DEF AfterRemove, At, Steps, Ops, Whys
  <2> QED
    BY <2>1, <2>2
<1> QED
  BY <1>1, <1>2, FrameOut DEF Skip

LEMMA RemoveStep == IInv /\ Remove => IInv'
<1> SUFFICES ASSUME IInv, Remove PROVE IInv'
  OBVIOUS
<1> DEFINE g == pc.at
<1>1. /\ pc.op = "remove" /\ g \in active /\ start = "running" /\ pc.why \in Whys
      /\ \A h \in active : h <= g
      /\ active \subseteq Groups /\ written \in [Groups -> SUBSET Nat]
      /\ UNCHANGED <<runtime, active, held, written, loose, bytes, thread, meddled>>
  BY DEF Remove, IInv, Control, Below, Typed, Steps
<1>a. unseen \subseteq unseen' /\ unseen' \subseteq Threads
  BY DEF Remove, IInv, Typed, In
<1>2. CASE Ready(g) /\ pc' = At("undo", g, written[g], pc.why) /\ UNCHANGED start
  <2>1. pc'.op = "undo" /\ pc'.at = g /\ pc'.todo = written[g] /\ pc' \in Steps
    <3>1. g \in 0..Top
      BY DEF IInv, Typed, Steps
    <3>2. written[g] \in SUBSET Nat
      BY <1>1
    <3>3. "undo" \in Ops
      BY DEF Ops
    <3> QED
      BY <1>1, <1>2, <3>1, <3>2, <3>3, AtType
  <2>2. IsCalls(g) => \A t \in Threads : thread'[t].at = g => t \in unseen'
    BY <1>1, <1>2 DEF Remove, In
  <2>3. Control'
    BY <1>1, <1>2, <2>1, <2>2 DEF Control, Below, Missed
  <2>4. Typed'
    BY <1>1, <1>a, <2>1 DEF IInv, Typed
  <2> QED
    BY <1>1, <1>a, <2>3, <2>4, Frame DEF IInv
<1>3. CASE ~Ready(g) /\ RemoveFails(pc.why)
  <2>1. UNCHANGED unseen
    BY <1>3 DEF Remove
  <2> QED
    BY <1>1, <1>3, <2>1, RemoveFailsFacts, FrameOut
<1> QED
  BY <1>2, <1>3 DEF Remove

LEMMA KeepStuckStep == IInv /\ KeepStuck => IInv'
<1> SUFFICES ASSUME IInv, KeepStuck PROVE IInv'
  OBVIOUS
<1>1. /\ pc.at \in Groups /\ start = "running" /\ \A h \in active : h <= pc.at
      /\ active \subseteq Groups
  BY TopFact DEF KeepStuck, IInv, Control, Below, Typed
<1>2. /\ pc' \in Steps /\ pc'.op = "remove" /\ \A h \in active : h <= pc'.at
  BY <1>1, AfterInstallFacts DEF KeepStuck
<1> QED
  BY <1>1, <1>2, FrameOut DEF KeepStuck

LEMMA DestroyStep == IInv /\ Destroy => IInv'
<1> SUFFICES ASSUME IInv, Destroy PROVE IInv'
  OBVIOUS
<1>1. active = {}
  BY TopFact DEF Destroy, IInv, Control, Below, Typed
<1>2. pc' \in Steps /\ pc'.op = "rest" /\ start' # "none"
  BY TopFact DEF Destroy, At, Steps, Ops, Whys
<1>3. Control'
  BY <1>2, ControlOutside
<1>4. Typed'
  BY <1>2 DEF Destroy, IInv, Typed
<1>5. Laid' /\ Counted' /\ WrittenKept' /\ InsideKept' /\ Tables'
  BY DEF Destroy, IInv, Laid, Counted, LeadsToUs, WrittenKept, InsideKept, Carried, Needs, Kept, Tables
<1>6. Stacked'
  BY <1>1 DEF Destroy, Stacked
<1> QED
  BY <1>3, <1>4, <1>5, <1>6 DEF IInv

\* A thread that follows a jump finds its hook whole.  When it comes while a
\* CALL group is taken out, nothing sees it.
LEMMA EnterStep ==
    ASSUME NEW t \in Threads, NEW g \in Groups PROVE IInv /\ Enter(t, g) => IInv'
<1> SUFFICES ASSUME IInv, Enter(t, g) PROVE IInv'
  OBVIOUS
<1>1. PICK place : /\ place.at = g /\ place.gate \in Gates(g) /\ place \in Places
                   /\ place # Nowhere /\ thread' = [thread EXCEPT ![t] = place]
  BY DEF Enter, Places, Gates, Carriers, Nowhere
<1>2. /\ UNCHANGED <<start, runtime, pc, active, held, written, loose, bytes, meddled>>
      /\ unseen \subseteq unseen' /\ unseen' \subseteq unseen \cup {t}
      /\ pc.op \in {"undo", "undo stuck"} /\ pc.at = g /\ IsCalls(g) => t \in unseen'
  BY DEF Enter
<1>3. Kept(g)
  BY DEF Enter, IInv, Counted, WrittenKept
<1>5. \A u \in Threads : thread'[u] = IF u = t THEN place ELSE thread[u]
  BY <1>1 DEF IInv, Typed
<1>6. thread' \in [Threads -> Places]
  BY <1>1 DEF IInv, Typed
<1>7. Typed'
  BY <1>1, <1>2, <1>5, <1>6 DEF IInv, Typed
<1>8. Laid' /\ Counted' /\ WrittenKept' /\ Stacked' /\ Tables'
  BY <1>2 DEF IInv, Laid, Counted, LeadsToUs, WrittenKept, Kept, Stacked, Whole, Tables
<1>9. InsideKept'
  <2>1. Needs(t)' \subseteq Parts(g) /\ thread'[t].at = g
    BY <1>1, <1>5 DEF Needs
  <2> QED
    BY <1>2, <1>3, <1>5, <2>1 DEF IInv, InsideKept, Carried, Needs, Kept
<1>10. pc.op \in {"undo", "undo stuck"} => (IsCalls(pc.at) => Missed(pc.at)')
  <2>1. pc.op \in {"undo", "undo stuck"} => (IsCalls(pc.at) => Missed(pc.at))
    BY Zenon DEF IInv, Control
  <2>2. Missed(pc.at) => \A u \in Threads \ {t} : thread'[u].at = pc.at => u \in unseen'
    BY <1>2, <1>5 DEF Missed
  <2> QED
    BY <1>1, <1>2, <1>5, <2>1, <2>2 DEF Missed
<1>11. Control'
  BY <1>2, <1>10 DEF IInv, Control, Kept, Below, Whole, Missed
<1> QED
  BY <1>7, <1>8, <1>9, <1>11 DEF IInv

\* Only where a thread stands in its hook changes.
LEMMA StageStep ==
    ASSUME NEW t \in Threads, IInv, thread[t] # Nowhere,
           NEW stage \in {"counted", "leaving"}, thread' = [thread EXCEPT ![t].stage = stage],
           UNCHANGED <<start, runtime, pc, active, held, written, loose, bytes, unseen, meddled>>
    PROVE  IInv'
<1>1. thread[t] \in Places /\ thread[t].at \in Groups /\ thread[t].gate \in Carriers
  BY DEF IInv, Typed, Places
<1>2. /\ thread'[t].at = thread[t].at /\ thread'[t].gate = thread[t].gate
      /\ thread'[t] \in Places /\ \A u \in Threads : u # t => thread'[u] = thread[u]
  BY <1>1 DEF IInv, Typed, Places
<1>3. thread' \in [Threads -> Places]
  BY <1>2 DEF IInv, Typed
<1>4. Typed'
  BY <1>2, <1>3 DEF IInv, Typed
<1>5. Laid' /\ Counted' /\ WrittenKept' /\ Stacked' /\ Tables'
  BY DEF IInv, Laid, Counted, LeadsToUs, WrittenKept, Kept, Stacked, Whole, Tables
<1>6. InsideKept'
  BY <1>2 DEF IInv, InsideKept, Carried, Needs
<1>7. \A g : Missed(g)' <=> Missed(g)
  BY <1>2 DEF Missed
<1>8. Control'
  BY <1>7 DEF IInv, Control, Kept, Below, Whole, Missed
<1> QED
  BY <1>4, <1>5, <1>6, <1>8 DEF IInv

LEMMA CountStep == ASSUME NEW t \in Threads PROVE IInv /\ (Count(t) \/ Uncount(t)) => IInv'
BY StageStep DEF Count, Uncount, Nowhere

LEMMA LeaveStep == ASSUME NEW t \in Threads PROVE IInv /\ Leave(t) => IInv'
<1> SUFFICES ASSUME IInv, Leave(t) PROVE IInv'
  OBVIOUS
<1>1. /\ thread' = [thread EXCEPT ![t] = Nowhere] /\ unseen' = unseen \ {t}
      /\ UNCHANGED <<start, runtime, pc, active, held, written, loose, bytes, meddled>>
  BY DEF Leave
<1>2. \A u \in Threads : thread'[u] = IF u = t THEN Nowhere ELSE thread[u]
  BY <1>1 DEF IInv, Typed
<1>3. thread' \in [Threads -> Places]
  BY <1>1 DEF IInv, Typed, Places
<1>4. Typed'
  BY <1>1, <1>2, <1>3 DEF IInv, Typed
<1>5. Laid' /\ Counted' /\ WrittenKept' /\ Stacked' /\ Tables'
  BY <1>1 DEF IInv, Laid, Counted, LeadsToUs, WrittenKept, Kept, Stacked, Whole, Tables
<1>6. InsideKept'
  BY <1>1, <1>2 DEF IInv, InsideKept, Carried, Needs
<1>7. pc.op \in {"undo", "undo stuck"} => (IsCalls(pc.at) => Missed(pc.at)')
  <2>1. pc.op \in {"undo", "undo stuck"} => pc.at \in active /\ (IsCalls(pc.at) => Missed(pc.at))
    BY Zenon DEF IInv, Control
  <2>2. active \subseteq Groups /\ 0 \notin Groups /\ Nowhere.at = 0
    BY TopFact DEF Nowhere, IInv, Typed
  <2> QED
    BY <1>1, <1>2, <2>1, <2>2 DEF Missed
<1>8. Control'
  BY <1>1, <1>7 DEF IInv, Control, Kept, Below, Whole, Missed
<1> QED
  BY <1>4, <1>5, <1>6, <1>8 DEF IInv

\* Another owner's jump leads to us exactly where ours was under it.
LEMMA MeddleStep ==
    ASSUME NEW g \in Groups, NEW s \in Sites(g) PROVE IInv /\ Meddle(g, s) => IInv'
<1> SUFFICES ASSUME IInv, Meddle(g, s) PROVE IInv'
  OBVIOUS
<1>1. UNCHANGED <<start, runtime, pc, active, held, written, loose, thread, unseen>>
  BY DEF Meddle
<1>2. PICK kind \in Kinds :
        /\ bytes' = [bytes EXCEPT ![g][s] = kind]
        /\ kind \in {"ours", "theirs over ours"} => LeadsToUs(g, s)
  BY DEF Meddle, Kinds, LeadsToUs
<1>3. /\ Laid'
      /\ \A h \in Groups : \A q \in Sites(h) :
           bytes'[h][q] = IF h = g /\ q = s THEN kind ELSE bytes[h][q]
  BY <1>2, BytesUpdate DEF IInv
<1>4. Counted'
  <2>1. SUFFICES ASSUME NEW h \in Groups, NEW q \in Sites(h),
                        bytes'[h][q] \in {"ours", "theirs over ours"}
                 PROVE  q \in written[h]
    BY <1>1 DEF Counted, LeadsToUs, Sites
  <2>2. CASE h = g /\ q = s
    <3>1. LeadsToUs(g, s)
      BY <1>2, <1>3, <2>1, <2>2
    <3> QED
      BY <3>1, <2>2 DEF IInv, Counted
  <2>3. CASE ~(h = g /\ q = s)
    <3>1. bytes'[h][q] = bytes[h][q]
      BY <1>3, <2>3
    <3> QED
      BY <3>1, <2>1 DEF IInv, Counted, LeadsToUs
  <2> QED
    BY <2>2, <2>3
<1>5. Typed' /\ WrittenKept' /\ InsideKept' /\ Stacked' /\ Tables'
  BY <1>1 DEF IInv, Typed, WrittenKept, InsideKept, Carried, Needs, Kept, Stacked, Whole, Tables
<1>6. Control'
  BY <1>1 DEF IInv, Control, Kept, Below, Whole, Missed
<1> QED
  BY <1>3, <1>4, <1>5, <1>6 DEF IInv

\* One site of a group is given back, or could not be.
LEMMA UndoStep == IInv /\ Undo => IInv'
<1> SUFFICES ASSUME IInv, Undo PROVE IInv'
  OBVIOUS
<1> DEFINE g == pc.at
<1>1. /\ pc.op \in {"undo", "undo stuck"} /\ start = "running" /\ g \in Groups /\ g \in active
      /\ active \subseteq Groups /\ pc.why \in Whys /\ \A h \in active : h <= g
      /\ pc.todo \subseteq written[g]
      /\ pc.op = "undo" => pc.todo = written[g]
      /\ IsCalls(g) => Missed(g)
      /\ UNCHANGED <<runtime, active, held, thread, unseen, meddled>>
  BY DEF IInv, Control, Undo, Below, Typed, Steps
<1>2. PICK s \in pc.todo :
        \/ Stuck(s) /\ UNCHANGED <<written, bytes, loose>>
        \/ /\ bytes' = [bytes EXCEPT ![g][s] = "engine"]
           /\ written' = [written EXCEPT ![g] = @ \ {s}]
           /\ \/ /\ loose' = [loose EXCEPT ![g] = @ \ {s}]
                 /\ pc' = At(pc.op, g, pc.todo \ {s}, pc.why) /\ UNCHANGED start
              \/ loose' = [loose EXCEPT ![g] = @ \cup {s}] /\ Stuck(s)
  BY DEF Undo
<1>3. s \in Sites(g) /\ s \in Nat /\ pc.todo \subseteq Nat
  BY <1>1, <1>2, SitesFact DEF IInv, Typed
<1>a. g \in 0..Top /\ pc.why \in Whys /\ loose \in [Groups -> SUBSET Nat]
  BY DEF IInv, Typed, Steps
<1>b. active \subseteq Groups /\ \A h \in active : h <= g
  BY <1>1
\* What a step that could not give the site back leaves behind.
<1>4. Stuck(s) => \/ /\ pc'.op = "undo stuck" /\ pc'.at = g /\ pc'.todo = pc.todo \ {s}
                     /\ pc' \in Steps /\ start' = "running"
                  \/ /\ pc' \in Steps /\ pc'.op \in {"remove", "rest"} /\ start' # "none"
                     /\ pc'.op = "remove" => start' = "running" /\ \A h \in active : h <= pc'.at
  <2> HAVE Stuck(s)
  <2>1. CASE pc.why = "install"
    <3>1. pc' = At("undo stuck", g, pc.todo \ {s}, pc.why) /\ start' = "running"
      BY <1>1, <2>1 DEF Stuck
    <3>3. pc.todo \ {s} \in SUBSET Nat
      BY <1>3
    <3>4. "undo stuck" \in Ops
      BY DEF Ops
    <3>5. /\ At("undo stuck", g, pc.todo \ {s}, pc.why) \in Steps
          /\ At("undo stuck", g, pc.todo \ {s}, pc.why).op = "undo stuck"
          /\ At("undo stuck", g, pc.todo \ {s}, pc.why).at = g
          /\ At("undo stuck", g, pc.todo \ {s}, pc.why).todo = pc.todo \ {s}
      BY <1>a, <3>3, <3>4 DEF At, Steps
    <3> QED
      BY <3>1, <3>5, Zenon
  <2>2. CASE pc.why # "install"
    BY <1>1, <2>2, RemoveFailsFacts DEF Stuck
  <2> QED
    BY <2>1, <2>2
<1>5. CASE Stuck(s) /\ UNCHANGED <<written, bytes, loose>>
  <2>1. Control'
    BY <1>1, <1>4, <1>5, ControlOutside DEF Control, Below, Missed
  <2>2. Typed'
    BY <1>1, <1>4, <1>5 DEF IInv, Typed
  <2> QED
    BY <1>1, <1>5, <2>1, <2>2, Frame DEF IInv
<1>6. CASE /\ bytes' = [bytes EXCEPT ![g][s] = "engine"]
           /\ written' = [written EXCEPT ![g] = @ \ {s}]
           /\ \/ /\ loose' = [loose EXCEPT ![g] = @ \ {s}]
                 /\ pc' = At(pc.op, g, pc.todo \ {s}, pc.why) /\ UNCHANGED start
              \/ loose' = [loose EXCEPT ![g] = @ \cup {s}] /\ Stuck(s)
  <2>a. g \in Groups /\ s \in Sites(g) /\ Laid /\ "engine" \in Kinds
    BY <1>1, <1>3 DEF IInv, Kinds
  <2>b. bytes' = [bytes EXCEPT ![g][s] = "engine"]
    BY <1>6
  <2>1. /\ Laid'
        /\ \A h \in Groups : \A q \in Sites(h) :
             bytes'[h][q] = IF h = g /\ q = s THEN "engine" ELSE bytes[h][q]
    <3> HIDE DEF g
    <3> QED
      BY <2>a, <2>b, BytesUpdate, ZenonT(60)
  <2>2. \A h \in Groups : written'[h] = IF h = g THEN written[g] \ {s} ELSE written[h]
    BY <1>1, <1>6 DEF IInv, Typed
  <2>3. Counted'
    BY <2>1, <2>2 DEF IInv, Counted, LeadsToUs
  <2>4. WrittenKept' /\ InsideKept' /\ Tables'
    BY <1>1, <2>2 DEF IInv, WrittenKept, InsideKept, Carried, Needs, Kept, Tables
  <2>5. Stacked'
    <3>1. \A h \in active : \A k \in 1..(h - 1) : k \in Groups /\ k # g
      BY <1>b, TopFact
    <3> QED
      BY <1>1, <2>2, <3>1 DEF IInv, Stacked, Whole
  <2>6. written' \in [Groups -> SUBSET Nat] /\ \A h \in Groups : written'[h] \subseteq Sites(h)
    BY <1>1, <1>3, <1>6, <2>2 DEF IInv, Typed
  <2>7. loose' \in [Groups -> SUBSET Nat]
    <3>1. loose[g] \ {s} \in SUBSET Nat /\ loose[g] \cup {s} \in SUBSET Nat
      BY <1>1, <1>3, <1>a
    <3> QED
      BY <1>1, <1>6, <1>a, <3>1
  <2>8. CASE pc' = At(pc.op, g, pc.todo \ {s}, pc.why) /\ UNCHANGED start
    <3>1. pc'.op = pc.op /\ pc'.at = g /\ pc'.todo = pc.todo \ {s} /\ pc' \in Steps
      <4>2. pc.todo \ {s} \in SUBSET Nat
        BY <1>3
      <4>3. pc.op \in Ops
        BY <1>1 DEF Ops
      <4> QED
        BY <1>a, <2>8, <4>2, <4>3, AtType
    <3>2. Typed'
      BY <1>1, <2>6, <2>7, <3>1 DEF IInv, Typed
    <3>3. pc'.todo \subseteq written'[g] /\ (pc'.op = "undo" => pc'.todo = written'[g])
      BY <1>1, <2>2, <3>1
    <3>4. Control'
      BY <1>1, <2>8, <3>1, <3>3, <2>2 DEF Control, Below, Missed
    <3> QED
      BY <2>1, <2>3, <2>4, <2>5, <3>2, <3>4 DEF IInv
  <2>9. CASE Stuck(s)
    <3>1. Typed'
      BY <1>1, <1>4, <2>6, <2>7, <2>9 DEF IInv, Typed
    <3>2. pc.todo \ {s} \subseteq written'[g]
      BY <1>1, <2>2
    <3>3. Control'
      BY <1>1, <1>4, <2>9, <3>2, ControlOutside DEF Control, Below, Missed
    <3> QED
      BY <2>1, <2>3, <2>4, <2>5, <3>1, <3>3 DEF IInv
  <2> QED
    BY <1>6, <2>8, <2>9
<1> QED
  BY <1>2, <1>5, <1>6

LEMMA GivenOrder ==
    /\ Given["lifeCarrier"] = 1 /\ Given["marshalCarrier"] = 2 /\ Given["carrier"] = 3
    /\ Given["table"] = 4 /\ Given["lifeTable"] = 5 /\ Given["lifePage"] = 6 /\ Given["page"] = 7
BY DEF Given

\* What the parts that stay after cleanup say about the ones that went.
LEMMA GivenFacts ==
    ASSUME NEW S \in SUBSET PartNames, NEW n \in 0..7,
           NEW rest, rest = {part \in S : Given[part] > n}
    PROVE  /\ rest \subseteq S
           /\ "page" \in S => ("table" \in rest => "page" \in rest)
           /\ "lifePage" \in S => ("lifeTable" \in rest => "lifePage" \in rest)
BY GivenOrder

LEMMA CleanUpStep == IInv /\ CleanUp => IInv'
<1> SUFFICES ASSUME IInv, CleanUp PROVE IInv'
  OBVIOUS
<1> DEFINE g == pc.at
<1>1. /\ pc.op = "undo" /\ pc.todo = {} /\ start = "running" /\ g \in Groups /\ g \in active
      /\ active \subseteq Groups /\ pc.why \in Whys /\ \A h \in active : h <= g
      /\ written[g] = {}
      /\ IsCalls(g) => Missed(g)
      /\ UNCHANGED <<runtime, written, bytes, thread, meddled>>
  BY DEF IInv, Control, CleanUp, Below, Typed, Steps
<1>a. pc.why \in Whys /\ loose \in [Groups -> SUBSET Nat] /\ held \in [Groups -> SUBSET PartNames]
  BY DEF IInv, Typed, Steps
<1>b. active \subseteq Groups /\ \A h \in active : h <= g
  BY <1>1
<1>c. g \in Groups /\ start = "running"
  BY <1>1
\* Where the step goes on, whether the group is out or not.
<1>d. unseen \subseteq unseen' /\ unseen' \subseteq Threads
  BY DEF CleanUp, GiveBack, Overlooked, IInv, Typed
<1>2. /\ pc' \in Steps /\ pc'.op \in {"remove", "rest"} /\ start' # "none"
      /\ pc'.op = "remove" => start' = "running" /\ \A h \in active' : h <= pc'.at
  <2>1. CASE active' = active \ {g} /\ start' = start /\ pc.why = "install" /\ pc' = AfterInstall(g, active')
    <3> DEFINE act == active \ {g}
    <3>1. act \in SUBSET Groups /\ \A h \in act : h <= g
      BY <1>b
    <3>2. /\ AfterInstall(g, act) \in Steps /\ AfterInstall(g, act).op = "remove"
          /\ \A h \in act : h <= AfterInstall(g, act).at
      BY <1>c, <3>1, AfterInstallFacts
    <3>3. active' = act /\ pc' = AfterInstall(g, act) /\ start' = "running"
      BY <1>c, <2>1
    <3> QED
      BY <3>2, <3>3
  <2>2. CASE active' = active \ {g} /\ start' = start /\ pc' = AfterRemove(g, pc.why)
    <3>1. ASSUME NEW h \in active' PROVE h <= g - 1 /\ h <= Top
      <4>1. h \in Groups /\ h <= g /\ h # g
        BY <1>b, <2>2
      <4> QED
        BY <1>c, <4>1, TopFact
    <3>2. g - 1 \in 0..Top
      BY <1>1, TopFact
    <3>3. CASE pc.why = "catch"
      <4>1. pc' = At("remove", Top, {}, "rollback")
        BY <2>2, <3>3 DEF AfterRemove
      <4> QED
        BY <1>1, <2>2, <3>1, <4>1, TopFact DEF At, Steps, Ops, Whys
    <3>4. CASE pc.why # "catch"
      <4>1. pc' = At("remove", g - 1, {}, "rollback")
        BY <2>2, <3>4 DEF AfterRemove
      <4> QED
        BY <1>1, <2>2, <3>1, <3>2, <4>1, TopFact DEF At, Steps, Ops, Whys
    <3> QED
      BY <3>3, <3>4
  <2>3. CASE active' = active /\ start' = start /\ pc.why = "install" /\ pc' = AfterInstall(g, active)
    BY <1>b, <1>c, <2>3, AfterInstallFacts
  <2>4. CASE active' = active /\ RemoveFails(pc.why)
    BY <1>1, <1>a, <1>b, <2>4, RemoveFailsFacts
  <2> QED
    BY <2>1, <2>2, <2>3, <2>4 DEF CleanUp
<1>3. Control'
  BY <1>2, ControlOutside
<1>4. active' \subseteq active
  BY DEF CleanUp
<1>5. CASE held' = held /\ active' = active
  <2>1. loose' \in [Groups -> SUBSET Nat]
    BY <1>1, <1>a DEF CleanUp, Settles
  <2>2. Typed'
    BY <1>1, <1>2, <1>5, <1>d, <2>1 DEF IInv, Typed
  <2>3. Laid' /\ Counted' /\ WrittenKept' /\ InsideKept' /\ Stacked' /\ Tables'
    BY <1>1, <1>5, <1>d DEF IInv, Laid, Counted, LeadsToUs, WrittenKept, InsideKept, Carried, Needs, Kept, Stacked, Whole, Tables
  <2> QED
    BY <1>3, <2>2, <2>3 DEF IInv
<1>6. CASE Settles(g) /\ GiveBack(g) /\ (active' = active \/ (active' = active \ {g} /\ held'[g] = {}))
  <2>1. PICK n \in 0..7 :
          /\ held' = [held EXCEPT ![g] = {part \in held[g] : Given[part] > n}]
          /\ \A c \in held[g] \cap Carriers : Given[c] <= n => Quiet(g, c) /\ Overlooked(g, c) \subseteq unseen'
    BY <1>6 DEF GiveBack
  <2>2. \A h \in Groups : held'[h] = IF h = g THEN {part \in held[g] : Given[part] > n} ELSE held[h]
    BY <1>1, <1>a, <2>1
  <2>3. held[g] \in SUBSET PartNames /\ held[g] \subseteq Parts(g)
    BY <1>1, <1>a DEF IInv, Tables
  <2>4. /\ held'[g] \subseteq held[g]
        /\ "page" \in held[g] => ("table" \in held'[g] => "page" \in held'[g])
        /\ "lifePage" \in held[g] => ("lifeTable" \in held'[g] => "lifePage" \in held'[g])
    <3>1. held'[g] = {part \in held[g] : Given[part] > n}
      BY <1>c, <2>2
    <3> QED
      BY <2>3, <3>1, GivenFacts
  <2>5. Tables'
    BY <1>1, <2>2, <2>3, <2>4 DEF IInv, Tables
  <2>6. loose' \in [Groups -> SUBSET Nat]
    BY <1>1, <1>6, <1>a DEF Settles
  <2>7. held' \in [Groups -> SUBSET PartNames]
    BY <1>1, <1>a, <2>1
  <2>8. Typed'
    BY <1>1, <1>2, <1>4, <1>d, <2>6, <2>7 DEF IInv, Typed
  <2>9. Laid' /\ Counted'
    BY <1>1 DEF IInv, Laid, Counted, LeadsToUs
  <2>10. WrittenKept'
    BY <1>1, <1>6, <2>2 DEF IInv, WrittenKept, Kept
  <2>11. Stacked'
    <3>1. \A h \in active' : h \in active /\ \A k \in 1..(h - 1) : k \in Groups /\ k # g
      BY <1>4, <1>b, TopFact
    <3> QED
      BY <1>1, <2>2, <3>1 DEF IInv, Stacked, Whole
\* A thread that the checks can see would have kept its carrier, and carriers
\* go before everything else it needs.
  <2>12. ASSUME NEW t \in Threads \ unseen', thread[t] # Nowhere, thread[t].at = g
         PROVE  Needs(t) \subseteq held'[g] /\ held'[g] # {}
    <3>1. t \notin unseen /\ ~IsCalls(g) /\ thread[t].gate \in Parts(g) \cap Carriers
      BY <1>1, <1>d, <2>12 DEF IInv, Typed, Gates, Missed
    <3>2. Needs(t) \subseteq held[g] /\ thread[t].gate \in Needs(t)
      BY <2>12, <3>1 DEF IInv, InsideKept, Carried, Needs
    <3>3. ~(Given[thread[t].gate] <= n)
      <4>1. SUFFICES ASSUME Given[thread[t].gate] <= n PROVE FALSE
        OBVIOUS
      <4>2. Quiet(g, thread[t].gate) /\ Overlooked(g, thread[t].gate) \subseteq unseen'
        BY <2>1, <3>1, <3>2, <4>1
      <4>3. g \in Host(g)
        BY <1>1, HostFact
      <4> QED
        BY <2>12, <4>2, <4>3 DEF Quiet, Overlooked
    <3>4. ASSUME NEW part \in Needs(t) PROVE Given[part] > n
      <4>1. part \in PartNames /\ (part \notin Carriers \/ part = thread[t].gate)
        BY <2>3, <3>2 DEF Needs
      <4> QED
        BY <3>1, <3>3, <4>1, GivenOrder DEF PartNames, Carriers
    <3> QED
      BY <1>1, <2>2, <3>2, <3>4
  <2>13. InsideKept'
    <3>1. ASSUME NEW t \in Threads \ unseen', thread[t] # Nowhere
          PROVE  thread[t].at \in active' /\ Needs(t) \subseteq held'[thread[t].at]
      <4>1. thread[t].at \in Groups /\ Carried(t)
        BY <1>d, <3>1 DEF IInv, InsideKept, Carried, Typed
      <4>2. CASE thread[t].at = g
        BY <1>6, <2>12, <3>1, <4>1, <4>2 DEF Carried
      <4>3. CASE thread[t].at # g
        BY <1>6, <2>2, <4>1, <4>3 DEF Carried
      <4> QED
        BY <4>2, <4>3
    <3> QED
      BY <1>1, <3>1 DEF InsideKept, Carried, Needs
  <2> QED
    BY <1>3, <2>5, <2>8, <2>9, <2>10, <2>11, <2>13 DEF IInv
<1>7. \/ Settles(g) /\ GiveBack(g) /\ (active' = active \/ (active' = active \ {g} /\ held'[g] = {}))
      \/ held' = held /\ active' = active
  <2>1. CASE UNCHANGED <<held, active>>
    BY <2>1
  <2>2. CASE ~UNCHANGED <<held, active>>
    <3>1. Settles(g) /\ GiveBack(g)
      BY <2>2 DEF CleanUp
    <3>2. CASE held'[g] = {}
      BY <2>2, <3>1, <3>2 DEF CleanUp
    <3>3. CASE held'[g] # {}
      <4>1. UNCHANGED active
        BY <2>2, <3>3, Zenon DEF CleanUp
      <4> QED
        BY <3>1, <4>1
    <3> QED
      BY <3>2, <3>3
  <2> QED
    BY <2>1, <2>2
<1> QED
  BY <1>5, <1>6, <1>7, Zenon

LEMMA Stutters == IInv /\ UNCHANGED vars => IInv'
<1> SUFFICES ASSUME IInv, UNCHANGED vars PROVE IInv'
  OBVIOUS
<1>1. UNCHANGED <<start, runtime, pc, active, held, written, loose, bytes, thread, unseen>>
  BY DEF vars
<1>2. Typed'
  BY <1>1 DEF IInv, Typed
<1>3. Control'
  BY <1>1 DEF IInv, Control, Kept, Below, Whole, Missed
<1> QED
  BY <1>1, <1>2, <1>3, Frame DEF IInv

\* IInv is inductive.
LEMMA Inductive == IInv /\ [Next]_vars => IInv'
<1> SUFFICES ASSUME IInv, [Next]_vars PROVE IInv'
  OBVIOUS
<1>1. CASE UNCHANGED vars
  BY <1>1, Stutters
<1>2. CASE Start \/ Refuse \/ Acquire \/ Write \/ Installed
  BY <1>2, StartStep, RefuseStep, AcquireStep, WriteStep, InstalledStep
<1>3. CASE Skip \/ Remove \/ Undo \/ KeepStuck \/ CleanUp \/ Destroy
  BY <1>3, SkipStep, RemoveStep, UndoStep, KeepStuckStep, CleanUpStep, DestroyStep
<1>4. ASSUME NEW t \in Threads,
             Count(t) \/ Uncount(t) \/ Leave(t) \/ \E g \in Groups : Enter(t, g)
      PROVE  IInv'
  BY <1>4, EnterStep, CountStep, LeaveStep
<1>5. ASSUME NEW g \in Groups, NEW s \in Sites(g), Meddle(g, s) PROVE IInv'
  BY <1>5, MeddleStep
<1> QED
  BY <1>1, <1>2, <1>3, <1>4, <1>5 DEF Next

\* Whatever a failed or partly undone start leaves, the code that can still be
\* reached is there, with everything it calls.
LEMMA ReachedIsThere == IInv => NothingDangles
<1> SUFFICES ASSUME IInv PROVE NothingDangles
  OBVIOUS
<1>1. ASSUME NEW g \in active PROVE Stands(g)
  BY DEF IInv, Stacked, Stands
<1>2. ASSUME NEW g \in Groups, Reached(g) PROVE Stands(g) /\ held[g] = Parts(g)
  BY <1>1, <1>2 DEF Reached, IInv, Counted, WrittenKept, Kept
<1>3. ASSUME NEW t \in Threads \ unseen, thread[t] # Nowhere
      PROVE  Stands(thread[t].at) /\ Needs(t) \subseteq held[thread[t].at]
  BY <1>1, <1>3 DEF IInv, InsideKept, Carried
<1>4. \A g \in Groups : /\ "table" \in held[g] => "page" \in held[g]
                        /\ "lifeTable" \in held[g] => "lifePage" \in held[g]
  BY DEF IInv, Tables
<1> QED
  BY <1>2, <1>3, <1>4 DEF NothingDangles

\* Nothing that a byte of the engine's leads to, or that a thread runs on which a
\* check could have seen, is ever given back: for every order of the groups,
\* number of routines and of threads, and conduct of other owners.
THEOREM NeverDangles == Spec => []NothingDangles
<1>1. Init => IInv
  BY Initial
<1>2. IInv /\ [Next]_vars => IInv'
  BY Inductive
<1>3. IInv => NothingDangles
  BY ReachedIsThere
<1> QED
  BY <1>1, <1>2, <1>3, PTL DEF Spec
-----------------------------------------------------------------------------
(* The outcome a start reports.                                             *)

\* A group without a state object has nothing left to give back or restore.
Forgotten == \A g \in Groups : g \notin active => held[g] = {} /\ loose[g] = {}

\* What the outcome says: nothing was begun or everything is gone, or all stands.
Reported ==
    /\ start \in {"none", "refused"} => active = {} /\ ~runtime
    /\ start = "ready" => runtime /\ \A g \in Groups : Whole(g) /\ held[g] = Parts(g)

\* A thread is overlooked only on the way out.
Overseen == pc.op \in {"build", "write"} \/ start \in {"none", "ready"} => unseen = {}

OutcomeInv == Forgotten /\ Reported /\ Overseen

LEMMA NextForgotten == IInv /\ Forgotten /\ [Next]_vars => Forgotten'
<1> SUFFICES ASSUME IInv, Forgotten, [Next]_vars PROVE Forgotten'
  OBVIOUS
<1>t. /\ active \subseteq Groups /\ DOMAIN held = Groups /\ DOMAIN loose = Groups
      /\ pc.op \in {"build", "write"} => pc.at \in Groups
      /\ pc.op \in {"write", "undo", "undo stuck"} => pc.at \in active
  BY DEF IInv, Typed, Control, Kept
<1>1. CASE UNCHANGED <<active, held, loose>>
  BY <1>1 DEF Forgotten
<1>2. CASE Acquire
  <2>1. active' = active \cup {pc.at} /\ UNCHANGED loose
         /\ \A g \in Groups \ {pc.at} : held'[g] = held[g]
    BY <1>2, <1>t DEF Acquire
  <2> QED
    BY <2>1 DEF Forgotten
<1>3. CASE Write \/ Undo
  <2>1. UNCHANGED <<active, held>> /\ pc.at \in active
         /\ \A g \in Groups \ {pc.at} : loose'[g] = loose[g]
    BY <1>3, <1>t DEF Write, Undo
  <2> QED
    BY <2>1 DEF Forgotten
<1>4. CASE CleanUp
  <2>1. pc.at \in active /\ pc.at \in Groups
    BY <1>4, <1>t DEF CleanUp
  <2>2. \A g \in Groups \ {pc.at} : held'[g] = held[g] /\ loose'[g] = loose[g]
    BY <1>4, <1>t DEF CleanUp, Settles, GiveBack
  <2>3. active' = active \/ (active' = active \ {pc.at} /\ held'[pc.at] = {} /\ Settles(pc.at))
    BY <1>4 DEF CleanUp
  <2>4. Settles(pc.at) => loose'[pc.at] = {}
    BY <2>1, <1>t DEF Settles
  <2> QED
    BY <2>1, <2>2, <2>3, <2>4 DEF Forgotten
<1> QED
  BY <1>1, <1>2, <1>3, <1>4 DEF Next, vars, Start, Refuse, Installed, Skip, Remove, KeepStuck,
     Destroy, Enter, Count, Uncount, Leave, Meddle

LEMMA NextOverseen == IInv /\ Overseen /\ [Next]_vars => Overseen'
<1> SUFFICES ASSUME IInv, Overseen, [Next]_vars,
                    pc'.op \in {"build", "write"} \/ start' \in {"none", "ready"}
             PROVE  unseen' = {}
  BY DEF Overseen
<1>t. /\ pc.op # "rest" => start = "running"
      /\ active \subseteq Groups
      /\ pc.op = "write" => pc.at \in Groups /\ written[pc.at] \in SUBSET Nat
  BY DEF IInv, Control, Typed
<1>1. CASE unseen' = unseen /\ (pc.op \in {"build", "write"} \/ start \in {"none", "ready"})
  BY <1>1 DEF Overseen
<1>2. CASE UNCHANGED <<start, pc>> /\ unseen' \subseteq unseen
  BY <1>2 DEF Overseen
<1>3. CASE Start \/ Refuse \/ Acquire \/ Installed
  <2>1. unseen' = unseen /\ (pc.op \in {"build", "write"} \/ start \in {"none", "ready"})
    BY <1>3 DEF Start, Refuse, Acquire, Installed
  <2> QED
    BY <1>1, <2>1
<1>4. CASE Write
  <2>1. pc.op = "write" /\ start' = "running"
    BY <1>4, <1>t DEF Write
  <2>2. unseen' = unseen \/ \E todo : pc' = At("undo", pc.at, todo, "install")
    BY <1>4 DEF Write
  <2>3. unseen' = unseen
    BY <2>1, <2>2 DEF At
  <2> QED
    BY <1>1, <2>1, <2>3
\* Every other step of a running start is one of the way out.
<1>5. CASE Skip \/ Remove \/ Undo \/ KeepStuck \/ CleanUp \/ Destroy
  <2>1. pc.op \in {"undo", "undo stuck", "remove"} /\ start = "running"
    BY <1>5, <1>t DEF Skip, Remove, Undo, KeepStuck, CleanUp, Destroy
  <2>a. \A op, g, todo, why : At(op, g, todo, why).op = op
    BY DEF At
  <2>2. \A why : RemoveFails(why) => pc'.op \in {"remove", "rest"} /\ start' \in {"running", "retained"}
    <3> SUFFICES ASSUME NEW why, RemoveFails(why)
                 PROVE  pc'.op \in {"remove", "rest"} /\ start' \in {"running", "retained"}
      OBVIOUS
    <3>1. \/ pc' = At("remove", Top, {}, "rollback") /\ start' = start
          \/ pc' = At("rest", 0, {}, "none") /\ start' = "retained"
      BY Zenon DEF RemoveFails
    <3>2. At("remove", Top, {}, "rollback").op = "remove" /\ At("rest", 0, {}, "none").op = "rest"
      BY <2>a, Zenon
    <3> QED
      BY <2>1, <3>1, <3>2
  <2>3. \A g, why : AfterRemove(g, why).op = "remove"
    BY <2>a DEF AfterRemove
  <2>4. \A g, act : AfterInstall(g, act).op = "remove"
    BY <2>a DEF AfterInstall
  <2>5. pc'.op \in {"undo", "undo stuck", "remove", "rest"} /\ start' \in {"running", "retained", "refused"}
    <3>1. CASE Skip \/ KeepStuck
      BY <3>1, <2>1, <2>3, <2>4 DEF Skip, KeepStuck
    <3>2. CASE Remove
      <4>1. RemoveFails(pc.why) \/ (pc' = At("undo", pc.at, written[pc.at], pc.why) /\ start' = start)
        BY <3>2, Zenon DEF Remove
      <4>2. At("undo", pc.at, written[pc.at], pc.why).op = "undo"
        BY <2>a, ZenonT(60)
      <4> QED
        BY <2>1, <2>2, <4>1, <4>2
    <3>3. CASE Undo
      <4>1. PICK s \in pc.todo :
              \/ Stuck(s)
              \/ pc' = At(pc.op, pc.at, pc.todo \ {s}, pc.why) /\ start' = start
        BY <3>3, Zenon DEF Undo
      <4>2. \/ RemoveFails(pc.why)
            \/ pc' = At("undo stuck", pc.at, pc.todo \ {s}, pc.why) /\ start' = start
            \/ pc' = At(pc.op, pc.at, pc.todo \ {s}, pc.why) /\ start' = start
        BY <4>1, Zenon DEF Stuck
      <4>3. /\ At("undo stuck", pc.at, pc.todo \ {s}, pc.why).op = "undo stuck"
            /\ At(pc.op, pc.at, pc.todo \ {s}, pc.why).op = pc.op
        BY <2>a, ZenonT(60)
      <4> QED
        BY <2>1, <2>2, <4>2, <4>3
    <3>4. CASE CleanUp
      BY <3>4, <2>1, <2>2, <2>3, <2>4 DEF CleanUp
    <3>5. CASE Destroy
      BY <3>5, <2>1 DEF Destroy, At
    <3> QED
      BY <1>5, <3>1, <3>2, <3>3, <3>4, <3>5
  <2> QED
    BY <2>5
<1>6. CASE \/ UNCHANGED vars
           \/ \E t \in Threads : Count(t) \/ Uncount(t) \/ Leave(t)
           \/ \E g \in Groups : \E s \in Sites(g) : Meddle(g, s)
  BY <1>2, <1>6 DEF vars, Count, Uncount, Leave, Meddle
<1>7. CASE \E t \in Threads : \E g \in Groups : Enter(t, g)
  <2>1. UNCHANGED <<start, pc>> /\ (unseen' = unseen \/ pc.op \in {"undo", "undo stuck"})
    BY <1>7 DEF Enter
  <2>2. start' = "running" => pc'.op \in {"build", "write"}
    OBVIOUS
  <2> QED
    BY <1>2, <1>t, <2>1
<1> QED
  BY <1>3, <1>4, <1>5, <1>6, <1>7 DEF Next

LEMMA NextReported == IInv /\ Reported /\ [Next]_vars => Reported'
<1> SUFFICES ASSUME IInv, Reported, [Next]_vars PROVE Reported'
  OBVIOUS
<1>t. /\ active \subseteq Groups
      /\ pc.op # "rest" => start = "running"
  BY DEF IInv, Typed, Control
\* Most steps of a running start leave it running, or retain what is there.
<1>1. CASE start' \in {"running", "retained"}
  BY <1>1 DEF Reported
<1>2. CASE UNCHANGED <<start, runtime, active, held, written>>
  BY <1>2 DEF Reported, Whole
<1>3. CASE Start
  BY <1>3 DEF Start, Reported
<1>4. CASE Installed /\ start' = "ready"
  <2>1. pc.op = "write" /\ pc.todo = {} /\ pc.at = Top /\ UNCHANGED <<runtime, held, written>>
    BY <1>4, <1>t DEF Installed
  <2>2. Kept(Top) /\ Whole(Top) /\ Top \in Groups
    BY <2>1 DEF IInv, Control, Whole
  <2>3. runtime /\ \A h \in 1..(Top - 1) : Whole(h) /\ held[h] = Parts(h)
    BY <2>2 DEF IInv, Stacked, Kept
  <2>4. \A h \in Groups : h = Top \/ h \in 1..(Top - 1)
    BY TopFact
  <2>5. \A h \in Groups : Whole(h) /\ held[h] = Parts(h)
    BY <2>2, <2>3, <2>4 DEF Kept
  <2>6. Reported' <=> runtime' /\ \A h \in Groups : written'[h] = Sites(h) /\ held'[h] = Parts(h)
    BY <1>4 DEF Reported, Whole
  <2> QED
    BY <2>1, <2>3, <2>5, <2>6 DEF Whole
<1>5. CASE Destroy
  <2>1. active = {}
    BY <1>5, TopFact DEF Destroy, IInv, Control, Below, Typed
  <2> QED
    BY <1>5, <2>1 DEF Destroy, Reported
<1>6. pc.op # "rest" /\ UNCHANGED start => start' = "running"
  BY <1>t
<1>7. \A why : RemoveFails(why) /\ pc.op # "rest" => start' \in {"running", "retained"}
  BY <1>t DEF RemoveFails
<1>8. CASE Refuse \/ Acquire \/ Write \/ Skip \/ KeepStuck
  <2>1. UNCHANGED start /\ pc.op # "rest"
    BY <1>8 DEF Refuse, Acquire, Write, Skip, KeepStuck
  <2> QED
    BY <1>1, <1>6, <2>1
<1>9. CASE Installed /\ start' # "ready"
  <2>1. UNCHANGED start /\ pc.op # "rest"
    BY <1>9 DEF Installed
  <2> QED
    BY <1>1, <1>6, <2>1
<1>10. CASE Remove
  BY <1>1, <1>6, <1>7, <1>10 DEF Remove
<1>11. CASE Undo
  BY <1>1, <1>6, <1>7, <1>11 DEF Undo, Stuck
<1>12. CASE CleanUp
  BY <1>1, <1>6, <1>7, <1>12 DEF CleanUp
<1>13. ASSUME \/ \E t \in Threads : Count(t) \/ Uncount(t) \/ Leave(t) \/ \E g \in Groups : Enter(t, g)
              \/ \E g \in Groups : \E s \in Sites(g) : Meddle(g, s)
       PROVE  Reported'
  BY <1>2, <1>13 DEF Enter, Count, Uncount, Leave, Meddle
<1> QED
  BY <1>2, <1>3, <1>4, <1>5, <1>8, <1>9, <1>10, <1>11, <1>12, <1>13 DEF Next, vars

LEMMA ReportIsTrue == IInv /\ OutcomeInv => OutcomeIsTrue
<1> SUFFICES ASSUME IInv, OutcomeInv PROVE OutcomeIsTrue
  OBVIOUS
<1>1. ASSUME NEW g \in Groups, start = "refused"
      PROVE  ~Reached(g) /\ loose[g] = {} /\ held[g] = {}
  <2>1. g \notin active
    BY <1>1 DEF OutcomeInv, Reported
  <2>2. written[g] = {}
    BY <2>1 DEF IInv, WrittenKept, Kept
  <2>3. ~Reached(g)
    BY <2>2 DEF Reached, IInv, Counted
  <2> QED
    BY <2>1, <2>3 DEF OutcomeInv, Forgotten
<1>2. start = "refused" => active = {} /\ ~runtime
  BY DEF OutcomeInv, Reported
<1>3. ASSUME NEW t \in Threads \ unseen, start = "refused" PROVE thread[t] = Nowhere
  BY <1>2, <1>3 DEF IInv, InsideKept, Carried
<1>4. start = "ready" => unseen = {} /\ runtime /\ \A g \in Groups : Whole(g) /\ held[g] = Parts(g)
  BY DEF OutcomeInv, Reported, Overseen
<1> QED
  BY <1>1, <1>2, <1>3, <1>4 DEF OutcomeIsTrue

\* What a start reports is so, whatever failed, got stuck or was patched by
\* others on the way: "refused" leaves nothing of it behind, and no thread in
\* it that a check could have seen; "ready" has it all and overlooked nobody.
THEOREM OutcomeIsTold == Spec => []OutcomeIsTrue
<1>1. Init => OutcomeInv
  BY DEF Init, OutcomeInv, Forgotten, Reported, Overseen
<1>2. IInv /\ OutcomeInv /\ [Next]_vars => OutcomeInv'
  BY NextForgotten, NextReported, NextOverseen DEF OutcomeInv
<1> QED
  BY <1>1, <1>2, Initial, Inductive, ReportIsTrue, PTL DEF Spec
=============================================================================
