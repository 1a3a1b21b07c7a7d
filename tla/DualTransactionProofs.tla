------------------------ MODULE DualTransactionProofs ------------------------
(***************************************************************************)
(* Proofs about the coordinator of DualTransaction: type correctness, who  *)
(* owns the manual screen, that outcomes are told truthfully, that a       *)
(* request is applied at most once, and that every step is a step of       *)
(* ManualLevel.                                                            *)
(***************************************************************************)
EXTENDS DualTransaction, TLAPS

\* The phase in which each callback is entered; a context that is not allocated
\* is idle and inside no entry point.
PhaseAtCallback ==
    \A c \in Contexts :
        /\ ~Live(c) => pc[c] = "none" /\ phase[c] = "IDLE"
        /\ Beginning(c) => phase[c] = "IDLE"
        /\ pc[c] \in {"begin_inspect", "choose", "choose_inspect", "preview_inspect",
                      "commit_inspect", "commit_capture"} => phase[c] = "CHOOSING"
        /\ pc[c] \in {"commit", "resolve"} => phase[c] = "COMMIT_UNKNOWN"
        /\ pc[c] = "finish" => phase[c] = "COMMITTED"
        /\ pc[c] = "abandon" => phase[c] # "COMMITTED"

\* An attempt that is beginning has an identity, and from prepare on a handle.
AttemptIdentity ==
    \A c \in Contexts :
        /\ Beginning(c) => transaction[c] # 0
        /\ Open(c) /\ pc[c] # "abandon" => handle[c] # 0

ScreenInv == TypeOK /\ PhaseAtCallback /\ AttemptIdentity /\ ScreenOwnership
-----------------------------------------------------------------------------
\* Types of what the adapter keeps, one lemma for each operator that changes it.
LEMMA ObjectUpdate ==
    ASSUME NEW f \in [1..SeqMax -> Objects], NEW h, NEW o, h \in 1..SeqMax => o \in Objects
    PROVE  [f EXCEPT ![h] = o] \in [1..SeqMax -> Objects]
OBVIOUS
LEMMA EditType ==
    ASSUME TypeOK, NEW c \in Contexts, NEW pending \in BOOLEAN, Edit(c, pending)
    PROVE  detached' \in [1..SeqMax -> Objects]
<1>1. handle[c] \in 1..SeqMax => detached[handle[c]] \in Objects
  BY DEF TypeOK, AdapterType
<1>2. handle[c] \in 1..SeqMax =>
        [choice |-> detached[handle[c]].choice + 1, pending |-> pending,
         discards |-> detached[handle[c]].discards] \in Objects
  BY <1>1 DEF Objects
<1> QED
  BY <1>2, ObjectUpdate DEF Edit, TypeOK, AdapterType
LEMMA DiscardedType ==
    ASSUME TypeOK, NEW c \in Contexts, Discarded(c)
    PROVE  detached' \in [1..SeqMax -> Objects]
<1>1. transaction[c] \in 1..SeqMax => detached[transaction[c]] \in Objects
  BY DEF TypeOK, AdapterType
<1>2. transaction[c] \in 1..SeqMax =>
        [choice |-> detached[transaction[c]].choice, pending |-> detached[transaction[c]].pending,
         discards |-> detached[transaction[c]].discards + 1] \in Objects
  BY <1>1 DEF Objects
<1> QED
  BY <1>2, ObjectUpdate DEF Discarded, TypeOK, AdapterType
LEMMA PreparedType ==
    ASSUME TypeOK, NEW c \in Contexts, NEW pending \in BOOLEAN, Prepared(c, pending)
    PROVE  detached' \in [1..SeqMax -> Objects]
<1>1. [choice |-> 1, pending |-> pending, discards |-> 0] \in Objects
  BY DEF Objects
<1> QED
  BY <1>1, ObjectUpdate DEF Prepared, TypeOK, AdapterType
LEMMA AdapterCommitType ==
    ASSUME TypeOK, NEW c \in Contexts, AdapterCommit(c), handle[c] \in 1..SeqMax
    PROVE  world' \in Snapshots /\ applied' \subseteq Commits
<1>1. detached[handle[c]] \in Objects
  BY DEF TypeOK, AdapterType
<1>2. detached[handle[c]].choice \in Nat /\ detached[handle[c]].pending \in BOOLEAN
  BY <1>1 DEF Objects
<1>3. world' \in Snapshots
  BY DEF AdapterCommit, TypeOK, AdapterType, Snapshots
<1>4. [id |-> transaction[c], ledger |-> request[c], choice |-> detached[handle[c]].choice,
       shown |-> shown[c], pending |-> detached[handle[c]].pending] \in Commits
  BY <1>2, ConstantAssumption DEF TypeOK, AttemptType, Commits
<1> QED
  BY <1>3, <1>4 DEF AdapterCommit, TypeOK, AdapterType

LEMMA CurrentObjectType ==
    ASSUME TypeOK, NEW c \in Contexts, handle[c] # 0
    PROVE  handle[c] \in 1..SeqMax /\ detached[handle[c]].choice \in Nat
<1>1. handle[c] \in 1..SeqMax
  BY ConstantAssumption DEF TypeOK, AttemptType
<1> QED
  BY <1>1 DEF TypeOK, AdapterType, Objects

LEMMA AbandonType ==
    ASSUME TypeOK, NEW c \in Contexts, AbandonState(c)
    PROVE  /\ preview_fault' \in [Contexts -> BOOLEAN]
           /\ reviewed_choice' \in [Contexts -> Nat]
  BY DEF AbandonState, TypeOK, AttemptType
-----------------------------------------------------------------------------
LEMMA InitScreenInv == Init => ScreenInv
<1> SUFFICES ASSUME Init PROVE ScreenInv
  OBVIOUS
<1> USE ConstantAssumption DEF Init
<1>1. ControlType
  BY DEF ControlType, Phases
<1>2. AttemptType
  BY DEF AttemptType, Snapshots
<1>3. AdapterType
  BY DEF AdapterType, Snapshots, Objects, NoObject, Commits
<1>4. PhaseAtCallback /\ AttemptIdentity /\ ScreenOwnership
  BY DEF PhaseAtCallback, AttemptIdentity, ScreenOwnership, Live, Open,
         Beginning, Ending
<1> QED
  BY <1>1, <1>2, <1>3, <1>4 DEF ScreenInv, TypeOK

LEMMA NextControlType == TypeOK /\ [Next]_vars => ControlType'
<1> SUFFICES ASSUME TypeOK, [Next]_vars PROVE ControlType'
  OBVIOUS
<1> USE ConstantAssumption DEF TypeOK, ControlType, Phases, Callbacks,
      threadVars, planVars, choiceVars, screenVars
<1>1. ASSUME NEW t \in Threads, CreateLoad(t) PROVE ControlType'
  BY <1>1 DEF CreateLoad
<1>2. ASSUME NEW t \in Threads, NEW c \in Contexts, CreateBind(t, c) PROVE
      ControlType'
  BY <1>2 DEF CreateBind, WinsBind
<1>3. ASSUME NEW c \in Contexts, NEW ledger \in 0..MaxRevision, Begin(c,
      ledger) PROVE ControlType'
  BY <1>3 DEF Begin, ScreenFree, Exhausted, NextSequence, Enter
<1>4. ASSUME NEW c \in Contexts, Choose(c) PROVE ControlType'
  BY <1>4 DEF Choose, Enter
<1>5. ASSUME NEW c \in Contexts, GetPreview(c) PROVE ControlType'
  BY <1>5 DEF GetPreview, Enter
<1>6. ASSUME NEW c \in Contexts, Commit(c) PROVE ControlType'
  BY <1>6 DEF Commit, Enter
<1>7. ASSUME NEW c \in Contexts, Cancel(c) PROVE ControlType'
  BY <1>7 DEF Cancel, Enter, ForgetHandle
<1>8. ASSUME NEW c \in Contexts, Resolve(c) PROVE ControlType'
  BY <1>8 DEF Resolve, Enter
<1>9. ASSUME NEW c \in Contexts, Reset(c) PROVE ControlType'
  BY <1>9 DEF Reset
<1>10. ASSUME NEW c \in Contexts, Destroy(c) PROVE ControlType'
  BY <1>10 DEF Destroy
<1>11. ASSUME NEW c \in Contexts, BeginCaptured(c) PROVE ControlType'
  BY <1>11 DEF BeginCaptured, At, CallNext, Return, AbandonState, Relinquish
<1>12. ASSUME NEW c \in Contexts, BeginPrepared(c) PROVE ControlType'
  BY <1>12 DEF BeginPrepared, Prepared, At, CallNext, Return, AbandonState,
     Relinquish
<1>13. ASSUME NEW c \in Contexts, BeginInspected(c) PROVE ControlType'
  BY <1>13 DEF BeginInspected, ForgetHandle, At, CallNext, Return
<1>14. ASSUME NEW c \in Contexts, ChooseReturned(c) PROVE ControlType'
  BY <1>14 DEF ChooseReturned, Edit, At, CallNext, Return
<1>15. ASSUME NEW c \in Contexts, ChooseInspected(c) PROVE ControlType'
  BY <1>15 DEF ChooseInspected, At, Return
<1>16. ASSUME NEW c \in Contexts, PreviewInspected(c) PROVE ControlType'
  BY <1>16 DEF PreviewInspected, At, Return
<1>17. ASSUME NEW c \in Contexts, CommitInspected(c) PROVE ControlType'
  BY <1>17 DEF CommitInspected, At, CallNext, Return
<1>18. ASSUME NEW c \in Contexts, CommitCaptured(c) PROVE ControlType'
  BY <1>18 DEF CommitCaptured, At, CallNext, Return
<1>19. ASSUME NEW c \in Contexts, CommitReturned(c) PROVE ControlType'
  BY <1>19 DEF CommitReturned, AdapterCommit, StartFinish, Unresolved,
     ForgetHandle, At, CallNext, Return
<1>20. ASSUME NEW c \in Contexts, ResolveReturned(c) PROVE ControlType'
  BY <1>20 DEF ResolveReturned, StartFinish, Unresolved, ForgetHandle, At,
     CallNext, Return
<1>21. ASSUME NEW c \in Contexts, Abandoned(c) PROVE ControlType'
  BY <1>21 DEF Abandoned, Discarded, At, Return, AbandonState, Relinquish
<1>22. ASSUME NEW c \in Contexts, Finished(c) PROVE ControlType'
  BY <1>22 DEF Finished, Discarded, At, Return, Relinquish
<1>23. ASSUME WorldChange PROVE ControlType'
  BY <1>23 DEF WorldChange
<1>24. ASSUME UNCHANGED vars PROVE ControlType'
  BY <1>24 DEF vars
<1> QED
  BY <1>1, <1>2, <1>3, <1>4, <1>5, <1>6, <1>7, <1>8, <1>9, <1>10, <1>11,
     <1>12, <1>13, <1>14, <1>15, <1>16, <1>17, <1>18, <1>19, <1>20, <1>21,
     <1>22, <1>23, <1>24 DEF Next, Call, CallbackReturn

LEMMA NextAttemptType ==
    TypeOK /\ PhaseAtCallback /\ AttemptIdentity /\ [Next]_vars =>
        AttemptType'
<1> SUFFICES ASSUME TypeOK, PhaseAtCallback, AttemptIdentity, [Next]_vars
      PROVE AttemptType'
  OBVIOUS
<1> USE ConstantAssumption DEF TypeOK, AttemptType, threadVars, planVars,
      choiceVars, screenVars
<1>1. ASSUME NEW t \in Threads, CreateLoad(t) PROVE AttemptType'
  BY <1>1 DEF CreateLoad
<1>2. ASSUME NEW t \in Threads, NEW c \in Contexts, CreateBind(t, c) PROVE
      AttemptType'
  BY <1>2 DEF CreateBind, WinsBind
<1>3. ASSUME NEW c \in Contexts, NEW ledger \in 0..MaxRevision, Begin(c,
      ledger) PROVE AttemptType'
  <2>1. before' \in [Contexts -> Snapshots]
    BY <1>3 DEF Begin, Snapshots
  <2>2. sequence' \in 1..SeqMax
    BY <1>3 DEF Begin, NextSequence, Exhausted
  <2> QED
    BY <1>3, <2>1, <2>2 DEF Begin
<1>4. ASSUME NEW c \in Contexts, Choose(c) PROVE AttemptType'
  BY <1>4 DEF Choose
<1>5. ASSUME NEW c \in Contexts, GetPreview(c) PROVE AttemptType'
  BY <1>5 DEF GetPreview
<1>6. ASSUME NEW c \in Contexts, Commit(c) PROVE AttemptType'
  BY <1>6 DEF Commit
<1>7. ASSUME NEW c \in Contexts, Cancel(c) PROVE AttemptType'
  BY <1>7 DEF Cancel, ForgetHandle
<1>8. ASSUME NEW c \in Contexts, Resolve(c) PROVE AttemptType'
  BY <1>8 DEF Resolve
<1>9. ASSUME NEW c \in Contexts, Reset(c) PROVE AttemptType'
  <2>1. before' \in [Contexts -> Snapshots]
    BY <1>9 DEF Reset, Snapshots
  <2> QED
    BY <1>9, <2>1 DEF Reset
<1>10. ASSUME NEW c \in Contexts, Destroy(c) PROVE AttemptType'
  <2>1. before' \in [Contexts -> Snapshots]
    BY <1>10 DEF Destroy, Snapshots
  <2> QED
    BY <1>10, <2>1 DEF Destroy
<1>11. ASSUME NEW c \in Contexts, BeginCaptured(c) PROVE AttemptType'
  <2>1. before' \in [Contexts -> Snapshots]
    BY <1>11 DEF BeginCaptured, AdapterType
  <2> QED
    BY <1>11, <2>1, AbandonType DEF BeginCaptured
<1>12. ASSUME NEW c \in Contexts, BeginPrepared(c) PROVE AttemptType'
  BY <1>12, AbandonType DEF BeginPrepared
<1>13. ASSUME NEW c \in Contexts, BeginInspected(c) PROVE AttemptType'
  BY <1>13 DEF BeginInspected, ForgetHandle
<1>14. ASSUME NEW c \in Contexts, ChooseReturned(c) PROVE AttemptType'
  BY <1>14 DEF ChooseReturned
<1>15. ASSUME NEW c \in Contexts, ChooseInspected(c) PROVE AttemptType'
  BY <1>15 DEF ChooseInspected
<1>16. ASSUME NEW c \in Contexts, PreviewInspected(c) PROVE AttemptType'
  <2>1. handle[c] # 0
    BY <1>16 DEF PreviewInspected, At, PhaseAtCallback, AttemptIdentity, Open,
       ControlType
  <2>2. detached[handle[c]].choice \in Nat
    BY <2>1, CurrentObjectType
  <2> QED
    BY <1>16, <2>2 DEF PreviewInspected
<1>17. ASSUME NEW c \in Contexts, CommitInspected(c) PROVE AttemptType'
  BY <1>17 DEF CommitInspected
<1>18. ASSUME NEW c \in Contexts, CommitCaptured(c) PROVE AttemptType'
  BY <1>18 DEF CommitCaptured
<1>19. ASSUME NEW c \in Contexts, CommitReturned(c) PROVE AttemptType'
  BY <1>19 DEF CommitReturned, StartFinish, Unresolved, ForgetHandle
<1>20. ASSUME NEW c \in Contexts, ResolveReturned(c) PROVE AttemptType'
  BY <1>20 DEF ResolveReturned, StartFinish, Unresolved, ForgetHandle
<1>21. ASSUME NEW c \in Contexts, Abandoned(c) PROVE AttemptType'
  BY <1>21 DEF Abandoned, AbandonState
<1>22. ASSUME NEW c \in Contexts, Finished(c) PROVE AttemptType'
  BY <1>22 DEF Finished
<1>23. ASSUME WorldChange PROVE AttemptType'
  BY <1>23 DEF WorldChange
<1>24. ASSUME UNCHANGED vars PROVE AttemptType'
  BY <1>24 DEF vars
<1> QED
  BY <1>1, <1>2, <1>3, <1>4, <1>5, <1>6, <1>7, <1>8, <1>9, <1>10, <1>11,
     <1>12, <1>13, <1>14, <1>15, <1>16, <1>17, <1>18, <1>19, <1>20, <1>21,
     <1>22, <1>23, <1>24 DEF Next, Call, CallbackReturn

LEMMA NextAdapterType ==
    TypeOK /\ PhaseAtCallback /\ AttemptIdentity /\ [Next]_vars =>
        AdapterType'
<1> SUFFICES ASSUME TypeOK, PhaseAtCallback, AttemptIdentity, [Next]_vars
      PROVE AdapterType'
  OBVIOUS
<1> USE ConstantAssumption DEF TypeOK, AdapterType, threadVars, planVars,
      choiceVars, screenVars
<1>1. ASSUME NEW t \in Threads, CreateLoad(t) PROVE AdapterType'
  BY <1>1 DEF CreateLoad
<1>2. ASSUME NEW t \in Threads, NEW c \in Contexts, CreateBind(t, c) PROVE
      AdapterType'
  BY <1>2 DEF CreateBind
<1>3. ASSUME NEW c \in Contexts, NEW ledger \in 0..MaxRevision, Begin(c,
      ledger) PROVE AdapterType'
  BY <1>3 DEF Begin
<1>4. ASSUME NEW c \in Contexts, Choose(c) PROVE AdapterType'
  BY <1>4 DEF Choose
<1>5. ASSUME NEW c \in Contexts, GetPreview(c) PROVE AdapterType'
  BY <1>5 DEF GetPreview
<1>6. ASSUME NEW c \in Contexts, Commit(c) PROVE AdapterType'
  BY <1>6 DEF Commit
<1>7. ASSUME NEW c \in Contexts, Cancel(c) PROVE AdapterType'
  BY <1>7 DEF Cancel
<1>8. ASSUME NEW c \in Contexts, Resolve(c) PROVE AdapterType'
  BY <1>8 DEF Resolve
<1>9. ASSUME NEW c \in Contexts, Reset(c) PROVE AdapterType'
  BY <1>9 DEF Reset
<1>10. ASSUME NEW c \in Contexts, Destroy(c) PROVE AdapterType'
  BY <1>10 DEF Destroy
<1>11. ASSUME NEW c \in Contexts, BeginCaptured(c) PROVE AdapterType'
  BY <1>11 DEF BeginCaptured
<1>12. ASSUME NEW c \in Contexts, BeginPrepared(c) PROVE AdapterType'
  BY <1>12, PreparedType DEF BeginPrepared
<1>13. ASSUME NEW c \in Contexts, BeginInspected(c) PROVE AdapterType'
  BY <1>13 DEF BeginInspected
<1>14. ASSUME NEW c \in Contexts, ChooseReturned(c) PROVE AdapterType'
  BY <1>14, EditType DEF ChooseReturned
<1>15. ASSUME NEW c \in Contexts, ChooseInspected(c) PROVE AdapterType'
  BY <1>15 DEF ChooseInspected
<1>16. ASSUME NEW c \in Contexts, PreviewInspected(c) PROVE AdapterType'
  BY <1>16 DEF PreviewInspected
<1>17. ASSUME NEW c \in Contexts, CommitInspected(c) PROVE AdapterType'
  BY <1>17 DEF CommitInspected
<1>18. ASSUME NEW c \in Contexts, CommitCaptured(c) PROVE AdapterType'
  BY <1>18 DEF CommitCaptured
<1>19. ASSUME NEW c \in Contexts, CommitReturned(c) PROVE AdapterType'
  <2>1. handle[c] \in 1..SeqMax
    BY <1>19, CurrentObjectType DEF CommitReturned, At, PhaseAtCallback,
       AttemptIdentity, Open, ControlType
  <2> QED
    BY <1>19, <2>1, AdapterCommitType DEF CommitReturned
<1>20. ASSUME NEW c \in Contexts, ResolveReturned(c) PROVE AdapterType'
  BY <1>20 DEF ResolveReturned
<1>21. ASSUME NEW c \in Contexts, Abandoned(c) PROVE AdapterType'
  BY <1>21, DiscardedType DEF Abandoned
<1>22. ASSUME NEW c \in Contexts, Finished(c) PROVE AdapterType'
  BY <1>22, DiscardedType DEF Finished
<1>23. ASSUME WorldChange PROVE AdapterType'
  BY <1>23 DEF WorldChange, Snapshots
<1>24. ASSUME UNCHANGED vars PROVE AdapterType'
  BY <1>24 DEF vars
<1> QED
  BY <1>1, <1>2, <1>3, <1>4, <1>5, <1>6, <1>7, <1>8, <1>9, <1>10, <1>11,
     <1>12, <1>13, <1>14, <1>15, <1>16, <1>17, <1>18, <1>19, <1>20, <1>21,
     <1>22, <1>23, <1>24 DEF Next, Call, CallbackReturn

LEMMA NextPhase == TypeOK /\ PhaseAtCallback /\ [Next]_vars => PhaseAtCallback'
<1> SUFFICES ASSUME TypeOK, PhaseAtCallback, [Next]_vars PROVE
      PhaseAtCallback'
  OBVIOUS
<1> USE ConstantAssumption DEF TypeOK, ControlType, PhaseAtCallback, Live,
      Entered, Beginning, threadVars, planVars, choiceVars, screenVars
<1>1. ASSUME NEW t \in Threads, CreateLoad(t) PROVE PhaseAtCallback'
  BY <1>1 DEF CreateLoad
<1>2. ASSUME NEW t \in Threads, NEW c \in Contexts, CreateBind(t, c) PROVE
      PhaseAtCallback'
  BY <1>2 DEF CreateBind, WinsBind
<1>3. ASSUME NEW c \in Contexts, NEW ledger \in 0..MaxRevision, Begin(c,
      ledger) PROVE PhaseAtCallback'
  BY <1>3 DEF Begin, ScreenFree, Exhausted, NextSequence, Enter
<1>4. ASSUME NEW c \in Contexts, Choose(c) PROVE PhaseAtCallback'
  BY <1>4 DEF Choose, Enter
<1>5. ASSUME NEW c \in Contexts, GetPreview(c) PROVE PhaseAtCallback'
  BY <1>5 DEF GetPreview, Enter
<1>6. ASSUME NEW c \in Contexts, Commit(c) PROVE PhaseAtCallback'
  BY <1>6 DEF Commit, Enter
<1>7. ASSUME NEW c \in Contexts, Cancel(c) PROVE PhaseAtCallback'
  BY <1>7 DEF Cancel, Enter, ForgetHandle
<1>8. ASSUME NEW c \in Contexts, Resolve(c) PROVE PhaseAtCallback'
  BY <1>8 DEF Resolve, Enter
<1>9. ASSUME NEW c \in Contexts, Reset(c) PROVE PhaseAtCallback'
  BY <1>9 DEF Reset
<1>10. ASSUME NEW c \in Contexts, Destroy(c) PROVE PhaseAtCallback'
  BY <1>10 DEF Destroy
<1>11. ASSUME NEW c \in Contexts, BeginCaptured(c) PROVE PhaseAtCallback'
  BY <1>11 DEF BeginCaptured, At, CallNext, Return, AbandonState, Relinquish
<1>12. ASSUME NEW c \in Contexts, BeginPrepared(c) PROVE PhaseAtCallback'
  BY <1>12 DEF BeginPrepared, At, CallNext, Return, AbandonState, Relinquish
<1>13. ASSUME NEW c \in Contexts, BeginInspected(c) PROVE PhaseAtCallback'
  BY <1>13 DEF BeginInspected, ForgetHandle, At, CallNext, Return
<1>14. ASSUME NEW c \in Contexts, ChooseReturned(c) PROVE PhaseAtCallback'
  BY <1>14 DEF ChooseReturned, At, CallNext, Return
<1>15. ASSUME NEW c \in Contexts, ChooseInspected(c) PROVE PhaseAtCallback'
  BY <1>15 DEF ChooseInspected, At, Return
<1>16. ASSUME NEW c \in Contexts, PreviewInspected(c) PROVE PhaseAtCallback'
  BY <1>16 DEF PreviewInspected, At, Return
<1>17. ASSUME NEW c \in Contexts, CommitInspected(c) PROVE PhaseAtCallback'
  BY <1>17 DEF CommitInspected, At, CallNext, Return
<1>18. ASSUME NEW c \in Contexts, CommitCaptured(c) PROVE PhaseAtCallback'
  BY <1>18 DEF CommitCaptured, At, CallNext, Return
<1>19. ASSUME NEW c \in Contexts, CommitReturned(c) PROVE PhaseAtCallback'
  BY <1>19 DEF CommitReturned, StartFinish, Unresolved, ForgetHandle, At,
     CallNext, Return
<1>20. ASSUME NEW c \in Contexts, ResolveReturned(c) PROVE PhaseAtCallback'
  BY <1>20 DEF ResolveReturned, StartFinish, Unresolved, ForgetHandle, At,
     CallNext, Return
<1>21. ASSUME NEW c \in Contexts, Abandoned(c) PROVE PhaseAtCallback'
  BY <1>21 DEF Abandoned, At, Return, AbandonState, Relinquish
<1>22. ASSUME NEW c \in Contexts, Finished(c) PROVE PhaseAtCallback'
  BY <1>22 DEF Finished, At, Return, Relinquish
<1>23. ASSUME WorldChange PROVE PhaseAtCallback'
  BY <1>23 DEF WorldChange
<1>24. ASSUME UNCHANGED vars PROVE PhaseAtCallback'
  BY <1>24 DEF vars
<1> QED
  BY <1>1, <1>2, <1>3, <1>4, <1>5, <1>6, <1>7, <1>8, <1>9, <1>10, <1>11,
     <1>12, <1>13, <1>14, <1>15, <1>16, <1>17, <1>18, <1>19, <1>20, <1>21,
     <1>22, <1>23, <1>24 DEF Next, Call, CallbackReturn

LEMMA NextIdentity ==
    TypeOK /\ PhaseAtCallback /\ AttemptIdentity /\ [Next]_vars =>
        AttemptIdentity'
<1> SUFFICES ASSUME TypeOK, PhaseAtCallback, AttemptIdentity, [Next]_vars
      PROVE AttemptIdentity'
  OBVIOUS
<1> USE ConstantAssumption DEF TypeOK, ControlType, AttemptType,
      PhaseAtCallback, AttemptIdentity, Open, Beginning, Entered, threadVars,
      planVars, choiceVars, screenVars
<1>1. ASSUME NEW t \in Threads, CreateLoad(t) PROVE AttemptIdentity'
  BY <1>1 DEF CreateLoad
<1>2. ASSUME NEW t \in Threads, NEW c \in Contexts, CreateBind(t, c) PROVE
      AttemptIdentity'
  BY <1>2 DEF CreateBind, WinsBind
<1>3. ASSUME NEW c \in Contexts, NEW ledger \in 0..MaxRevision, Begin(c,
      ledger) PROVE AttemptIdentity'
  BY <1>3 DEF Begin, ScreenFree, Exhausted, NextSequence, Enter
<1>4. ASSUME NEW c \in Contexts, Choose(c) PROVE AttemptIdentity'
  BY <1>4 DEF Choose, Enter
<1>5. ASSUME NEW c \in Contexts, GetPreview(c) PROVE AttemptIdentity'
  BY <1>5 DEF GetPreview, Enter
<1>6. ASSUME NEW c \in Contexts, Commit(c) PROVE AttemptIdentity'
  BY <1>6 DEF Commit, Enter
<1>7. ASSUME NEW c \in Contexts, Cancel(c) PROVE AttemptIdentity'
  BY <1>7 DEF Cancel, Enter, ForgetHandle
<1>8. ASSUME NEW c \in Contexts, Resolve(c) PROVE AttemptIdentity'
  BY <1>8 DEF Resolve, Enter
<1>9. ASSUME NEW c \in Contexts, Reset(c) PROVE AttemptIdentity'
  BY <1>9 DEF Reset
<1>10. ASSUME NEW c \in Contexts, Destroy(c) PROVE AttemptIdentity'
  BY <1>10 DEF Destroy
<1>11. ASSUME NEW c \in Contexts, BeginCaptured(c) PROVE AttemptIdentity'
  BY <1>11 DEF BeginCaptured, At, CallNext, Return, AbandonState, Relinquish
<1>12. ASSUME NEW c \in Contexts, BeginPrepared(c) PROVE AttemptIdentity'
  BY <1>12 DEF BeginPrepared, At, CallNext, Return, AbandonState, Relinquish
<1>13. ASSUME NEW c \in Contexts, BeginInspected(c) PROVE AttemptIdentity'
  BY <1>13 DEF BeginInspected, ForgetHandle, At, CallNext, Return
<1>14. ASSUME NEW c \in Contexts, ChooseReturned(c) PROVE AttemptIdentity'
  BY <1>14 DEF ChooseReturned, At, CallNext, Return
<1>15. ASSUME NEW c \in Contexts, ChooseInspected(c) PROVE AttemptIdentity'
  BY <1>15 DEF ChooseInspected, At, Return
<1>16. ASSUME NEW c \in Contexts, PreviewInspected(c) PROVE AttemptIdentity'
  BY <1>16 DEF PreviewInspected, At, Return
<1>17. ASSUME NEW c \in Contexts, CommitInspected(c) PROVE AttemptIdentity'
  BY <1>17 DEF CommitInspected, At, CallNext, Return
<1>18. ASSUME NEW c \in Contexts, CommitCaptured(c) PROVE AttemptIdentity'
  BY <1>18 DEF CommitCaptured, At, CallNext, Return
<1>19. ASSUME NEW c \in Contexts, CommitReturned(c) PROVE AttemptIdentity'
  BY <1>19 DEF CommitReturned, StartFinish, Unresolved, ForgetHandle, At,
     CallNext, Return
<1>20. ASSUME NEW c \in Contexts, ResolveReturned(c) PROVE AttemptIdentity'
  BY <1>20 DEF ResolveReturned, StartFinish, Unresolved, ForgetHandle, At,
     CallNext, Return
<1>21. ASSUME NEW c \in Contexts, Abandoned(c) PROVE AttemptIdentity'
  BY <1>21 DEF Abandoned, At, Return, AbandonState, Relinquish
<1>22. ASSUME NEW c \in Contexts, Finished(c) PROVE AttemptIdentity'
  BY <1>22 DEF Finished, At, Return, Relinquish
<1>23. ASSUME WorldChange PROVE AttemptIdentity'
  BY <1>23 DEF WorldChange
<1>24. ASSUME UNCHANGED vars PROVE AttemptIdentity'
  BY <1>24 DEF vars
<1> QED
  BY <1>1, <1>2, <1>3, <1>4, <1>5, <1>6, <1>7, <1>8, <1>9, <1>10, <1>11,
     <1>12, <1>13, <1>14, <1>15, <1>16, <1>17, <1>18, <1>19, <1>20, <1>21,
     <1>22, <1>23, <1>24 DEF Next, Call, CallbackReturn

LEMMA NextOwnership ==
    TypeOK /\ PhaseAtCallback /\ ScreenOwnership /\ [Next]_vars =>
        ScreenOwnership'
<1> SUFFICES ASSUME TypeOK, PhaseAtCallback, ScreenOwnership, [Next]_vars
      PROVE ScreenOwnership'
  OBVIOUS
<1> USE ConstantAssumption DEF TypeOK, ControlType, PhaseAtCallback,
      ScreenOwnership, Live, Entered, Open, Beginning, Ending, threadVars,
      planVars, choiceVars, screenVars
<1>1. ASSUME NEW t \in Threads, CreateLoad(t) PROVE ScreenOwnership'
  BY <1>1 DEF CreateLoad
<1>2. ASSUME NEW t \in Threads, NEW c \in Contexts, CreateBind(t, c) PROVE
      ScreenOwnership'
  BY <1>2 DEF CreateBind, WinsBind
<1>3. ASSUME NEW c \in Contexts, NEW ledger \in 0..MaxRevision, Begin(c,
      ledger) PROVE ScreenOwnership'
  BY <1>3 DEF Begin, ScreenFree, Exhausted, NextSequence, Enter
<1>4. ASSUME NEW c \in Contexts, Choose(c) PROVE ScreenOwnership'
  BY <1>4 DEF Choose, Enter
<1>5. ASSUME NEW c \in Contexts, GetPreview(c) PROVE ScreenOwnership'
  BY <1>5 DEF GetPreview, Enter
<1>6. ASSUME NEW c \in Contexts, Commit(c) PROVE ScreenOwnership'
  BY <1>6 DEF Commit, Enter
<1>7. ASSUME NEW c \in Contexts, Cancel(c) PROVE ScreenOwnership'
  BY <1>7 DEF Cancel, Enter, ForgetHandle
<1>8. ASSUME NEW c \in Contexts, Resolve(c) PROVE ScreenOwnership'
  BY <1>8 DEF Resolve, Enter
<1>9. ASSUME NEW c \in Contexts, Reset(c) PROVE ScreenOwnership'
  BY <1>9 DEF Reset
<1>10. ASSUME NEW c \in Contexts, Destroy(c) PROVE ScreenOwnership'
  BY <1>10 DEF Destroy
<1>11. ASSUME NEW c \in Contexts, BeginCaptured(c) PROVE ScreenOwnership'
  BY <1>11 DEF BeginCaptured, At, CallNext, Return, AbandonState, Relinquish
<1>12. ASSUME NEW c \in Contexts, BeginPrepared(c) PROVE ScreenOwnership'
  BY <1>12 DEF BeginPrepared, At, CallNext, Return, AbandonState, Relinquish
<1>13. ASSUME NEW c \in Contexts, BeginInspected(c) PROVE ScreenOwnership'
  BY <1>13 DEF BeginInspected, ForgetHandle, At, CallNext, Return
<1>14. ASSUME NEW c \in Contexts, ChooseReturned(c) PROVE ScreenOwnership'
  BY <1>14 DEF ChooseReturned, At, CallNext, Return
<1>15. ASSUME NEW c \in Contexts, ChooseInspected(c) PROVE ScreenOwnership'
  BY <1>15 DEF ChooseInspected, At, Return
<1>16. ASSUME NEW c \in Contexts, PreviewInspected(c) PROVE ScreenOwnership'
  BY <1>16 DEF PreviewInspected, At, Return
<1>17. ASSUME NEW c \in Contexts, CommitInspected(c) PROVE ScreenOwnership'
  BY <1>17 DEF CommitInspected, At, CallNext, Return
<1>18. ASSUME NEW c \in Contexts, CommitCaptured(c) PROVE ScreenOwnership'
  BY <1>18 DEF CommitCaptured, At, CallNext, Return
<1>19. ASSUME NEW c \in Contexts, CommitReturned(c) PROVE ScreenOwnership'
  BY <1>19 DEF CommitReturned, StartFinish, Unresolved, ForgetHandle, At,
     CallNext, Return
<1>20. ASSUME NEW c \in Contexts, ResolveReturned(c) PROVE ScreenOwnership'
  BY <1>20 DEF ResolveReturned, StartFinish, Unresolved, ForgetHandle, At,
     CallNext, Return
<1>21. ASSUME NEW c \in Contexts, Abandoned(c) PROVE ScreenOwnership'
  BY <1>21 DEF Abandoned, At, Return, AbandonState, Relinquish
<1>22. ASSUME NEW c \in Contexts, Finished(c) PROVE ScreenOwnership'
  BY <1>22 DEF Finished, At, Return, Relinquish
<1>23. ASSUME WorldChange PROVE ScreenOwnership'
  BY <1>23 DEF WorldChange
<1>24. ASSUME UNCHANGED vars PROVE ScreenOwnership'
  BY <1>24 DEF vars
<1> QED
  BY <1>1, <1>2, <1>3, <1>4, <1>5, <1>6, <1>7, <1>8, <1>9, <1>10, <1>11,
     <1>12, <1>13, <1>14, <1>15, <1>16, <1>17, <1>18, <1>19, <1>20, <1>21,
     <1>22, <1>23, <1>24 DEF Next, Call, CallbackReturn

LEMMA NextScreenInv == ScreenInv /\ [Next]_vars => ScreenInv'
BY NextControlType, NextAttemptType, NextAdapterType, NextPhase, NextIdentity,
   NextOwnership DEF ScreenInv, TypeOK

\* The coordinator keeps its types, for any number of contexts and threads.
THEOREM TypeCorrect == Spec => []TypeOK
<1>1. ScreenInv => TypeOK
  BY DEF ScreenInv
<1> QED
  BY <1>1, InitScreenInv, NextScreenInv, PTL DEF Spec

\* The manual screen always belongs to exactly the context with an open attempt.
THEOREM ScreenOwned == Spec => []ScreenOwnership
<1>1. ScreenInv => ScreenOwnership
  BY DEF ScreenInv
<1> QED
  BY <1>1, InitScreenInv, NextScreenInv, PTL DEF Spec
-----------------------------------------------------------------------------
(* Outcomes.  The identity of a transaction is never issued twice, and each *)
(* applied request lies in the past of the ledger.                          *)

AppliedIsPast ==
    \A x \in applied : x.id < sequence /\ x.ledger < world.ledger

OwnerIsPast == \A c \in Contexts : screen_owner = c => transaction[c] < sequence

\* An attempt whose commit has not been entered, or that is given up.
Undecided(c) ==
    Beginning(c) \/ phase[c] = "CHOOSING" \/ pc[c] \in {"commit", "abandon"}

UndecidedIsNotApplied ==
    \A c \in Contexts : Undecided(c) => transaction[c] \notin AppliedIds

\* From capture on, the snapshot is the one the request names.
SnapshotIsRequested ==
    \A c \in Contexts :
        Open(c) \/ pc[c] = "begin_prepare" => before[c].ledger = request[c]

OutcomeInv ==
    /\ ScreenInv
    /\ AppliedIsPast
    /\ OwnerIsPast
    /\ UndecidedIsNotApplied
    /\ SnapshotIsRequested
    /\ CommittedIsApplied
    /\ AppliedOnce

\* Only commit adds to what is applied, and it adds its own transaction.
LEMMA CommitAdds ==
    ASSUME ScreenInv, SnapshotIsRequested, NEW c \in Contexts, At(c, "commit"),
           AdapterCommit(c)
    PROVE  \E x \in Commits :
              /\ applied' = applied \cup {x}
              /\ x.id = transaction[c]
              /\ x.ledger = world.ledger
              /\ world'.ledger = world.ledger + 1
<1>1. handle[c] # 0 /\ before[c].ledger = request[c] /\ screen_owner = c
  BY DEF ScreenInv, At, PhaseAtCallback, AttemptIdentity, Open, SnapshotIsRequested,
         ScreenOwnership, Live, TypeOK, ControlType
<1>2. detached[handle[c]].choice \in Nat /\ detached[handle[c]].pending \in BOOLEAN
  BY <1>1, ConstantAssumption DEF ScreenInv, TypeOK, AttemptType, AdapterType, Objects
<1> DEFINE x == [id |-> transaction[c], ledger |-> request[c],
                 choice |-> detached[handle[c]].choice, shown |-> shown[c],
                 pending |-> detached[handle[c]].pending]
<1>3. x \in Commits
  BY <1>2, ConstantAssumption DEF ScreenInv, TypeOK, AttemptType, Commits
<1>4. request[c] = world.ledger
  BY <1>1 DEF AdapterCommit
<1> QED
  BY <1>3, <1>4 DEF AdapterCommit

LEMMA NextAppliedIsPast ==
    ScreenInv /\ SnapshotIsRequested /\ AppliedIsPast /\ OwnerIsPast /\
        [Next]_vars => AppliedIsPast'
<1> SUFFICES ASSUME ScreenInv, SnapshotIsRequested, AppliedIsPast,
      OwnerIsPast, [Next]_vars PROVE AppliedIsPast'
  OBVIOUS
<1> USE ConstantAssumption DEF ScreenInv, TypeOK, AttemptType, AdapterType,
      Snapshots, Commits, AppliedIsPast, threadVars, planVars, choiceVars,
      screenVars
<1>1. ASSUME NEW t \in Threads, CreateLoad(t) PROVE AppliedIsPast'
  BY <1>1 DEF CreateLoad
<1>2. ASSUME NEW t \in Threads, NEW c \in Contexts, CreateBind(t, c) PROVE
      AppliedIsPast'
  BY <1>2 DEF CreateBind
<1>3. ASSUME NEW c \in Contexts, NEW ledger \in 0..MaxRevision, Begin(c,
      ledger) PROVE AppliedIsPast'
  BY <1>3 DEF Begin, Exhausted, NextSequence
<1>4. ASSUME NEW c \in Contexts, Choose(c) PROVE AppliedIsPast'
  BY <1>4 DEF Choose
<1>5. ASSUME NEW c \in Contexts, GetPreview(c) PROVE AppliedIsPast'
  BY <1>5 DEF GetPreview
<1>6. ASSUME NEW c \in Contexts, Commit(c) PROVE AppliedIsPast'
  BY <1>6 DEF Commit
<1>7. ASSUME NEW c \in Contexts, Cancel(c) PROVE AppliedIsPast'
  BY <1>7 DEF Cancel
<1>8. ASSUME NEW c \in Contexts, Resolve(c) PROVE AppliedIsPast'
  BY <1>8 DEF Resolve
<1>9. ASSUME NEW c \in Contexts, Reset(c) PROVE AppliedIsPast'
  BY <1>9 DEF Reset
<1>10. ASSUME NEW c \in Contexts, Destroy(c) PROVE AppliedIsPast'
  BY <1>10 DEF Destroy
<1>11. ASSUME NEW c \in Contexts, BeginCaptured(c) PROVE AppliedIsPast'
  BY <1>11 DEF BeginCaptured
<1>12. ASSUME NEW c \in Contexts, BeginPrepared(c) PROVE AppliedIsPast'
  BY <1>12 DEF BeginPrepared
<1>13. ASSUME NEW c \in Contexts, BeginInspected(c) PROVE AppliedIsPast'
  BY <1>13 DEF BeginInspected
<1>14. ASSUME NEW c \in Contexts, ChooseReturned(c) PROVE AppliedIsPast'
  BY <1>14 DEF ChooseReturned
<1>15. ASSUME NEW c \in Contexts, ChooseInspected(c) PROVE AppliedIsPast'
  BY <1>15 DEF ChooseInspected
<1>16. ASSUME NEW c \in Contexts, PreviewInspected(c) PROVE AppliedIsPast'
  BY <1>16 DEF PreviewInspected
<1>17. ASSUME NEW c \in Contexts, CommitInspected(c) PROVE AppliedIsPast'
  BY <1>17 DEF CommitInspected
<1>18. ASSUME NEW c \in Contexts, CommitCaptured(c) PROVE AppliedIsPast'
  BY <1>18 DEF CommitCaptured
<1>19. ASSUME NEW c \in Contexts, CommitReturned(c) PROVE AppliedIsPast'
  <2>1. CASE ~AdapterCommit(c)
    BY <1>19, <2>1 DEF CommitReturned
  <2>2. CASE AdapterCommit(c)
    <3>1. PICK x \in Commits : /\ applied' = applied \cup {x}
                               /\ x.id = transaction[c]
                               /\ x.ledger = world.ledger
                               /\ world'.ledger = world.ledger + 1
      BY <1>19, <2>2, CommitAdds DEF CommitReturned
    <3>2. screen_owner = c
      BY <1>19 DEF CommitReturned, At, PhaseAtCallback, ScreenOwnership, Live,
         Open, ControlType
    <3> QED
      BY <1>19, <3>1, <3>2 DEF CommitReturned, OwnerIsPast
  <2> QED
    BY <1>19, <2>1, <2>2 DEF CommitReturned
<1>20. ASSUME NEW c \in Contexts, ResolveReturned(c) PROVE AppliedIsPast'
  BY <1>20 DEF ResolveReturned
<1>21. ASSUME NEW c \in Contexts, Abandoned(c) PROVE AppliedIsPast'
  BY <1>21 DEF Abandoned
<1>22. ASSUME NEW c \in Contexts, Finished(c) PROVE AppliedIsPast'
  BY <1>22 DEF Finished
<1>23. ASSUME WorldChange PROVE AppliedIsPast'
  BY <1>23 DEF WorldChange
<1>24. ASSUME UNCHANGED vars PROVE AppliedIsPast'
  BY <1>24 DEF vars
<1> QED
  BY <1>1, <1>2, <1>3, <1>4, <1>5, <1>6, <1>7, <1>8, <1>9, <1>10, <1>11,
     <1>12, <1>13, <1>14, <1>15, <1>16, <1>17, <1>18, <1>19, <1>20, <1>21,
     <1>22, <1>23, <1>24 DEF Next, Call, CallbackReturn

LEMMA NextOwnerIsPast ==
    ScreenInv /\ OwnerIsPast /\ [Next]_vars => OwnerIsPast'
<1> SUFFICES ASSUME ScreenInv, OwnerIsPast, [Next]_vars PROVE OwnerIsPast'
  OBVIOUS
<1> USE ConstantAssumption DEF ScreenInv, TypeOK, ControlType, AttemptType,
      OwnerIsPast, threadVars, planVars, choiceVars, screenVars
<1>1. ASSUME NEW t \in Threads, CreateLoad(t) PROVE OwnerIsPast'
  BY <1>1 DEF CreateLoad
<1>2. ASSUME NEW t \in Threads, NEW c \in Contexts, CreateBind(t, c) PROVE
      OwnerIsPast'
  BY <1>2 DEF CreateBind, WinsBind
<1>3. ASSUME NEW c \in Contexts, NEW ledger \in 0..MaxRevision, Begin(c,
      ledger) PROVE OwnerIsPast'
  BY <1>3 DEF Begin, ScreenFree, Exhausted, NextSequence, Enter
<1>4. ASSUME NEW c \in Contexts, Choose(c) PROVE OwnerIsPast'
  BY <1>4 DEF Choose, Enter
<1>5. ASSUME NEW c \in Contexts, GetPreview(c) PROVE OwnerIsPast'
  BY <1>5 DEF GetPreview, Enter
<1>6. ASSUME NEW c \in Contexts, Commit(c) PROVE OwnerIsPast'
  BY <1>6 DEF Commit, Enter
<1>7. ASSUME NEW c \in Contexts, Cancel(c) PROVE OwnerIsPast'
  BY <1>7 DEF Cancel, Enter, ForgetHandle
<1>8. ASSUME NEW c \in Contexts, Resolve(c) PROVE OwnerIsPast'
  BY <1>8 DEF Resolve, Enter
<1>9. ASSUME NEW c \in Contexts, Reset(c) PROVE OwnerIsPast'
  BY <1>9 DEF Reset
<1>10. ASSUME NEW c \in Contexts, Destroy(c) PROVE OwnerIsPast'
  BY <1>10 DEF Destroy
<1>11. ASSUME NEW c \in Contexts, BeginCaptured(c) PROVE OwnerIsPast'
  BY <1>11 DEF BeginCaptured, At, CallNext, Return, AbandonState, Relinquish
<1>12. ASSUME NEW c \in Contexts, BeginPrepared(c) PROVE OwnerIsPast'
  BY <1>12 DEF BeginPrepared, At, CallNext, Return, AbandonState, Relinquish
<1>13. ASSUME NEW c \in Contexts, BeginInspected(c) PROVE OwnerIsPast'
  BY <1>13 DEF BeginInspected, ForgetHandle, At, CallNext, Return
<1>14. ASSUME NEW c \in Contexts, ChooseReturned(c) PROVE OwnerIsPast'
  BY <1>14 DEF ChooseReturned, At, CallNext, Return
<1>15. ASSUME NEW c \in Contexts, ChooseInspected(c) PROVE OwnerIsPast'
  BY <1>15 DEF ChooseInspected, At, Return
<1>16. ASSUME NEW c \in Contexts, PreviewInspected(c) PROVE OwnerIsPast'
  BY <1>16 DEF PreviewInspected, At, Return
<1>17. ASSUME NEW c \in Contexts, CommitInspected(c) PROVE OwnerIsPast'
  BY <1>17 DEF CommitInspected, At, CallNext, Return
<1>18. ASSUME NEW c \in Contexts, CommitCaptured(c) PROVE OwnerIsPast'
  BY <1>18 DEF CommitCaptured, At, CallNext, Return
<1>19. ASSUME NEW c \in Contexts, CommitReturned(c) PROVE OwnerIsPast'
  BY <1>19 DEF CommitReturned, StartFinish, Unresolved, ForgetHandle, At,
     CallNext, Return
<1>20. ASSUME NEW c \in Contexts, ResolveReturned(c) PROVE OwnerIsPast'
  BY <1>20 DEF ResolveReturned, StartFinish, Unresolved, ForgetHandle, At,
     CallNext, Return
<1>21. ASSUME NEW c \in Contexts, Abandoned(c) PROVE OwnerIsPast'
  BY <1>21 DEF Abandoned, At, Return, AbandonState, Relinquish
<1>22. ASSUME NEW c \in Contexts, Finished(c) PROVE OwnerIsPast'
  BY <1>22 DEF Finished, At, Return, Relinquish
<1>23. ASSUME WorldChange PROVE OwnerIsPast'
  BY <1>23 DEF WorldChange
<1>24. ASSUME UNCHANGED vars PROVE OwnerIsPast'
  BY <1>24 DEF vars
<1> QED
  BY <1>1, <1>2, <1>3, <1>4, <1>5, <1>6, <1>7, <1>8, <1>9, <1>10, <1>11,
     <1>12, <1>13, <1>14, <1>15, <1>16, <1>17, <1>18, <1>19, <1>20, <1>21,
     <1>22, <1>23, <1>24 DEF Next, Call, CallbackReturn

LEMMA NextUndecided ==
    ScreenInv /\ SnapshotIsRequested /\ AppliedIsPast /\ UndecidedIsNotApplied
        /\ [Next]_vars => UndecidedIsNotApplied'
<1> SUFFICES ASSUME ScreenInv, SnapshotIsRequested, AppliedIsPast,
      UndecidedIsNotApplied, [Next]_vars PROVE UndecidedIsNotApplied'
  OBVIOUS
<1> USE ConstantAssumption DEF TypeOK, ControlType, AttemptType,
      PhaseAtCallback, ScreenOwnership, Live, Entered, Open, Beginning,
      Ending, ScreenInv, Undecided, UndecidedIsNotApplied, AppliedIds,
      threadVars, planVars, choiceVars, screenVars
<1>1. ASSUME NEW t \in Threads, CreateLoad(t) PROVE UndecidedIsNotApplied'
  BY <1>1 DEF CreateLoad
<1>2. ASSUME NEW t \in Threads, NEW c \in Contexts, CreateBind(t, c) PROVE
      UndecidedIsNotApplied'
  BY <1>2 DEF CreateBind, WinsBind
<1>3. ASSUME NEW c \in Contexts, NEW ledger \in 0..MaxRevision, Begin(c,
      ledger) PROVE UndecidedIsNotApplied'
  <2>1. sequence \notin AppliedIds
    BY DEF AppliedIsPast, AdapterType, Commits
  <2> QED
    BY <1>3, <2>1 DEF Begin, ScreenFree, Exhausted, NextSequence, Enter
<1>4. ASSUME NEW c \in Contexts, Choose(c) PROVE UndecidedIsNotApplied'
  BY <1>4 DEF Choose, Enter
<1>5. ASSUME NEW c \in Contexts, GetPreview(c) PROVE UndecidedIsNotApplied'
  BY <1>5 DEF GetPreview, Enter
<1>6. ASSUME NEW c \in Contexts, Commit(c) PROVE UndecidedIsNotApplied'
  BY <1>6 DEF Commit, Enter
<1>7. ASSUME NEW c \in Contexts, Cancel(c) PROVE UndecidedIsNotApplied'
  BY <1>7 DEF Cancel, Enter, ForgetHandle
<1>8. ASSUME NEW c \in Contexts, Resolve(c) PROVE UndecidedIsNotApplied'
  BY <1>8 DEF Resolve, Enter
<1>9. ASSUME NEW c \in Contexts, Reset(c) PROVE UndecidedIsNotApplied'
  BY <1>9 DEF Reset
<1>10. ASSUME NEW c \in Contexts, Destroy(c) PROVE UndecidedIsNotApplied'
  BY <1>10 DEF Destroy
<1>11. ASSUME NEW c \in Contexts, BeginCaptured(c) PROVE
      UndecidedIsNotApplied'
  BY <1>11 DEF BeginCaptured, At, CallNext, Return, AbandonState, Relinquish
<1>12. ASSUME NEW c \in Contexts, BeginPrepared(c) PROVE
      UndecidedIsNotApplied'
  BY <1>12 DEF BeginPrepared, At, CallNext, Return, AbandonState, Relinquish
<1>13. ASSUME NEW c \in Contexts, BeginInspected(c) PROVE
      UndecidedIsNotApplied'
  BY <1>13 DEF BeginInspected, ForgetHandle, At, CallNext, Return
<1>14. ASSUME NEW c \in Contexts, ChooseReturned(c) PROVE
      UndecidedIsNotApplied'
  BY <1>14 DEF ChooseReturned, At, CallNext, Return
<1>15. ASSUME NEW c \in Contexts, ChooseInspected(c) PROVE
      UndecidedIsNotApplied'
  BY <1>15 DEF ChooseInspected, At, Return
<1>16. ASSUME NEW c \in Contexts, PreviewInspected(c) PROVE
      UndecidedIsNotApplied'
  BY <1>16 DEF PreviewInspected, At, Return
<1>17. ASSUME NEW c \in Contexts, CommitInspected(c) PROVE
      UndecidedIsNotApplied'
  BY <1>17 DEF CommitInspected, At, CallNext, Return
<1>18. ASSUME NEW c \in Contexts, CommitCaptured(c) PROVE
      UndecidedIsNotApplied'
  BY <1>18 DEF CommitCaptured, At, CallNext, Return
<1>19. ASSUME NEW c \in Contexts, CommitReturned(c) PROVE
      UndecidedIsNotApplied'
  <2>1. CASE ~AdapterCommit(c)
    BY <1>19, <2>1 DEF CommitReturned, StartFinish, Unresolved, ForgetHandle, At,
       CallNext, Return
  <2>2. CASE AdapterCommit(c)
    <3>1. PICK x \in Commits : /\ applied' = applied \cup {x}
                               /\ x.id = transaction[c]
                               /\ x.ledger = world.ledger
                               /\ world'.ledger = world.ledger + 1
      BY <1>19, <2>2, CommitAdds DEF CommitReturned
    <3> QED
      BY <1>19, <3>1 DEF CommitReturned, StartFinish, Unresolved, ForgetHandle, At,
         CallNext, Return
  <2> QED
    BY <1>19, <2>1, <2>2 DEF CommitReturned
<1>20. ASSUME NEW c \in Contexts, ResolveReturned(c) PROVE
      UndecidedIsNotApplied'
  BY <1>20 DEF ResolveReturned, StartFinish, Unresolved, ForgetHandle, At,
     CallNext, Return
<1>21. ASSUME NEW c \in Contexts, Abandoned(c) PROVE UndecidedIsNotApplied'
  BY <1>21 DEF Abandoned, At, Return, AbandonState, Relinquish
<1>22. ASSUME NEW c \in Contexts, Finished(c) PROVE UndecidedIsNotApplied'
  BY <1>22 DEF Finished, At, Return, Relinquish
<1>23. ASSUME WorldChange PROVE UndecidedIsNotApplied'
  BY <1>23 DEF WorldChange
<1>24. ASSUME UNCHANGED vars PROVE UndecidedIsNotApplied'
  BY <1>24 DEF vars
<1> QED
  BY <1>1, <1>2, <1>3, <1>4, <1>5, <1>6, <1>7, <1>8, <1>9, <1>10, <1>11,
     <1>12, <1>13, <1>14, <1>15, <1>16, <1>17, <1>18, <1>19, <1>20, <1>21,
     <1>22, <1>23, <1>24 DEF Next, Call, CallbackReturn

LEMMA NextSnapshotIsRequested ==
    ScreenInv /\ SnapshotIsRequested /\ [Next]_vars => SnapshotIsRequested'
<1> SUFFICES ASSUME ScreenInv, SnapshotIsRequested, [Next]_vars PROVE
      SnapshotIsRequested'
  OBVIOUS
<1> USE ConstantAssumption DEF TypeOK, ControlType, AttemptType,
      PhaseAtCallback, ScreenOwnership, Live, Entered, Open, Beginning,
      Ending, ScreenInv, SnapshotIsRequested, threadVars, planVars,
      choiceVars, screenVars
<1>1. ASSUME NEW t \in Threads, CreateLoad(t) PROVE SnapshotIsRequested'
  BY <1>1 DEF CreateLoad
<1>2. ASSUME NEW t \in Threads, NEW c \in Contexts, CreateBind(t, c) PROVE
      SnapshotIsRequested'
  BY <1>2 DEF CreateBind, WinsBind
<1>3. ASSUME NEW c \in Contexts, NEW ledger \in 0..MaxRevision, Begin(c,
      ledger) PROVE SnapshotIsRequested'
  BY <1>3 DEF Begin, ScreenFree, Exhausted, NextSequence, Enter
<1>4. ASSUME NEW c \in Contexts, Choose(c) PROVE SnapshotIsRequested'
  BY <1>4 DEF Choose, Enter
<1>5. ASSUME NEW c \in Contexts, GetPreview(c) PROVE SnapshotIsRequested'
  BY <1>5 DEF GetPreview, Enter
<1>6. ASSUME NEW c \in Contexts, Commit(c) PROVE SnapshotIsRequested'
  BY <1>6 DEF Commit, Enter
<1>7. ASSUME NEW c \in Contexts, Cancel(c) PROVE SnapshotIsRequested'
  BY <1>7 DEF Cancel, Enter, ForgetHandle
<1>8. ASSUME NEW c \in Contexts, Resolve(c) PROVE SnapshotIsRequested'
  BY <1>8 DEF Resolve, Enter
<1>9. ASSUME NEW c \in Contexts, Reset(c) PROVE SnapshotIsRequested'
  BY <1>9 DEF Reset
<1>10. ASSUME NEW c \in Contexts, Destroy(c) PROVE SnapshotIsRequested'
  BY <1>10 DEF Destroy
<1>11. ASSUME NEW c \in Contexts, BeginCaptured(c) PROVE SnapshotIsRequested'
  BY <1>11 DEF BeginCaptured, Requested, At, CallNext, Return, AbandonState, Relinquish
<1>12. ASSUME NEW c \in Contexts, BeginPrepared(c) PROVE SnapshotIsRequested'
  BY <1>12 DEF BeginPrepared, At, CallNext, Return, AbandonState, Relinquish
<1>13. ASSUME NEW c \in Contexts, BeginInspected(c) PROVE SnapshotIsRequested'
  BY <1>13 DEF BeginInspected, ForgetHandle, At, CallNext, Return
<1>14. ASSUME NEW c \in Contexts, ChooseReturned(c) PROVE SnapshotIsRequested'
  BY <1>14 DEF ChooseReturned, At, CallNext, Return
<1>15. ASSUME NEW c \in Contexts, ChooseInspected(c) PROVE
      SnapshotIsRequested'
  BY <1>15 DEF ChooseInspected, At, Return
<1>16. ASSUME NEW c \in Contexts, PreviewInspected(c) PROVE
      SnapshotIsRequested'
  BY <1>16 DEF PreviewInspected, At, Return
<1>17. ASSUME NEW c \in Contexts, CommitInspected(c) PROVE
      SnapshotIsRequested'
  BY <1>17 DEF CommitInspected, At, CallNext, Return
<1>18. ASSUME NEW c \in Contexts, CommitCaptured(c) PROVE SnapshotIsRequested'
  BY <1>18 DEF CommitCaptured, At, CallNext, Return
<1>19. ASSUME NEW c \in Contexts, CommitReturned(c) PROVE SnapshotIsRequested'
  BY <1>19 DEF CommitReturned, StartFinish, Unresolved, ForgetHandle, At,
     CallNext, Return
<1>20. ASSUME NEW c \in Contexts, ResolveReturned(c) PROVE
      SnapshotIsRequested'
  BY <1>20 DEF ResolveReturned, StartFinish, Unresolved, ForgetHandle, At,
     CallNext, Return
<1>21. ASSUME NEW c \in Contexts, Abandoned(c) PROVE SnapshotIsRequested'
  BY <1>21 DEF Abandoned, At, Return, AbandonState, Relinquish
<1>22. ASSUME NEW c \in Contexts, Finished(c) PROVE SnapshotIsRequested'
  BY <1>22 DEF Finished, At, Return, Relinquish
<1>23. ASSUME WorldChange PROVE SnapshotIsRequested'
  BY <1>23 DEF WorldChange
<1>24. ASSUME UNCHANGED vars PROVE SnapshotIsRequested'
  BY <1>24 DEF vars
<1> QED
  BY <1>1, <1>2, <1>3, <1>4, <1>5, <1>6, <1>7, <1>8, <1>9, <1>10, <1>11,
     <1>12, <1>13, <1>14, <1>15, <1>16, <1>17, <1>18, <1>19, <1>20, <1>21,
     <1>22, <1>23, <1>24 DEF Next, Call, CallbackReturn

LEMMA NextCommitted ==
    ScreenInv /\ SnapshotIsRequested /\ CommittedIsApplied /\ [Next]_vars =>
        CommittedIsApplied'
<1> SUFFICES ASSUME ScreenInv, SnapshotIsRequested, CommittedIsApplied,
      [Next]_vars PROVE CommittedIsApplied'
  OBVIOUS
<1> USE ConstantAssumption DEF TypeOK, ControlType, AttemptType,
      PhaseAtCallback, ScreenOwnership, Live, Entered, Open, Beginning,
      Ending, ScreenInv, CommittedIsApplied, AppliedIds, threadVars, planVars,
      choiceVars, screenVars
<1>1. ASSUME NEW t \in Threads, CreateLoad(t) PROVE CommittedIsApplied'
  BY <1>1 DEF CreateLoad
<1>2. ASSUME NEW t \in Threads, NEW c \in Contexts, CreateBind(t, c) PROVE
      CommittedIsApplied'
  BY <1>2 DEF CreateBind, WinsBind
<1>3. ASSUME NEW c \in Contexts, NEW ledger \in 0..MaxRevision, Begin(c,
      ledger) PROVE CommittedIsApplied'
  BY <1>3 DEF Begin, ScreenFree, Exhausted, NextSequence, Enter
<1>4. ASSUME NEW c \in Contexts, Choose(c) PROVE CommittedIsApplied'
  BY <1>4 DEF Choose, Enter
<1>5. ASSUME NEW c \in Contexts, GetPreview(c) PROVE CommittedIsApplied'
  BY <1>5 DEF GetPreview, Enter
<1>6. ASSUME NEW c \in Contexts, Commit(c) PROVE CommittedIsApplied'
  BY <1>6 DEF Commit, Enter
<1>7. ASSUME NEW c \in Contexts, Cancel(c) PROVE CommittedIsApplied'
  BY <1>7 DEF Cancel, Enter, ForgetHandle
<1>8. ASSUME NEW c \in Contexts, Resolve(c) PROVE CommittedIsApplied'
  BY <1>8 DEF Resolve, Enter
<1>9. ASSUME NEW c \in Contexts, Reset(c) PROVE CommittedIsApplied'
  BY <1>9 DEF Reset
<1>10. ASSUME NEW c \in Contexts, Destroy(c) PROVE CommittedIsApplied'
  BY <1>10 DEF Destroy
<1>11. ASSUME NEW c \in Contexts, BeginCaptured(c) PROVE CommittedIsApplied'
  BY <1>11 DEF BeginCaptured, At, CallNext, Return, AbandonState, Relinquish
<1>12. ASSUME NEW c \in Contexts, BeginPrepared(c) PROVE CommittedIsApplied'
  BY <1>12 DEF BeginPrepared, At, CallNext, Return, AbandonState, Relinquish
<1>13. ASSUME NEW c \in Contexts, BeginInspected(c) PROVE CommittedIsApplied'
  BY <1>13 DEF BeginInspected, ForgetHandle, At, CallNext, Return
<1>14. ASSUME NEW c \in Contexts, ChooseReturned(c) PROVE CommittedIsApplied'
  BY <1>14 DEF ChooseReturned, At, CallNext, Return
<1>15. ASSUME NEW c \in Contexts, ChooseInspected(c) PROVE CommittedIsApplied'
  BY <1>15 DEF ChooseInspected, At, Return
<1>16. ASSUME NEW c \in Contexts, PreviewInspected(c) PROVE
      CommittedIsApplied'
  BY <1>16 DEF PreviewInspected, At, Return
<1>17. ASSUME NEW c \in Contexts, CommitInspected(c) PROVE CommittedIsApplied'
  BY <1>17 DEF CommitInspected, At, CallNext, Return
<1>18. ASSUME NEW c \in Contexts, CommitCaptured(c) PROVE CommittedIsApplied'
  BY <1>18 DEF CommitCaptured, At, CallNext, Return
<1>19. ASSUME NEW c \in Contexts, CommitReturned(c) PROVE CommittedIsApplied'
  <2>1. CASE ~AdapterCommit(c)
    BY <1>19, <2>1 DEF CommitReturned, StartFinish, Unresolved, ForgetHandle, At,
       CallNext, Return
  <2>2. CASE AdapterCommit(c)
    <3>1. PICK x \in Commits : /\ applied' = applied \cup {x}
                               /\ x.id = transaction[c]
                               /\ x.ledger = world.ledger
                               /\ world'.ledger = world.ledger + 1
      BY <1>19, <2>2, CommitAdds DEF CommitReturned
    <3> QED
      BY <1>19, <3>1 DEF CommitReturned, StartFinish, Unresolved, ForgetHandle, At,
         CallNext, Return
  <2> QED
    BY <1>19, <2>1, <2>2 DEF CommitReturned
<1>20. ASSUME NEW c \in Contexts, ResolveReturned(c) PROVE CommittedIsApplied'
  BY <1>20 DEF ResolveReturned, StartFinish, Unresolved, ForgetHandle, At,
     CallNext, Return
<1>21. ASSUME NEW c \in Contexts, Abandoned(c) PROVE CommittedIsApplied'
  BY <1>21 DEF Abandoned, At, Return, AbandonState, Relinquish
<1>22. ASSUME NEW c \in Contexts, Finished(c) PROVE CommittedIsApplied'
  BY <1>22 DEF Finished, At, Return, Relinquish
<1>23. ASSUME WorldChange PROVE CommittedIsApplied'
  BY <1>23 DEF WorldChange
<1>24. ASSUME UNCHANGED vars PROVE CommittedIsApplied'
  BY <1>24 DEF vars
<1> QED
  BY <1>1, <1>2, <1>3, <1>4, <1>5, <1>6, <1>7, <1>8, <1>9, <1>10, <1>11,
     <1>12, <1>13, <1>14, <1>15, <1>16, <1>17, <1>18, <1>19, <1>20, <1>21,
     <1>22, <1>23, <1>24 DEF Next, Call, CallbackReturn

LEMMA NextAppliedOnce ==
    ScreenInv /\ SnapshotIsRequested /\ AppliedIsPast /\ UndecidedIsNotApplied
        /\ AppliedOnce /\ [Next]_vars => AppliedOnce'
<1> SUFFICES ASSUME ScreenInv, SnapshotIsRequested, AppliedIsPast,
      UndecidedIsNotApplied, AppliedOnce, [Next]_vars PROVE AppliedOnce'
  OBVIOUS
<1> USE ConstantAssumption DEF AppliedOnce, threadVars, planVars, choiceVars,
      screenVars
<1>1. ASSUME NEW t \in Threads, CreateLoad(t) PROVE AppliedOnce'
  BY <1>1 DEF CreateLoad
<1>2. ASSUME NEW t \in Threads, NEW c \in Contexts, CreateBind(t, c) PROVE
      AppliedOnce'
  BY <1>2 DEF CreateBind
<1>3. ASSUME NEW c \in Contexts, NEW ledger \in 0..MaxRevision, Begin(c,
      ledger) PROVE AppliedOnce'
  BY <1>3 DEF Begin
<1>4. ASSUME NEW c \in Contexts, Choose(c) PROVE AppliedOnce'
  BY <1>4 DEF Choose
<1>5. ASSUME NEW c \in Contexts, GetPreview(c) PROVE AppliedOnce'
  BY <1>5 DEF GetPreview
<1>6. ASSUME NEW c \in Contexts, Commit(c) PROVE AppliedOnce'
  BY <1>6 DEF Commit
<1>7. ASSUME NEW c \in Contexts, Cancel(c) PROVE AppliedOnce'
  BY <1>7 DEF Cancel
<1>8. ASSUME NEW c \in Contexts, Resolve(c) PROVE AppliedOnce'
  BY <1>8 DEF Resolve
<1>9. ASSUME NEW c \in Contexts, Reset(c) PROVE AppliedOnce'
  BY <1>9 DEF Reset
<1>10. ASSUME NEW c \in Contexts, Destroy(c) PROVE AppliedOnce'
  BY <1>10 DEF Destroy
<1>11. ASSUME NEW c \in Contexts, BeginCaptured(c) PROVE AppliedOnce'
  BY <1>11 DEF BeginCaptured
<1>12. ASSUME NEW c \in Contexts, BeginPrepared(c) PROVE AppliedOnce'
  BY <1>12 DEF BeginPrepared
<1>13. ASSUME NEW c \in Contexts, BeginInspected(c) PROVE AppliedOnce'
  BY <1>13 DEF BeginInspected
<1>14. ASSUME NEW c \in Contexts, ChooseReturned(c) PROVE AppliedOnce'
  BY <1>14 DEF ChooseReturned
<1>15. ASSUME NEW c \in Contexts, ChooseInspected(c) PROVE AppliedOnce'
  BY <1>15 DEF ChooseInspected
<1>16. ASSUME NEW c \in Contexts, PreviewInspected(c) PROVE AppliedOnce'
  BY <1>16 DEF PreviewInspected
<1>17. ASSUME NEW c \in Contexts, CommitInspected(c) PROVE AppliedOnce'
  BY <1>17 DEF CommitInspected
<1>18. ASSUME NEW c \in Contexts, CommitCaptured(c) PROVE AppliedOnce'
  BY <1>18 DEF CommitCaptured
<1>19. ASSUME NEW c \in Contexts, CommitReturned(c) PROVE AppliedOnce'
  <2>1. CASE ~AdapterCommit(c)
    BY <1>19, <2>1 DEF CommitReturned
  <2>2. CASE AdapterCommit(c)
    <3>1. PICK x \in Commits : /\ applied' = applied \cup {x}
                               /\ x.id = transaction[c]
                               /\ x.ledger = world.ledger
                               /\ world'.ledger = world.ledger + 1
      BY <1>19, <2>2, CommitAdds DEF CommitReturned
    <3> QED
      BY <1>19, <3>1 DEF CommitReturned, At, UndecidedIsNotApplied, Undecided, AppliedIds,
         AppliedIsPast, ScreenInv, TypeOK, AdapterType, Snapshots, Commits
  <2> QED
    BY <1>19, <2>1, <2>2 DEF CommitReturned
<1>20. ASSUME NEW c \in Contexts, ResolveReturned(c) PROVE AppliedOnce'
  BY <1>20 DEF ResolveReturned
<1>21. ASSUME NEW c \in Contexts, Abandoned(c) PROVE AppliedOnce'
  BY <1>21 DEF Abandoned
<1>22. ASSUME NEW c \in Contexts, Finished(c) PROVE AppliedOnce'
  BY <1>22 DEF Finished
<1>23. ASSUME WorldChange PROVE AppliedOnce'
  BY <1>23 DEF WorldChange
<1>24. ASSUME UNCHANGED vars PROVE AppliedOnce'
  BY <1>24 DEF vars
<1> QED
  BY <1>1, <1>2, <1>3, <1>4, <1>5, <1>6, <1>7, <1>8, <1>9, <1>10, <1>11,
     <1>12, <1>13, <1>14, <1>15, <1>16, <1>17, <1>18, <1>19, <1>20, <1>21,
     <1>22, <1>23, <1>24 DEF Next, Call, CallbackReturn

LEMMA InitOutcomeInv == Init => OutcomeInv
<1> SUFFICES ASSUME Init PROVE OutcomeInv
  OBVIOUS
<1>1. ScreenInv
  BY InitScreenInv
<1> QED
  BY <1>1 DEF Init, OutcomeInv, AppliedIsPast, OwnerIsPast, UndecidedIsNotApplied,
              Undecided, Beginning, Open, AppliedIds, SnapshotIsRequested,
              CommittedIsApplied, AppliedOnce

LEMMA NextOutcomeInv == OutcomeInv /\ [Next]_vars => OutcomeInv'
BY NextScreenInv, NextAppliedIsPast, NextOwnerIsPast, NextUndecided,
   NextSnapshotIsRequested, NextCommitted, NextAppliedOnce DEF OutcomeInv

\* An attempt that is still being chosen or is given up was never applied, and
\* a COMMITTED context holds the receipt of an applied transaction: no step of
\* CBMD_Commit, CBMD_Resolve, CBMD_Cancel or CBMD_Destroy says otherwise.
THEOREM OutcomesRecorded == Spec => []OutcomeRecorded
<1>1. OutcomeInv => NothingAppliedIsDropped
  BY DEF OutcomeInv, UndecidedIsNotApplied, Undecided, NothingAppliedIsDropped
<1>2. OutcomeInv => CommittedIsApplied
  BY DEF OutcomeInv
<1>3. OutcomeInv => OutcomeRecorded
  BY <1>1, <1>2 DEF OutcomeRecorded
<1> QED
  BY <1>3, InitOutcomeInv, NextOutcomeInv, PTL DEF Spec

\* A request is applied at most once, under one identity.
THEOREM AppliedAtMostOnce == Spec => []AppliedOnce
<1>1. OutcomeInv => AppliedOnce
  BY DEF OutcomeInv
<1> QED
  BY <1>1, InitOutcomeInv, NextOutcomeInv, PTL DEF Spec
-----------------------------------------------------------------------------
(* The promise.  Status depends on what is applied, on the sequence and on   *)
(* the attempt that owns the screen, and few steps touch any of them.        *)

OpenId == IF screen_owner \in Contexts THEN transaction[screen_owner] ELSE 0

StatusOf(ids, next, open, t) ==
    IF t \in ids THEN "applied"
    ELSE IF t >= next THEN "fresh"
    ELSE IF t = open THEN "open" ELSE "dropped"

StatusMap == [t \in 1..(SeqMax - 1) |-> Status(t)]

LEMMA StatusBy ==
    ASSUME ScreenInv, NEW t \in 1..(SeqMax - 1)
    PROVE  Status(t) = StatusOf(AppliedIds, sequence, OpenId, t)
BY ConstantAssumption DEF Status, StatusOf, OpenId, ScreenInv, TypeOK, ControlType, AttemptType

LEMMA StatusByNext ==
    ASSUME ScreenInv', NEW t \in 1..(SeqMax - 1)
    PROVE  Status(t)' = StatusOf(AppliedIds', sequence', OpenId', t)
BY ConstantAssumption DEF Status, StatusOf, OpenId, ScreenInv, TypeOK, ControlType, AttemptType

LEMMA StatusKept ==
    ASSUME ScreenInv, ScreenInv', AppliedIds' = AppliedIds, sequence' = sequence,
           OpenId' = OpenId
    PROVE  StatusMap' = StatusMap
BY StatusBy, StatusByNext DEF StatusMap

\* Leaving the screen drops the attempt, unless it is applied.
LEMMA RelinquishDrops ==
    ASSUME OutcomeInv, ScreenInv', NEW c \in Contexts, Relinquish(c), screen_owner = c,
           applied' = applied, sequence' = sequence, transaction' = transaction
    PROVE  [Promise!Next]_StatusMap
<1> DEFINE s == transaction[c]
<1>1. s \in 0..SeqMax /\ s < sequence /\ sequence \in 1..SeqMax
  BY DEF OutcomeInv, OwnerIsPast, ScreenInv, TypeOK, AttemptType
<1>2. OpenId = s /\ OpenId' = 0 /\ AppliedIds' = AppliedIds
  BY ConstantAssumption DEF OpenId, Relinquish, AppliedIds
<1>3. CASE s = 0 \/ s \in AppliedIds
  <2>1. \A t \in 1..(SeqMax - 1) : Status(t)' = Status(t)
    BY <1>2, <1>3, StatusBy, StatusByNext DEF StatusOf, OutcomeInv
  <2> QED
    BY <2>1 DEF StatusMap
<1>4. CASE s # 0 /\ s \notin AppliedIds
  <2>1. s \in 1..(SeqMax - 1)
    BY <1>1, <1>4, ConstantAssumption
  <2>2. Status(s) = "open"
    BY <1>1, <1>2, <1>4, <2>1, StatusBy DEF StatusOf, OutcomeInv
  <2>3. \A t \in 1..(SeqMax - 1) : Status(t)' = IF t = s THEN "dropped" ELSE Status(t)
    BY <1>1, <1>2, <1>4, <2>1, StatusBy, StatusByNext DEF StatusOf, OutcomeInv
  <2>4. Promise!Drop(s)
    BY <2>1, <2>2, <2>3 DEF Promise!Drop
  <2> QED
    BY <2>1, <2>4 DEF Promise!Next
<1> QED
  BY <1>3, <1>4

\* The adapter's commit applies the attempt that owns the screen.
LEMMA CommitApplies ==
    ASSUME OutcomeInv, ScreenInv', NEW c \in Contexts, At(c, "commit"), AdapterCommit(c),
           screen_owner' = screen_owner, sequence' = sequence, transaction' = transaction
    PROVE  [Promise!Next]_StatusMap
<1> DEFINE s == transaction[c]
<1>1. screen_owner = c
  BY DEF OutcomeInv, ScreenInv, ScreenOwnership, PhaseAtCallback, At, Open, Live, TypeOK, ControlType
<1>2. s \in 0..SeqMax /\ s < sequence /\ sequence \in 1..SeqMax /\ s \notin AppliedIds
  BY <1>1 DEF OutcomeInv, OwnerIsPast, ScreenInv, TypeOK, AttemptType, At,
              UndecidedIsNotApplied, Undecided
<1>3. OpenId = s /\ OpenId' = s
  BY <1>1 DEF OpenId
<1>4. AppliedIds' = AppliedIds \cup {s}
  BY CommitAdds DEF AppliedIds, OutcomeInv
<1>5. CASE s = 0
  <2>1. \A t \in 1..(SeqMax - 1) : Status(t)' = Status(t)
    BY <1>3, <1>4, <1>5, StatusBy, StatusByNext DEF StatusOf, OutcomeInv
  <2> QED
    BY <2>1 DEF StatusMap
<1>6. CASE s # 0
  <2>1. s \in 1..(SeqMax - 1)
    BY <1>2, <1>6, ConstantAssumption
  <2>2. Status(s) = "open"
    BY <1>2, <1>3, <2>1, StatusBy DEF StatusOf, OutcomeInv
  <2>3. \A t \in 1..(SeqMax - 1) : Status(t)' = IF t = s THEN "applied" ELSE Status(t)
    BY <1>2, <1>3, <1>4, <2>1, StatusBy, StatusByNext DEF StatusOf, OutcomeInv
  <2>4. Promise!Apply(s)
    BY <2>1, <2>2, <2>3 DEF Promise!Apply
  <2> QED
    BY <2>1, <2>4 DEF Promise!Next
<1> QED
  BY <1>5, <1>6

\* CBMD_Begin opens the attempt it takes from the sequence.
LEMMA BeginOpens ==
    ASSUME OutcomeInv, ScreenInv', NEW c \in Contexts, NEW ledger \in 0..MaxRevision,
           Begin(c, ledger)
    PROVE  [Promise!Next]_StatusMap
<1>1. OpenId = 0 /\ AppliedIds' = AppliedIds
  BY ConstantAssumption DEF Begin, ScreenFree, OpenId, AppliedIds
<1>2. sequence \in 1..SeqMax
  BY DEF OutcomeInv, ScreenInv, TypeOK, AttemptType
<1>3. CASE Exhausted(sequence)
  <2>1. sequence' = sequence /\ OpenId' = 0
    BY <1>1, <1>2, <1>3, ConstantAssumption
       DEF Begin, ScreenFree, OpenId, NextSequence, Exhausted
  <2> QED
    BY <1>1, <2>1, StatusKept DEF OutcomeInv
<1>4. CASE ~Exhausted(sequence)
  <2>1. sequence \in 1..(SeqMax - 1) /\ sequence' = sequence + 1
    BY <1>2, <1>4, ConstantAssumption DEF Begin, NextSequence, Exhausted
  <2>2. OpenId' = sequence
    BY <1>4 DEF Begin, OpenId, OutcomeInv, ScreenInv, TypeOK, AttemptType
  <2>3. sequence \notin AppliedIds
    BY <1>2 DEF OutcomeInv, AppliedIsPast, AppliedIds, ScreenInv, TypeOK, AdapterType, Commits
  <2>4. Status(sequence) = "fresh" /\ \A t \in 1..(SeqMax - 1) : Status(t) # "open"
    BY <1>1, <2>1, <2>3, StatusBy DEF StatusOf, OutcomeInv
  <2>5. \A t \in 1..(SeqMax - 1) : Status(t)' = IF t = sequence THEN "open" ELSE Status(t)
    BY <1>1, <2>1, <2>2, <2>3, StatusBy, StatusByNext DEF StatusOf, OutcomeInv
  <2>6. Promise!Open(sequence)
    BY <2>1, <2>4, <2>5 DEF Promise!Open, Promise!NoneOpen
  <2> QED
    BY <2>1, <2>6 DEF Promise!Next
<1> QED
  BY <1>3, <1>4

LEMMA InitPromise == Init => Promise!Init
<1> SUFFICES ASSUME Init PROVE Promise!Init
  OBVIOUS
<1>1. \A t \in 1..(SeqMax - 1) : Status(t) = "fresh"
  BY ConstantAssumption DEF Init, Status, AppliedIds
<1> QED
  BY <1>1 DEF Promise!Init

LEMMA NextPromise == OutcomeInv /\ OutcomeInv' /\ [Next]_vars => [Promise!Next]_StatusMap
<1> SUFFICES ASSUME OutcomeInv, OutcomeInv', [Next]_vars PROVE [Promise!Next]_StatusMap
  OBVIOUS
<1> USE DEF threadVars, planVars, choiceVars, screenVars
<1>s. ScreenInv /\ ScreenInv'
  BY DEF OutcomeInv
\* Steps that leave the attempt, the screen and the sequence alone.
<1>q. ASSUME UNCHANGED <<applied, sequence, screen_owner, transaction>>
      PROVE  [Promise!Next]_StatusMap
  BY <1>q, <1>s, StatusKept DEF AppliedIds, OpenId
<1>1. ASSUME NEW t \in Threads, CreateLoad(t) PROVE [Promise!Next]_StatusMap
  BY <1>1, <1>q DEF CreateLoad
<1>2. ASSUME NEW t \in Threads, NEW c \in Contexts, CreateBind(t, c)
      PROVE  [Promise!Next]_StatusMap
  BY <1>2, <1>q DEF CreateBind
<1>3. ASSUME NEW c \in Contexts, NEW ledger \in 0..MaxRevision, Begin(c, ledger)
      PROVE  [Promise!Next]_StatusMap
  BY <1>3, <1>s, BeginOpens
<1>4. ASSUME NEW c \in Contexts, Choose(c) \/ GetPreview(c) \/ Commit(c) \/ Cancel(c)
                                 \/ Resolve(c) \/ Reset(c)
      PROVE  [Promise!Next]_StatusMap
  BY <1>4, <1>q DEF Choose, GetPreview, Commit, Cancel, Resolve, Reset
<1>5. ASSUME NEW c \in Contexts, Destroy(c) PROVE [Promise!Next]_StatusMap
  <2>1. screen_owner # c
    BY <1>5, <1>s DEF Destroy, ScreenInv, ScreenOwnership, Open, Beginning, Ending, Entered
  <2>2. UNCHANGED <<AppliedIds, sequence, OpenId>>
    BY <1>5, <1>s, <2>1 DEF Destroy, OpenId, AppliedIds, ScreenInv, TypeOK, AttemptType
  <2> QED
    BY <1>s, <2>2, StatusKept
<1>6. ASSUME NEW c \in Contexts, BeginCaptured(c) PROVE [Promise!Next]_StatusMap
  <2>1. screen_owner = c
    BY <1>6, <1>s DEF BeginCaptured, At, ScreenInv, ScreenOwnership, PhaseAtCallback,
                      Beginning
  <2> QED
    BY <1>6, <1>q, <1>s, <2>1, RelinquishDrops DEF BeginCaptured, AbandonState
<1>7. ASSUME NEW c \in Contexts, BeginPrepared(c) PROVE [Promise!Next]_StatusMap
  <2>1. screen_owner = c
    BY <1>7, <1>s DEF BeginPrepared, At, ScreenInv, ScreenOwnership, PhaseAtCallback,
                      Beginning
  <2> QED
    BY <1>7, <1>q, <1>s, <2>1, RelinquishDrops DEF BeginPrepared, AbandonState
<1>8. ASSUME NEW c \in Contexts,
             BeginInspected(c) \/ ChooseReturned(c) \/ ChooseInspected(c)
             \/ PreviewInspected(c) \/ CommitInspected(c) \/ CommitCaptured(c)
             \/ ResolveReturned(c)
      PROVE  [Promise!Next]_StatusMap
  BY <1>8, <1>q DEF BeginInspected, ChooseReturned, ChooseInspected, PreviewInspected,
                    CommitInspected, CommitCaptured, ResolveReturned
<1>9. ASSUME NEW c \in Contexts, CommitReturned(c) PROVE [Promise!Next]_StatusMap
  BY <1>9, <1>q, <1>s, CommitApplies DEF CommitReturned
<1>10. ASSUME NEW c \in Contexts, Abandoned(c) PROVE [Promise!Next]_StatusMap
  <2>1. screen_owner = c
    BY <1>10, <1>s DEF Abandoned, At, ScreenInv, ScreenOwnership, PhaseAtCallback, Ending
  <2> QED
    BY <1>10, <1>s, <2>1, RelinquishDrops DEF Abandoned, AbandonState
<1>11. ASSUME NEW c \in Contexts, Finished(c) PROVE [Promise!Next]_StatusMap
  <2>1. screen_owner = c
    BY <1>11, <1>s DEF Finished, At, ScreenInv, ScreenOwnership, PhaseAtCallback, Ending
  <2> QED
    BY <1>11, <1>s, <2>1, RelinquishDrops DEF Finished
<1>12. ASSUME WorldChange PROVE [Promise!Next]_StatusMap
  BY <1>12, <1>q DEF WorldChange
<1>13. ASSUME UNCHANGED vars PROVE [Promise!Next]_StatusMap
  BY <1>13, <1>q DEF vars
<1> QED
  BY <1>1, <1>2, <1>3, <1>4, <1>5, <1>6, <1>7, <1>8, <1>9, <1>10, <1>11, <1>12, <1>13
     DEF Next, Call, CallbackReturn

\* The coordinator implements ManualLevel: one attempt is open at a time, and it
\* ends applied or dropped, for good.
THEOREM PromiseKept == Spec => KeepsPromise
<1>1. OutcomeInv /\ OutcomeInv' /\ [Next]_vars
        => [Promise!Next]_[t \in 1..(SeqMax - 1) |-> Status(t)]
  BY NextPromise DEF StatusMap
<1> QED
  BY <1>1, InitPromise, InitOutcomeInv, NextOutcomeInv, PTL DEF Spec, KeepsPromise, Promise!Spec
-----------------------------------------------------------------------------
\* Whoever wins the compare-exchange of CBMD_Create, every context belongs to the
\* one pinned thread.
THEOREM OneThread == Spec => []OneEngineThread
<1> DEFINE Inv == TypeOK /\ OneEngineThread
<1>1. Init => OneEngineThread
  BY DEF Init, OneEngineThread, Live
<1>2. TypeOK /\ OneEngineThread /\ [Next]_vars => OneEngineThread'
  <2> SUFFICES ASSUME TypeOK, OneEngineThread, [Next]_vars PROVE OneEngineThread'
    OBVIOUS
  <2> USE ConstantAssumption DEF TypeOK, ControlType, OneEngineThread, Live, threadVars
  <2>1. CASE UNCHANGED <<engine_thread_key, owner_thread>>
    BY <2>1
  <2>2. ASSUME NEW t \in Threads, NEW c \in Contexts, CreateBind(t, c)
        PROVE  OneEngineThread'
    BY <2>2 DEF CreateBind, WinsBind
  <2>3. ASSUME NEW c \in Contexts, Destroy(c) PROVE OneEngineThread'
    BY <2>3 DEF Destroy
  <2> QED
    BY <2>1, <2>2, <2>3 DEF Next, vars, Call, CallbackReturn, CreateLoad, Begin, Choose,
       GetPreview, Commit, Cancel, Resolve, Reset, BeginCaptured, BeginPrepared,
       BeginInspected, ChooseReturned, ChooseInspected, PreviewInspected,
       CommitInspected, CommitCaptured, CommitReturned, ResolveReturned, Abandoned,
       Finished, WorldChange
<1> QED
  BY <1>1, <1>2, TypeCorrect, PTL DEF Spec
-----------------------------------------------------------------------------
(* Detached objects and reviewed choices.  An object exists from prepare to *)
(* its one discard, and only the context that owns the screen holds it.     *)

Existing(h) == h \in 1..SeqMax /\ detached[h].choice # 0 /\ detached[h].discards = 0

\* What each attempt has of its object: none before prepare, the handle while
\* it is open, and an object without a handle while discard runs.
ObjectOfAttempt ==
    \A c \in Contexts :
        /\ handle[c] # 0 => Open(c) /\ handle[c] = transaction[c] /\ Existing(handle[c])
        /\ Beginning(c) => ~Existing(transaction[c])
        /\ Ending(c) => handle[c] = 0 /\ Existing(transaction[c])
DiscardedOnce == \A h \in 1..SeqMax : detached[h].discards \in {0, 1}
NoneLeaked ==
    \A h \in 1..SeqMax : Existing(h) => \E c \in Contexts : screen_owner = c /\ transaction[c] = h

ObjectInv == ObjectOfAttempt /\ DiscardedOnce /\ NoneLeaked

\* The reviewed revision was shown, and from the inspection in CBMD_Commit on it
\* is the current one.
ReviewedIsShown ==
    \A c \in Contexts :
        /\ reviewed_choice[c] # 0 => shown[c] = reviewed_choice[c]
        /\ pc[c] \in {"commit_capture", "commit"} => Committable(c)

ReviewInv == ReviewedIsShown /\ CommitIsReviewed

Attempting(c) == Open(c) \/ Beginning(c) \/ Ending(c)

LEMMA OneAttempt ==
    ASSUME ScreenInv, NEW c \in Contexts, Attempting(c)
    PROVE  screen_owner = c /\ \A d \in Contexts : Attempting(d) => d = c
<1>1. \A d \in Contexts : Attempting(d) => Live(d)
  BY DEF ScreenInv, PhaseAtCallback, Attempting, Open, Beginning, Ending
<1> QED
  BY <1>1 DEF ScreenInv, ScreenOwnership, Attempting

\* How the adapter's three operations change which objects exist.
LEMMA PreparedExists ==
    ASSUME TypeOK, NEW c \in Contexts, NEW pending \in BOOLEAN, Prepared(c, pending),
           transaction[c] # 0
    PROVE  /\ \A h : Existing(h)' <=> Existing(h) \/ h = transaction[c]
           /\ DiscardedOnce => DiscardedOnce'
<1>1. transaction[c] \in 1..SeqMax
  BY ConstantAssumption DEF TypeOK, AttemptType
<1> QED
  BY <1>1 DEF Prepared, Existing, DiscardedOnce, TypeOK, AdapterType

LEMMA EditKeeps ==
    ASSUME TypeOK, NEW c \in Contexts, NEW pending \in BOOLEAN, Edit(c, pending),
           Existing(handle[c])
    PROVE  /\ \A h : Existing(h)' <=> Existing(h)
           /\ DiscardedOnce => DiscardedOnce'
           /\ \A h : h # handle[c] => detached'[h] = detached[h]
<1>1. detached[handle[c]].choice \in Nat
  BY DEF Existing, TypeOK, AdapterType, Objects
<1> QED
  BY <1>1 DEF Edit, Existing, DiscardedOnce, TypeOK, AdapterType

LEMMA DiscardedEnds ==
    ASSUME TypeOK, NEW c \in Contexts, Discarded(c), Existing(transaction[c])
    PROVE  /\ \A h : Existing(h)' <=> Existing(h) /\ h # transaction[c]
           /\ DiscardedOnce => DiscardedOnce'
BY DEF Discarded, Existing, DiscardedOnce, TypeOK, AdapterType

LEMMA NextObjects == ScreenInv /\ ObjectInv /\ [Next]_vars => ObjectInv'
<1> SUFFICES ASSUME ScreenInv, ObjectInv, [Next]_vars PROVE ObjectInv'
  OBVIOUS
<1> USE ConstantAssumption DEF ObjectInv, threadVars, planVars, choiceVars, screenVars
<1>t. TypeOK /\ ControlType /\ AttemptType /\ PhaseAtCallback /\ AttemptIdentity
  BY DEF ScreenInv, TypeOK
\* Steps that leave every object and every attempt where it is.
<1>q. ASSUME UNCHANGED <<detached, handle, transaction, screen_owner>>,
             \A d \in Contexts : (Open(d)' <=> Open(d)) /\ (Beginning(d)' <=> Beginning(d))
                                   /\ (Ending(d)' <=> Ending(d))
      PROVE  ObjectInv'
  BY <1>q DEF ObjectOfAttempt, DiscardedOnce, NoneLeaked, Existing
<1>1. ASSUME NEW t \in Threads, CreateLoad(t) PROVE ObjectInv'
  BY <1>1, <1>q DEF CreateLoad, Open, Beginning, Ending
<1>2. ASSUME NEW t \in Threads, NEW c \in Contexts, CreateBind(t, c) PROVE ObjectInv'
  BY <1>2, <1>q DEF CreateBind, Open, Beginning, Ending
<1>3. ASSUME NEW c \in Contexts, NEW ledger \in 0..MaxRevision, Begin(c, ledger) PROVE ObjectInv'
  <2>1. \A h : ~Existing(h)
    BY <1>3 DEF Begin, ScreenFree, NoneLeaked, Existing
  <2>2. \A h : ~Existing(h)'
    BY <1>3, <2>1 DEF Begin, Existing
  <2>3. \A d \in Contexts : handle'[d] = 0 /\ ~Ending(d)'
    BY <1>3, <1>t, <2>1 DEF Begin, Enter, ObjectOfAttempt, Ending, ControlType
  <2> QED
    BY <1>3, <2>2, <2>3 DEF Begin, ObjectOfAttempt, DiscardedOnce, NoneLeaked
<1>4. ASSUME NEW c \in Contexts, Choose(c) \/ GetPreview(c) \/ Commit(c) \/ Resolve(c)
      PROVE  ObjectInv'
  BY <1>4, <1>q, <1>t DEF Choose, GetPreview, Commit, Resolve, Enter, Entered, ControlType,
     Open, Beginning, Ending
<1>5. ASSUME NEW c \in Contexts, Cancel(c) PROVE ObjectInv'
  <2>1. handle[c] = transaction[c] /\ Existing(handle[c])
    BY <1>5, <1>t DEF Cancel, Enter, Entered, AttemptIdentity, ObjectOfAttempt, Open
  <2> QED
    BY <1>5, <1>t, <2>1 DEF Cancel, Enter, Entered, ForgetHandle, ControlType, AttemptType,
       ObjectOfAttempt, DiscardedOnce, NoneLeaked, Existing, Open, Beginning, Ending
<1>6. ASSUME NEW c \in Contexts, Reset(c) PROVE ObjectInv'
  BY <1>6, <1>q, <1>t DEF Reset, ControlType, Open, Beginning, Ending
<1>7. ASSUME NEW c \in Contexts, Destroy(c) PROVE ObjectInv'
  <2>1. screen_owner # c
    BY <1>7 DEF Destroy, ScreenInv, ScreenOwnership, Entered, Open, Beginning, Ending
  <2> QED
    BY <1>7, <1>t, <2>1 DEF Destroy, Entered, ControlType, AttemptType, ObjectOfAttempt,
       DiscardedOnce, NoneLeaked, Existing, Open, Beginning, Ending
<1>8. ASSUME NEW c \in Contexts, BeginCaptured(c) PROVE ObjectInv'
  <2>1. Beginning(c)
    BY <1>8 DEF BeginCaptured, At, Beginning
  <2>2. screen_owner = c /\ \A d \in Contexts : Attempting(d) => d = c
    BY <2>1, OneAttempt DEF Attempting
  <2>3. \A h : ~Existing(h)
    BY <2>1, <2>2 DEF ObjectOfAttempt, NoneLeaked, Existing
  <2>4. \A h : ~Existing(h)'
    BY <1>8, <2>3 DEF BeginCaptured, Existing
  <2>5. \A d \in Contexts : handle'[d] = 0 /\ ~Ending(d)'
    BY <1>8, <1>t, <2>3 DEF BeginCaptured, At, CallNext, Return, ObjectOfAttempt, Ending, ControlType
  <2> QED
    BY <1>8, <2>4, <2>5 DEF BeginCaptured, ObjectOfAttempt, DiscardedOnce, NoneLeaked
<1>9. ASSUME NEW c \in Contexts, BeginPrepared(c) PROVE ObjectInv'
  <2>1. Beginning(c)
    BY <1>9 DEF BeginPrepared, At, Beginning
  <2>2. screen_owner = c /\ \A d \in Contexts : Attempting(d) => d = c
    BY <2>1, OneAttempt DEF Attempting
  <2>3. \A h : ~Existing(h)
    BY <2>1, <2>2 DEF ObjectOfAttempt, NoneLeaked, Existing
  <2>4. \A d \in Contexts : handle[d] = 0 /\ (Beginning(d) \/ Ending(d) => d = c)
    BY <2>2, <2>3 DEF ObjectOfAttempt, Attempting
  <2>5. transaction[c] # 0
    BY <2>1, <1>t DEF AttemptIdentity
  <2>6. CASE \E pending \in BOOLEAN : Prepared(c, pending)
    <3>1. PICK pending \in BOOLEAN : Prepared(c, pending)
      BY <2>6
    <3>2. (\A h : Existing(h)' <=> h = transaction[c]) /\ DiscardedOnce'
      BY <3>1, <2>3, <2>5, <1>t, PreparedExists
    <3>3. transaction' = transaction /\ transaction[c] \in 1..SeqMax
      BY <1>9, <1>t, <2>5 DEF BeginPrepared, AttemptType
    <3>4. ~UNCHANGED detached
      BY <2>3, <3>2, <3>3 DEF Existing
    <3>5. screen_owner' = c
      BY <1>9, <2>2, <3>4 DEF BeginPrepared
    <3>6. NoneLeaked'
      BY <3>3, <3>2, <3>5 DEF NoneLeaked
    <3>7. CASE /\ handle' = [handle EXCEPT ![c] = transaction[c]]
               /\ phase' = [phase EXCEPT ![c] = "CHOOSING"] /\ CallNext(c, "begin_inspect")
      <4>1. \A d \in Contexts : ~Beginning(d)' /\ ~Ending(d)'
        BY <3>7, <1>t, <2>4 DEF CallNext, ControlType, Beginning, Ending
      <4>2. Open(c)' /\ handle'[c] = transaction[c] /\ \A d \in Contexts \ {c} : handle'[d] = 0
        BY <3>7, <1>t, <2>4 DEF ControlType, AttemptType, Open
      <4> QED
        BY <3>3, <3>2, <3>5, <3>6, <4>1, <4>2 DEF ObjectOfAttempt
    <3>8. CASE CallNext(c, "abandon") /\ UNCHANGED <<handle, phase>>
      <4>1. \A d \in Contexts : ~Beginning(d)' /\ (Ending(d)' => d = c)
        BY <3>8, <1>t, <2>4 DEF CallNext, ControlType, Beginning, Ending
      <4> QED
        BY <3>3, <3>2, <3>5, <3>6, <3>8, <4>1, <2>4 DEF ObjectOfAttempt
    <3> QED
      BY <1>9, <3>7, <3>8, <3>4 DEF BeginPrepared
  <2>7. CASE AbandonState(c) /\ Return(c) /\ UNCHANGED <<handle, detached>>
    <3>1. \A h : ~Existing(h)'
      BY <2>3, <2>7 DEF Existing
    <3>2. \A d \in Contexts : handle'[d] = 0 /\ ~Ending(d)'
      BY <1>9, <1>t, <2>4, <2>7 DEF BeginPrepared, At, Return, Ending, ControlType
    <3> QED
      BY <2>7, <3>1, <3>2 DEF ObjectOfAttempt, DiscardedOnce, NoneLeaked
  <2> QED
    BY <1>9, <2>6, <2>7 DEF BeginPrepared
<1>10. ASSUME NEW c \in Contexts, ForgetHandle(c), At(c, pc[c]), Open(c), ~Ending(c),
              UNCHANGED <<detached, transaction, screen_owner>>,
              \/ CallNext(c, "abandon") /\ UNCHANGED phase
              \/ CallNext(c, "finish") /\ phase' = [phase EXCEPT ![c] = "COMMITTED"]
       PROVE  ObjectInv'
  <2>1. handle[c] = transaction[c] /\ Existing(handle[c])
    BY <1>10, <1>t DEF AttemptIdentity, ObjectOfAttempt, Ending
  <2> QED
    BY <1>10, <1>t, <2>1 DEF ForgetHandle, CallNext, ControlType, AttemptType,
       ObjectOfAttempt, DiscardedOnce, NoneLeaked, Existing, Open, Beginning, Ending
<1>11. ASSUME NEW c \in Contexts, BeginInspected(c) PROVE ObjectInv'
  <2>1. Open(c) /\ ~Ending(c) /\ ~Beginning(c) /\ At(c, pc[c])
    BY <1>11, <1>t DEF BeginInspected, At, PhaseAtCallback, Open, Ending, Beginning
  <2>2. CASE Return(c) /\ UNCHANGED handle
    BY <1>11, <1>q, <1>t, <2>1, <2>2 DEF BeginInspected, Return, ControlType, Open, Beginning, Ending
  <2>3. CASE ForgetHandle(c) /\ CallNext(c, "abandon")
    BY <1>11, <1>10, <2>1, <2>3 DEF BeginInspected
  <2> QED
    BY <1>11, <2>2, <2>3 DEF BeginInspected
<1>12. ASSUME NEW c \in Contexts, ChooseReturned(c) PROVE ObjectInv'
  <2>1. pc[c] = "choose" /\ Open(c)
    BY <1>12, <1>t DEF ChooseReturned, At, PhaseAtCallback, Open
  <2>2. Existing(handle[c])
    BY <2>1, <1>t DEF AttemptIdentity, ObjectOfAttempt
  <2>3. UNCHANGED <<handle, transaction, screen_owner, phase>>
         /\ \A d \in Contexts : (Open(d)' <=> Open(d)) /\ (Beginning(d)' <=> Beginning(d))
                                   /\ (Ending(d)' <=> Ending(d))
    BY <1>12, <1>t, <2>1 DEF ChooseReturned, CallNext, Return, ControlType, Open, Beginning, Ending
  <2>4. CASE UNCHANGED detached
    BY <1>q, <2>3, <2>4
  <2>5. CASE \E pending \in BOOLEAN : Edit(c, pending)
    <3>1. (\A h : Existing(h)' <=> Existing(h)) /\ DiscardedOnce'
      BY <1>t, <2>2, <2>5, EditKeeps
    <3> QED
      BY <2>3, <3>1 DEF ObjectOfAttempt, NoneLeaked
  <2> QED
    BY <1>12, <2>4, <2>5 DEF ChooseReturned
<1>13. ASSUME NEW c \in Contexts, ChooseInspected(c) \/ PreviewInspected(c) \/ CommitInspected(c)
       PROVE  ObjectInv'
  BY <1>13, <1>q, <1>t DEF ChooseInspected, PreviewInspected, CommitInspected, At, CallNext,
     Return, ControlType, Open, Beginning, Ending
<1>14. ASSUME NEW c \in Contexts, CommitCaptured(c) PROVE ObjectInv'
  <2>1. phase[c] = "CHOOSING" /\ pc[c] = "commit_capture"
    BY <1>14, <1>t DEF CommitCaptured, At, PhaseAtCallback
  <2> QED
    BY <1>14, <1>q, <1>t, <2>1 DEF CommitCaptured, CallNext, Return, ControlType, Open,
       Beginning, Ending
<1>15. ASSUME NEW c \in Contexts, CommitReturned(c) \/ ResolveReturned(c) PROVE ObjectInv'
  <2>1. /\ phase[c] = "COMMIT_UNKNOWN" /\ pc[c] \in {"commit", "resolve"} /\ Open(c)
        /\ ~Ending(c) /\ ~Beginning(c) /\ At(c, pc[c])
    BY <1>15, <1>t DEF CommitReturned, ResolveReturned, At, PhaseAtCallback, Open, Ending, Beginning
  <2>2. UNCHANGED <<detached, transaction, screen_owner>>
    BY <1>15 DEF CommitReturned, ResolveReturned
  <2>3. CASE StartFinish(c) \/ (ForgetHandle(c) /\ CallNext(c, "abandon") /\ UNCHANGED phase)
    BY <1>10, <2>1, <2>2, <2>3 DEF StartFinish
  <2>4. CASE Return(c) /\ UNCHANGED handle
               /\ phase' \in {phase, [phase EXCEPT ![c] = "CHOOSING"]}
    BY <1>q, <1>t, <2>1, <2>2, <2>4 DEF Return, ControlType, Open, Beginning, Ending
  <2> QED
    BY <1>15, <2>3, <2>4 DEF CommitReturned, ResolveReturned, Unresolved
<1>16. ASSUME NEW c \in Contexts, Ending(c), Discarded(c), Return(c), Relinquish(c), ~Open(c)',
              UNCHANGED <<handle, transaction>>, \A d \in Contexts \ {c} : phase'[d] = phase[d]
       PROVE  ObjectInv'
  <2>1. handle[c] = 0 /\ Existing(transaction[c])
    BY <1>16 DEF ObjectOfAttempt
  <2>2. (\A h : Existing(h)' <=> Existing(h) /\ h # transaction[c]) /\ DiscardedOnce'
    BY <1>t, <1>16, <2>1, DiscardedEnds
  <2>3. screen_owner = c /\ \A d \in Contexts : Attempting(d) => d = c
    BY <1>16, OneAttempt DEF Attempting
  <2>4. \A h : ~Existing(h)'
    BY <2>2, <2>3 DEF NoneLeaked, Existing
  <2>5. \A d \in Contexts : handle'[d] = 0 /\ ~Ending(d)'
    BY <1>16, <1>t, <2>1, <2>3 DEF ObjectOfAttempt, Attempting, Return, Ending, ControlType
  <2> QED
    BY <2>2, <2>4, <2>5 DEF ObjectOfAttempt, NoneLeaked
<1>17. ASSUME NEW c \in Contexts, Abandoned(c) PROVE ObjectInv'
  BY <1>16, <1>17, <1>t DEF Abandoned, AbandonState, At, Ending, Open, ControlType
<1>18. ASSUME NEW c \in Contexts, Finished(c) PROVE ObjectInv'
  BY <1>16, <1>18, <1>t DEF Finished, At, Ending, Open, PhaseAtCallback
<1>19. ASSUME WorldChange \/ UNCHANGED vars PROVE ObjectInv'
  BY <1>19, <1>q DEF WorldChange, vars, Open, Beginning, Ending
<1> QED
  BY <1>1, <1>2, <1>3, <1>4, <1>5, <1>6, <1>7, <1>8, <1>9, <1>11, <1>12, <1>13, <1>14, <1>15,
     <1>17, <1>18, <1>19 DEF Next, Call, CallbackReturn

\* A context between the inspection and the return of commit.
Judging(c) == pc[c] \in {"commit_capture", "commit"}

LEMMA NextReviewed == ScreenInv /\ ObjectInv /\ ReviewInv /\ [Next]_vars => ReviewInv'
<1> SUFFICES ASSUME ScreenInv, ObjectInv, ReviewInv, [Next]_vars PROVE ReviewInv'
  OBVIOUS
<1> USE DEF ReviewInv, threadVars, planVars, choiceVars, screenVars
<1>t. ControlType /\ AttemptType /\ PhaseAtCallback
  BY DEF ScreenInv, TypeOK
\* Steps that leave what is shown, reviewed and detached.
<1>q. ASSUME UNCHANGED <<detached, handle, reviewed_choice, shown, applied>>,
             \A d \in Contexts : Judging(d)' => Judging(d)
      PROVE  ReviewInv'
  BY <1>q DEF ReviewedIsShown, CommitIsReviewed, Committable, Judging
\* Steps of an attempt that is not judging: nobody else can be.
<1>v. ASSUME NEW c \in Contexts, Attempting(c), ~Judging(c)', UNCHANGED applied,
             \A d \in Contexts \ {c} : pc'[d] = pc[d],
             \A d \in Contexts : \/ reviewed_choice'[d] \in {0, shown'[d]}
                                 \/ reviewed_choice'[d] = reviewed_choice[d] /\ shown'[d] = shown[d]
      PROVE  ReviewInv'
  <2>1. \A d \in Contexts : Attempting(d) => d = c
    BY <1>v, OneAttempt
  <2>2. \A d \in Contexts : Judging(d) => Attempting(d)
    BY <1>t DEF PhaseAtCallback, Attempting, Open, Judging
  <2>3. \A d \in Contexts : ~Judging(d)'
    BY <1>v, <2>1, <2>2 DEF Judging
  <2> QED
    BY <1>v, <2>3 DEF ReviewedIsShown, CommitIsReviewed, Judging
<1>1. ASSUME NEW t \in Threads, CreateLoad(t) PROVE ReviewInv'
  BY <1>1, <1>q DEF CreateLoad, Judging
<1>2. ASSUME NEW t \in Threads, NEW c \in Contexts, CreateBind(t, c) PROVE ReviewInv'
  BY <1>2, <1>q DEF CreateBind, Judging
<1>3. ASSUME NEW c \in Contexts, NEW ledger \in 0..MaxRevision, Begin(c, ledger) PROVE ReviewInv'
  <2>1. \A d \in Contexts : ~Judging(d)
    BY <1>3, OneAttempt, <1>t, ConstantAssumption
       DEF Begin, ScreenFree, PhaseAtCallback, Attempting, Open, Judging
  <2>2. \A d \in Contexts : ~Judging(d)'
    BY <1>3, <1>t, <2>1 DEF Begin, Enter, ControlType, Judging
  <2> QED
    BY <1>3, <1>t, <2>2 DEF Begin, AttemptType, ReviewedIsShown, CommitIsReviewed, Judging
<1>4. ASSUME NEW c \in Contexts, Choose(c) PROVE ReviewInv'
  BY <1>4, <1>t, <1>v DEF Choose, Enter, ControlType, AttemptType, Attempting, Open, Judging
<1>5. ASSUME NEW c \in Contexts, GetPreview(c) \/ Commit(c) \/ Resolve(c) PROVE ReviewInv'
  BY <1>5, <1>t, <1>q DEF GetPreview, Commit, Resolve, Enter, ControlType, Judging
<1>6. ASSUME NEW c \in Contexts, Cancel(c) PROVE ReviewInv'
  BY <1>6, <1>t, <1>v DEF Cancel, Enter, ControlType, Attempting, Open, Judging
<1>7. ASSUME NEW c \in Contexts, Reset(c) \/ Destroy(c) PROVE ReviewInv'
  <2>1. ~Judging(c) /\ UNCHANGED <<pc, detached, applied>>
    BY <1>7 DEF Reset, Destroy, Entered, Judging
  <2>2. \A d \in Contexts \ {c} : UNCHANGED <<handle[d], reviewed_choice[d], shown[d]>>
    BY <1>7, <1>t DEF Reset, Destroy, AttemptType
  <2>3. reviewed_choice'[c] = 0
    BY <1>7, <1>t DEF Reset, Destroy, AttemptType
  <2> QED
    BY <2>1, <2>2, <2>3 DEF ReviewedIsShown, CommitIsReviewed, Committable, Judging
<1>8. ASSUME NEW c \in Contexts, BeginCaptured(c) \/ BeginPrepared(c) PROVE ReviewInv'
  BY <1>8, <1>t, <1>v DEF BeginCaptured, BeginPrepared, AbandonState, At, CallNext, Return,
     ControlType, AttemptType, Attempting, Beginning, Judging
<1>9. ASSUME NEW c \in Contexts, BeginInspected(c) \/ ChooseReturned(c) \/ ChooseInspected(c)
                                 \/ PreviewInspected(c)
      PROVE  ReviewInv'
  <2>1. Attempting(c)
    BY <1>9, <1>t DEF BeginInspected, ChooseReturned, ChooseInspected, PreviewInspected, At,
       PhaseAtCallback, Attempting, Open
  <2>2. ~Judging(c)' /\ \A d \in Contexts \ {c} : pc'[d] = pc[d]
    BY <1>9, <1>t DEF BeginInspected, ChooseReturned, ChooseInspected, PreviewInspected, CallNext,
       Return, ControlType, Judging
  <2>3. /\ UNCHANGED applied
        /\ \A d \in Contexts : \/ reviewed_choice'[d] \in {0, shown'[d]}
                               \/ reviewed_choice'[d] = reviewed_choice[d] /\ shown'[d] = shown[d]
    BY <1>9, <1>t DEF BeginInspected, ChooseReturned, ChooseInspected, PreviewInspected, AttemptType
  <2> QED
    BY <1>v, <2>1, <2>2, <2>3
<1>10. ASSUME NEW c \in Contexts, CommitInspected(c) PROVE ReviewInv'
  BY <1>10, <1>t DEF CommitInspected, At, CallNext, Return, ControlType, ReviewedIsShown,
     CommitIsReviewed, Committable
<1>11. ASSUME NEW c \in Contexts, CommitCaptured(c) PROVE ReviewInv'
  BY <1>11, <1>t, <1>q DEF CommitCaptured, At, CallNext, Return, ControlType, Judging
<1>12. ASSUME NEW c \in Contexts, CommitReturned(c) PROVE ReviewInv'
  <2>1. Committable(c) /\ reviewed_choice[c] = shown[c] /\ Attempting(c)
    BY <1>12, <1>t DEF CommitReturned, At, PhaseAtCallback, Attempting, Open, ReviewedIsShown, Committable
  <2>2. CommitIsReviewed'
    BY <1>12, <2>1 DEF CommitReturned, AdapterCommit, Committable, CommitIsReviewed
  <2>3. \A d \in Contexts : Judging(d) => d = c
    BY <2>1, <1>t, OneAttempt DEF PhaseAtCallback, Attempting, Open, Judging
  <2>4. \A d \in Contexts : ~Judging(d)'
    BY <1>12, <1>t, <2>3 DEF CommitReturned, StartFinish, Unresolved, CallNext, Return, ControlType, Judging
  <2> QED
    BY <1>12, <2>2, <2>4 DEF CommitReturned, ReviewedIsShown, Judging
<1>13. ASSUME NEW c \in Contexts, ResolveReturned(c) PROVE ReviewInv'
  BY <1>13, <1>t, <1>v DEF ResolveReturned, StartFinish, Unresolved, At, CallNext, Return,
     PhaseAtCallback, ControlType, Attempting, Open, Judging
<1>14. ASSUME NEW c \in Contexts, Abandoned(c) \/ Finished(c) PROVE ReviewInv'
  BY <1>14, <1>t, <1>v DEF Abandoned, Finished, AbandonState, At, Return, ControlType, AttemptType,
     Attempting, Ending, Judging
<1>15. ASSUME WorldChange \/ UNCHANGED vars PROVE ReviewInv'
  BY <1>15, <1>q DEF WorldChange, vars, Judging
<1> QED
  BY <1>1, <1>2, <1>3, <1>4, <1>5, <1>6, <1>7, <1>8, <1>9, <1>10, <1>11, <1>12, <1>13, <1>14,
     <1>15 DEF Next, Call, CallbackReturn

LEMMA InitObjects == Init => ObjectInv /\ ReviewInv
<1> SUFFICES ASSUME Init PROVE ObjectInv /\ ReviewInv
  OBVIOUS
<1>1. \A h \in 1..SeqMax : detached[h].choice = 0 /\ detached[h].discards = 0
  BY DEF Init, NoObject
<1> QED
  BY <1>1 DEF Init, ObjectInv, ObjectOfAttempt, DiscardedOnce, NoneLeaked, Existing, ReviewInv,
     ReviewedIsShown, CommitIsReviewed, Open, Beginning, Ending

\* A detached object is discarded once, is not used after that and is not leaked,
\* whatever callback fails and however calls nest (discard, abandon,
\* finish_commit).
THEOREM ObjectsAreDetached == Spec => []DetachedObjects
<1>1. ObjectInv => DetachedObjects
  BY DEF ObjectInv, ObjectOfAttempt, DiscardedOnce, NoneLeaked, Existing, DetachedObjects
<1> QED
  BY <1>1, InitObjects, NextObjects, InitScreenInv, NextScreenInv, PTL DEF Spec

\* What the adapter applies is what the player last saw, with no choice open:
\* nothing edits the object between the checks of CBMD_Commit and commit.
THEOREM CommitsAreReviewed == Spec => []CommitIsReviewed
<1>1. ReviewInv => CommitIsReviewed
  BY DEF ReviewInv
<1> QED
  BY <1>1, InitObjects, NextObjects, NextReviewed, InitScreenInv, NextScreenInv, PTL DEF Spec
=============================================================================
