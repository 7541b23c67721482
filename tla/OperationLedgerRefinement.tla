---------------------- MODULE OperationLedgerRefinement ----------------------
(***************************************************************************)
(* What OperationLedger shows its clients, for any number of requests,     *)
(* op_ids, stories, administrators, boots, engine writes and failures: a   *)
(* success that was told stays true, no claim outlives those who have to   *)
(* release it, and start and resume implement IdempotentLedger.            *)
(***************************************************************************)
EXTENDS OperationLedgerProofs

------------------------------------------------------------------------------
(* A success that a client was told.                                         *)

Successful == {"committed", "resolved"}

(* The answer a thread leaves with is a success only behind a row that       *)
(* records one.                                                              *)
AnswerInv ==
  \A r \in Requests :
    (pc[r] \in ExitSteps \cup {"done"} /\ reply[r] \in {"committed", "replayed"}) =>
      row[op[r]].status \in Successful

(* A row that records a success never records anything else. *)
LEMMA SuccessStays ==
  ASSUME TypeOK, TypeOK', LedgerInv, [Next]_vars
  PROVE  \A x \in Ops : row[x].status \in Successful => row'[x].status \in Successful
<1> USE LedgerAssumption DEF TypeOK, LedgerInv, dbVars, reqVars, sysVars, history, Goto, Answer,
       Live, EarlySteps, EngineSteps, ExitSteps,
       ThreadTypes, TableTypes, AdminTypes, ProcessTypes, RowType,
       Successful, Statuses, OwnsRow, NoRow
<1>1. ASSUME NEW r \in Requests, NEW o \in Ops, NEW k \in Kinds, Receive(r, o, k)
      PROVE  \A x \in Ops : row[x].status \in Successful => row'[x].status \in Successful
  BY <1>1 DEF Receive, Finish
<1>2. ASSUME NEW r \in Requests, RefuseEarly(r)
      PROVE  \A x \in Ops : row[x].status \in Successful => row'[x].status \in Successful
  BY <1>2 DEF RefuseEarly, Finish
<1>3. ASSUME NEW r \in Requests, PassRepairLock(r)
      PROVE  \A x \in Ops : row[x].status \in Successful => row'[x].status \in Successful
  BY <1>3 DEF PassRepairLock, AfterLock
<1>4. ASSUME NEW r \in Requests, AcquireClaim(r)
      PROVE  \A x \in Ops : row[x].status \in Successful => row'[x].status \in Successful
  BY SMTT(20), <1>4 DEF AcquireClaim, Finish
<1>5. ASSUME NEW r \in Requests, Reload(r)
      PROVE  \A x \in Ops : row[x].status \in Successful => row'[x].status \in Successful
  BY <1>5 DEF Reload, Finish
<1>6. ASSUME NEW r \in Requests, AcquireObjectClaim(r)
      PROVE  \A x \in Ops : row[x].status \in Successful => row'[x].status \in Successful
  BY <1>6 DEF AcquireObjectClaim, Finish
<1>7. ASSUME NEW r \in Requests, EngineWrite(r)
      PROVE  \A x \in Ops : row[x].status \in Successful => row'[x].status \in Successful
  BY <1>7 DEF EngineWrite
<1>8. ASSUME NEW r \in Requests, DispatchRejected(r)
      PROVE  \A x \in Ops : row[x].status \in Successful => row'[x].status \in Successful
  BY <1>8 DEF DispatchRejected
<1>9. ASSUME NEW r \in Requests, DispatchReturned(r)
      PROVE  \A x \in Ops : row[x].status \in Successful => row'[x].status \in Successful
  BY <1>9 DEF DispatchReturned
<1>10. ASSUME NEW r \in Requests, Raise(r)
      PROVE  \A x \in Ops : row[x].status \in Successful => row'[x].status \in Successful
  BY <1>10 DEF Raise
<1>11. ASSUME NEW r \in Requests, Finalize(r)
      PROVE  \A x \in Ops : row[x].status \in Successful => row'[x].status \in Successful
  BY <1>11, EndClaimEffect, RunningThread DEF Finalize
<1>12. ASSUME NEW r \in Requests, FinalizeFrozen(r)
      PROVE  \A x \in Ops : row[x].status \in Successful => row'[x].status \in Successful
  BY <1>12 DEF FinalizeFrozen
<1>13. ASSUME NEW r \in Requests, TerminalizeFrozen(r)
      PROVE  \A x \in Ops : row[x].status \in Successful => row'[x].status \in Successful
  BY <1>13, EndClaimEffect, RunningThread DEF TerminalizeFrozen
<1>14. ASSUME NEW r \in Requests, CommitWithSideEffects(r)
      PROVE  \A x \in Ops : row[x].status \in Successful => row'[x].status \in Successful
  BY <1>14, RunningThread DEF CommitWithSideEffects
<1>15. ASSUME NEW r \in Requests, CommitRefused(r)
      PROVE  \A x \in Ops : row[x].status \in Successful => row'[x].status \in Successful
  BY <1>15 DEF CommitRefused
<1>16. ASSUME NEW r \in Requests, ReleaseMyClaim(r)
      PROVE  \A x \in Ops : row[x].status \in Successful => row'[x].status \in Successful
  BY <1>16 DEF ReleaseMyClaim, ReleaseRow
<1>17. ASSUME NEW r \in Requests, ReleaseMyClaimBestEffort(r)
      PROVE  \A x \in Ops : row[x].status \in Successful => row'[x].status \in Successful
  <2>1. CASE OwnsRow(r)
    <3>1. row' = [row EXCEPT ![op[r]] = NoRow] /\ row[op[r]].status = "claimed"
      BY <1>17, <2>1 DEF ReleaseMyClaimBestEffort, ReleaseRow
    <3> QED
      BY <3>1
  <2> QED
    BY <1>17, <2>1 DEF ReleaseMyClaimBestEffort
<1>18. ASSUME NEW r \in Requests, ReleaseObjectClaim(r)
      PROVE  \A x \in Ops : row[x].status \in Successful => row'[x].status \in Successful
  BY <1>18 DEF ReleaseObjectClaim, ReleaseObject
<1>19. ASSUME NEW r \in Requests, ReleaseFails(r)
      PROVE  \A x \in Ops : row[x].status \in Successful => row'[x].status \in Successful
  BY <1>19 DEF ReleaseFails
<1>20. ASSUME NEW a \in Admins, NEW o \in Ops, AdminLoad(a, o)
      PROVE  \A x \in Ops : row[x].status \in Successful => row'[x].status \in Successful
  BY <1>20 DEF AdminLoad
<1>21. ASSUME NEW a \in Admins, AdminProbe(a)
      PROVE  \A x \in Ops : row[x].status \in Successful => row'[x].status \in Successful
  BY <1>21, AdminProbeEffect DEF AdminProbe
<1>22. ASSUME NEW a \in Admins, AdminAbort(a)
      PROVE  \A x \in Ops : row[x].status \in Successful => row'[x].status \in Successful
  BY <1>22, EndClaimEffect, RunningAdmin DEF AdminAbort
<1>23. ASSUME NEW a \in Admins, AdminRelease(a)
      PROVE  \A x \in Ops : row[x].status \in Successful => row'[x].status \in Successful
  BY <1>23 DEF AdminRelease, ReleaseObject
<1>24. ASSUME NEW a \in Admins, AdminResolve(a)
      PROVE  \A x \in Ops : row[x].status \in Successful => row'[x].status \in Successful
  BY <1>24 DEF AdminResolve
<1>25. CASE Crash
  BY <1>25 DEF Crash
<1>26. CASE Boot
  BY <1>26 DEF Boot
<1>27. CASE Serve
  BY <1>27 DEF Serve
<1>28. ASSUME NEW o \in Ops, ReconcileOperation(o)
      PROVE  \A x \in Ops : row[x].status \in Successful => row'[x].status \in Successful
  BY SMTT(20), <1>28, EndClaimEffect DEF ReconcileOperation, OrphanedOps
<1>29. ASSUME NEW s \in Stories, ReconcileClaim(s)
      PROVE  \A x \in Ops : row[x].status \in Successful => row'[x].status \in Successful
  BY <1>29 DEF ReconcileClaim, OrphanedClaims
<1>30. CASE UNCHANGED vars
  BY <1>30 DEF vars
<1> QED
  BY <1>1, <1>2, <1>3, <1>4, <1>5, <1>6, <1>7, <1>8, <1>9, <1>10, <1>11,
     <1>12, <1>13, <1>14, <1>15, <1>16, <1>17, <1>18, <1>19, <1>20, <1>21,
     <1>22, <1>23, <1>24, <1>25, <1>26, <1>27, <1>28, <1>29, <1>30
     DEF Next, RequestStep, AdminStep, Recovery

(* Every answer is backed when it is given. *)
LEMMA AnswersStep ==
  ASSUME TypeOK, TypeOK', LedgerInv, AnswerInv, [Next]_vars
  PROVE  AnswerInv'
<1>0. \A x \in Ops : row[x].status \in Successful => row'[x].status \in Successful
  BY SuccessStays
<1>t. \A r \in Requests : pc[r] # "idle" => op[r] \in Ops
  BY DEF TypeOK, ThreadTypes
<1>p. ASSUME NEW o \in Ops, NEW k, ReplayOrMismatch(o, k) \in {"committed", "replayed"}, row[o].status \in Terminal
      PROVE  row[o].status \in Successful
  BY <1>p DEF ReplayOrMismatch, Terminal, Statuses, NonCommittedTerminal, Successful
<1>q. ASSUME NEW r \in Requests, NEW step, Goto(r, step), pc[r] # "idle", UNCHANGED op,
             \/ UNCHANGED reply /\ (step \in ExitSteps \cup {"done"} => pc[r] \in ExitSteps)
             \/ \E w : Answer(r, w) /\ (w \in {"committed", "replayed"} => row'[op[r]].status \in Successful)
      PROVE  AnswerInv'
  <2>1. ASSUME NEW r2 \in Requests, pc'[r2] \in ExitSteps \cup {"done"},
               reply'[r2] \in {"committed", "replayed"}
        PROVE  row'[op[r2]].status \in Successful
    BY <1>0, <1>t, <1>q, <2>1
       DEF AnswerInv, Goto, Answer, TypeOK, ThreadTypes, ExitSteps
  <2> QED
    BY <1>q, <2>1 DEF AnswerInv
<1>u. ASSUME UNCHANGED <<pc, op, reply>> PROVE AnswerInv'
  BY <1>0, <1>t, <1>u DEF AnswerInv, ExitSteps
<1> USE DEF dbVars, reqVars, sysVars, history
<1>1. ASSUME NEW r \in Requests, NEW o \in Ops, NEW k \in Kinds, Receive(r, o, k)
      PROVE  AnswerInv'
  <2>1. ASSUME NEW r2 \in Requests, pc'[r2] \in ExitSteps \cup {"done"},
               reply'[r2] \in {"committed", "replayed"}
        PROVE  row'[op'[r2]].status \in Successful
    BY <1>1, <1>0, <1>t, <1>p, <2>1
       DEF Receive, Finish, Goto, Answer, AnswerInv, TypeOK, ThreadTypes, Live, EarlySteps, EngineSteps, ExitSteps
  <2> QED
    BY <2>1 DEF AnswerInv
<1>2. ASSUME NEW r \in Requests, RefuseEarly(r)
      PROVE  AnswerInv'
  BY <1>2, <1>q DEF RefuseEarly, Finish
<1>3. ASSUME NEW r \in Requests, PassRepairLock(r)
      PROVE  AnswerInv'
  BY <1>3, <1>q DEF PassRepairLock, AfterLock, ExitSteps
<1>4. ASSUME NEW r \in Requests, AcquireClaim(r)
      PROVE  AnswerInv'
  <2>1. op[r] \in Ops /\ pc[r] # "idle" /\ row[op[r]].status \in Statuses
    BY <1>4, <1>t DEF AcquireClaim, TypeOK, TableTypes, RowType
  <2> QED
    BY <1>4, <1>0, <1>p, <1>q, <2>1 DEF AcquireClaim, Finish, Terminal, ExitSteps
<1>5. ASSUME NEW r \in Requests, Reload(r)
      PROVE  AnswerInv'
  <2>1. op[r] \in Ops /\ pc[r] # "idle" /\ row[op[r]].status \in Statuses
    BY <1>5, <1>t DEF Reload, TypeOK, TableTypes, RowType
  <2> QED
    BY <1>5, <1>0, <1>p, <1>q, <2>1 DEF Reload, Finish, Terminal, ExitSteps
<1>6. ASSUME NEW r \in Requests, AcquireObjectClaim(r)
      PROVE  AnswerInv'
  BY <1>6, <1>q DEF AcquireObjectClaim, Finish, ExitSteps
<1>7. ASSUME NEW r \in Requests, EngineWrite(r)
      PROVE  AnswerInv'
  BY <1>7, <1>q DEF EngineWrite, ExitSteps
<1>8. ASSUME NEW r \in Requests, DispatchRejected(r)
      PROVE  AnswerInv'
  BY <1>8, <1>q DEF DispatchRejected, ExitSteps
<1>9. ASSUME NEW r \in Requests, DispatchReturned(r)
      PROVE  AnswerInv'
  BY <1>9, <1>q DEF DispatchReturned, ExitSteps
<1>10. ASSUME NEW r \in Requests, Raise(r)
      PROVE  AnswerInv'
  BY <1>10, <1>q DEF Raise, ExitSteps
<1>11. ASSUME NEW r \in Requests, Finalize(r)
      PROVE  AnswerInv'
  <2>1. op[r] \in Ops /\ pc[r] # "idle"
    BY <1>11, <1>t DEF Finalize
  <2>2. OwnsRow(r) => row'[op[r]].status = "committed"
    BY <1>11, <2>1, EndClaimEffect DEF Finalize, TypeOK, TableTypes
  <2> QED
    BY <1>11, <1>q, <2>1, <2>2 DEF Finalize, Successful
<1>12. ASSUME NEW r \in Requests, FinalizeFrozen(r)
      PROVE  AnswerInv'
  BY <1>12, <1>q DEF FinalizeFrozen, ExitSteps
<1>13. ASSUME NEW r \in Requests, TerminalizeFrozen(r)
      PROVE  AnswerInv'
  BY <1>13, <1>q DEF TerminalizeFrozen
<1>14. ASSUME NEW r \in Requests, CommitWithSideEffects(r)
      PROVE  AnswerInv'
  <2>1. op[r] \in Ops /\ pc[r] # "idle"
    BY <1>14, <1>t DEF CommitWithSideEffects
  <2>2. row'[op[r]].status = "committed"
    BY <1>14, <2>1 DEF CommitWithSideEffects, TypeOK, TableTypes, RowType
  <2> QED
    BY <1>14, <1>q, <2>1, <2>2 DEF CommitWithSideEffects, Successful
<1>15. ASSUME NEW r \in Requests, CommitRefused(r)
      PROVE  AnswerInv'
  BY <1>15, <1>q DEF CommitRefused, ExitSteps
<1>16. ASSUME NEW r \in Requests, ReleaseMyClaim(r)
      PROVE  AnswerInv'
  BY <1>16, <1>q DEF ReleaseMyClaim, ExitSteps
<1>17. ASSUME NEW r \in Requests, ReleaseMyClaimBestEffort(r)
      PROVE  AnswerInv'
  BY <1>17, <1>q DEF ReleaseMyClaimBestEffort, ExitSteps
<1>18. ASSUME NEW r \in Requests, ReleaseObjectClaim(r)
      PROVE  AnswerInv'
  BY <1>18, <1>q DEF ReleaseObjectClaim, ExitSteps
<1>19. ASSUME NEW r \in Requests, ReleaseFails(r)
      PROVE  AnswerInv'
  BY <1>19, <1>q DEF ReleaseFails, ExitSteps
<1>20. ASSUME NEW a \in Admins, NEW o \in Ops, AdminLoad(a, o)
      PROVE  AnswerInv'
  BY <1>20, <1>u DEF AdminLoad
<1>21. ASSUME NEW a \in Admins, AdminProbe(a)
      PROVE  AnswerInv'
  BY <1>21, <1>u DEF AdminProbe
<1>22. ASSUME NEW a \in Admins, AdminAbort(a)
      PROVE  AnswerInv'
  BY <1>22, <1>u DEF AdminAbort
<1>23. ASSUME NEW a \in Admins, AdminRelease(a)
      PROVE  AnswerInv'
  BY <1>23, <1>u DEF AdminRelease
<1>24. ASSUME NEW a \in Admins, AdminResolve(a)
      PROVE  AnswerInv'
  BY <1>24, <1>u DEF AdminResolve
<1>25. CASE Crash
  BY <1>25, <1>0, <1>t DEF Crash, AnswerInv, TypeOK, ThreadTypes, ExitSteps, Live
<1>26. CASE Boot
  BY <1>26, <1>u DEF Boot
<1>27. CASE Serve
  BY <1>27, <1>u DEF Serve
<1>28. ASSUME NEW o \in Ops, ReconcileOperation(o)
      PROVE  AnswerInv'
  BY <1>28, <1>u DEF ReconcileOperation
<1>29. ASSUME NEW s \in Stories, ReconcileClaim(s)
      PROVE  AnswerInv'
  BY <1>29, <1>u DEF ReconcileClaim
<1>30. CASE UNCHANGED vars
  BY <1>30, <1>u DEF vars
<1> QED
  BY <1>1, <1>2, <1>3, <1>4, <1>5, <1>6, <1>7, <1>8, <1>9, <1>10, <1>11,
     <1>12, <1>13, <1>14, <1>15, <1>16, <1>17, <1>18, <1>19, <1>20, <1>21,
     <1>22, <1>23, <1>24, <1>25, <1>26, <1>27, <1>28, <1>29, <1>30
     DEF Next, RequestStep, AdminStep, Recovery

(* THEOREM.  A client that was told 'committed', or was replayed a success,   *)
(* finds a committed or resolved row for good: the answer is given behind the *)
(* row, and no release, abort, reconciliation or other delivery of the op_id  *)
(* takes such a row back.                                                    *)
THEOREM AnswersAreDurable == Spec => []AnsweredCommitIsDurable
<1>1. Init => AnswerInv
  BY DEF Init, AnswerInv, ExitSteps
<1>2. TypeOK /\ TypeOK' /\ LedgerInv /\ AnswerInv /\ [Next]_vars => AnswerInv'
  BY AnswersStep
<1>3. AnswerInv => AnsweredCommitIsDurable
  BY DEF AnswerInv, AnsweredCommitIsDurable, Successful
<1> QED
  BY <1>1, <1>2, <1>3, TypeCorrect, LedgerInvariant, PTL DEF Spec

------------------------------------------------------------------------------
(* No claim is leaked.                                                       *)

(* A claimed row carries the epoch its owner's CAS asks for. *)
ClaimedEpoch ==
  \A o \in Ops : row[o].status = "claimed" => row[o].epoch = InitialOperationEpoch

(* A process that reconciles finds only stamps of earlier incarnations. *)
OldStamps ==
  mode = "reconciling" =>
    /\ \A o \in Ops : row[o].inc < incarnation
    /\ \A s \in Stories : obj[s].inc < incarnation

(* As long as no release failed, the owner of a claimed row still has to      *)
(* finalize or release it.                                                   *)
RowsHeld ==
  (mode = "serving" /\ faults = 0) =>
    \A o \in Ops : row[o].status = "claimed" => InOwnersHands(o)

(* So has a thread that holds it the claim of a story; the claim is for an    *)
(* operation on that story.                                                  *)
StoriesHeld ==
  (mode = "serving" /\ faults = 0) =>
    \A s \in Stories : obj[s] # NoClaim =>
      /\ obj[s].op \in Ops /\ StoryOf[obj[s].op] = s
      /\ \E r \in Requests : r \in Holders(obj[s].op)

LeakInv == ClaimedEpoch /\ OldStamps /\ RowsHeld /\ StoriesHeld

(* Only a claim that is taken, with the initial epoch, makes a row claimed. *)
LEMMA EpochStep ==
  ASSUME TypeOK, LedgerInv, ClaimedEpoch, [Next]_vars
  PROVE  ClaimedEpoch'
<1> USE DEF dbVars, reqVars, sysVars, history, ClaimedEpoch
<1>e. ASSUME NEW o \in Ops, NEW st, st # "claimed", NEW e, EndClaim(o, st, e)
      PROVE  ClaimedEpoch'
  BY <1>e, EndClaimEffect DEF TypeOK, TableTypes
<1>d. ASSUME NEW r \in Requests, ReleaseRow(r) PROVE ClaimedEpoch'
  BY <1>d DEF ReleaseRow, NoRow, TypeOK, TableTypes
<1>u. ASSUME UNCHANGED row PROVE ClaimedEpoch'
  BY <1>u
<1>l. LedgerInv => StoppedUnlessServing
  BY DEF LedgerInv
<1>1. ASSUME NEW r \in Requests, NEW o \in Ops, NEW k \in Kinds, Receive(r, o, k)
      PROVE  ClaimedEpoch'
  BY <1>1, <1>u DEF Receive
<1>2. ASSUME NEW r \in Requests, RefuseEarly(r)
      PROVE  ClaimedEpoch'
  BY <1>2, <1>u DEF RefuseEarly
<1>3. ASSUME NEW r \in Requests, PassRepairLock(r)
      PROVE  ClaimedEpoch'
  BY <1>3, <1>u DEF PassRepairLock
<1>4. ASSUME NEW r \in Requests, AcquireClaim(r)
      PROVE  ClaimedEpoch'
  BY <1>4, <1>u DEF AcquireClaim, TypeOK, TableTypes
<1>5. ASSUME NEW r \in Requests, Reload(r)
      PROVE  ClaimedEpoch'
  BY <1>5, <1>u DEF Reload
<1>6. ASSUME NEW r \in Requests, AcquireObjectClaim(r)
      PROVE  ClaimedEpoch'
  BY <1>6, <1>u DEF AcquireObjectClaim
<1>7. ASSUME NEW r \in Requests, EngineWrite(r)
      PROVE  ClaimedEpoch'
  BY <1>7, <1>u DEF EngineWrite
<1>8. ASSUME NEW r \in Requests, DispatchRejected(r)
      PROVE  ClaimedEpoch'
  BY <1>8, <1>u DEF DispatchRejected
<1>9. ASSUME NEW r \in Requests, DispatchReturned(r)
      PROVE  ClaimedEpoch'
  BY <1>9, <1>u DEF DispatchReturned
<1>10. ASSUME NEW r \in Requests, Raise(r)
      PROVE  ClaimedEpoch'
  BY <1>10, <1>u DEF Raise
<1>11. ASSUME NEW r \in Requests, Finalize(r)
      PROVE  ClaimedEpoch'
  BY <1>11, <1>e, <1>u, <1>l, RunningThread DEF Finalize, Live, EngineSteps
<1>12. ASSUME NEW r \in Requests, FinalizeFrozen(r)
      PROVE  ClaimedEpoch'
  BY <1>12, <1>u DEF FinalizeFrozen
<1>13. ASSUME NEW r \in Requests, TerminalizeFrozen(r)
      PROVE  ClaimedEpoch'
  BY <1>13, <1>e, <1>u, <1>l, RunningThread DEF TerminalizeFrozen, Live, EngineSteps
<1>14. ASSUME NEW r \in Requests, CommitWithSideEffects(r)
      PROVE  ClaimedEpoch'
  <2>1. op[r] \in Ops
    BY <1>14, <1>l, RunningThread DEF CommitWithSideEffects, Live
  <2>2. row'[op[r]].status = "committed" /\ \A x \in Ops : x # op[r] => row'[x] = row[x]
    BY <1>14, <2>1 DEF CommitWithSideEffects, TypeOK, TableTypes, RowType
  <2> QED
    BY <2>2
<1>15. ASSUME NEW r \in Requests, CommitRefused(r)
      PROVE  ClaimedEpoch'
  BY <1>15, <1>u DEF CommitRefused
<1>16. ASSUME NEW r \in Requests, ReleaseMyClaim(r)
      PROVE  ClaimedEpoch'
  BY <1>16, <1>d, <1>u DEF ReleaseMyClaim
<1>17. ASSUME NEW r \in Requests, ReleaseMyClaimBestEffort(r)
      PROVE  ClaimedEpoch'
  BY <1>17, <1>d, <1>u DEF ReleaseMyClaimBestEffort
<1>18. ASSUME NEW r \in Requests, ReleaseObjectClaim(r)
      PROVE  ClaimedEpoch'
  BY <1>18, <1>u DEF ReleaseObjectClaim
<1>19. ASSUME NEW r \in Requests, ReleaseFails(r)
      PROVE  ClaimedEpoch'
  BY <1>19, <1>u DEF ReleaseFails
<1>20. ASSUME NEW a \in Admins, NEW o \in Ops, AdminLoad(a, o)
      PROVE  ClaimedEpoch'
  BY <1>20, <1>u DEF AdminLoad
<1>21. ASSUME NEW a \in Admins, AdminProbe(a)
      PROVE  ClaimedEpoch'
  BY <1>21, <1>u DEF AdminProbe
<1>22. ASSUME NEW a \in Admins, AdminAbort(a)
      PROVE  ClaimedEpoch'
  <2>1. adm[a].op \in Ops /\ adm[a].verdict \in {"aborted", "repair"}
    BY <1>22, <1>l, RunningAdmin DEF AdminAbort, TypeOK, AdminTypes
  <2> QED
    BY <1>22, <1>e, <1>u, <2>1 DEF AdminAbort
<1>23. ASSUME NEW a \in Admins, AdminRelease(a)
      PROVE  ClaimedEpoch'
  BY <1>23, <1>u DEF AdminRelease
<1>24. ASSUME NEW a \in Admins, AdminResolve(a)
      PROVE  ClaimedEpoch'
  <2>1. \A x \in Ops : row'[x].status = "claimed" => row'[x] = row[x]
    BY <1>24 DEF AdminResolve, TypeOK, TableTypes, RowType
  <2> QED
    BY <2>1
<1>25. CASE Crash
  BY <1>25, <1>u DEF Crash
<1>26. CASE Boot
  BY <1>26, <1>u DEF Boot
<1>27. CASE Serve
  BY <1>27, <1>u DEF Serve
<1>28. ASSUME NEW o \in Ops, ReconcileOperation(o)
      PROVE  ClaimedEpoch'
  BY <1>28, <1>e DEF ReconcileOperation
<1>29. ASSUME NEW s \in Stories, ReconcileClaim(s)
      PROVE  ClaimedEpoch'
  BY <1>29, <1>u DEF ReconcileClaim
<1>30. CASE UNCHANGED vars
  BY <1>30, <1>u DEF vars
<1> QED
  BY <1>1, <1>2, <1>3, <1>4, <1>5, <1>6, <1>7, <1>8, <1>9, <1>10, <1>11,
     <1>12, <1>13, <1>14, <1>15, <1>16, <1>17, <1>18, <1>19, <1>20, <1>21,
     <1>22, <1>23, <1>24, <1>25, <1>26, <1>27, <1>28, <1>29, <1>30
     DEF Next, RequestStep, AdminStep, Recovery

(* A boot makes every stamp old, and a reconciling process takes no claims. *)
LEMMA StampsStep ==
  ASSUME TypeOK, LedgerInv, OldStamps, [Next]_vars
  PROVE  OldStamps'
<1> USE DEF dbVars, reqVars, sysVars, history
<1>l. StoppedUnlessServing /\ StampedByNow
  BY DEF LedgerInv
<1>m. ASSUME mode = "serving", mode' = mode PROVE OldStamps'
  BY <1>m DEF OldStamps
<1>r. ASSUME NEW r \in Requests, pc[r] \in Live, mode' = mode PROVE OldStamps'
  BY <1>l, <1>m, <1>r, RunningThread
<1>a. ASSUME NEW a \in Admins, adm[a].pc # "idle", mode' = mode PROVE OldStamps'
  BY <1>l, <1>m, <1>a, RunningAdmin
<1> USE DEF Live, EarlySteps, EngineSteps, ExitSteps
<1>1. ASSUME NEW r \in Requests, NEW o \in Ops, NEW k \in Kinds, Receive(r, o, k)
      PROVE  OldStamps'
  BY <1>1, <1>m DEF Receive
<1>2. ASSUME NEW r \in Requests, RefuseEarly(r)
      PROVE  OldStamps'
  BY <1>2, <1>r DEF RefuseEarly
<1>3. ASSUME NEW r \in Requests, PassRepairLock(r)
      PROVE  OldStamps'
  BY <1>3, <1>r DEF PassRepairLock
<1>4. ASSUME NEW r \in Requests, AcquireClaim(r)
      PROVE  OldStamps'
  BY <1>4, <1>r DEF AcquireClaim
<1>5. ASSUME NEW r \in Requests, Reload(r)
      PROVE  OldStamps'
  BY <1>5, <1>r DEF Reload
<1>6. ASSUME NEW r \in Requests, AcquireObjectClaim(r)
      PROVE  OldStamps'
  BY <1>6, <1>r DEF AcquireObjectClaim
<1>7. ASSUME NEW r \in Requests, EngineWrite(r)
      PROVE  OldStamps'
  BY <1>7, <1>r DEF EngineWrite
<1>8. ASSUME NEW r \in Requests, DispatchRejected(r)
      PROVE  OldStamps'
  BY <1>8, <1>r DEF DispatchRejected
<1>9. ASSUME NEW r \in Requests, DispatchReturned(r)
      PROVE  OldStamps'
  BY <1>9, <1>r DEF DispatchReturned
<1>10. ASSUME NEW r \in Requests, Raise(r)
      PROVE  OldStamps'
  BY <1>10, <1>r DEF Raise
<1>11. ASSUME NEW r \in Requests, Finalize(r)
      PROVE  OldStamps'
  BY <1>11, <1>r DEF Finalize
<1>12. ASSUME NEW r \in Requests, FinalizeFrozen(r)
      PROVE  OldStamps'
  BY <1>12, <1>r DEF FinalizeFrozen
<1>13. ASSUME NEW r \in Requests, TerminalizeFrozen(r)
      PROVE  OldStamps'
  BY <1>13, <1>r DEF TerminalizeFrozen
<1>14. ASSUME NEW r \in Requests, CommitWithSideEffects(r)
      PROVE  OldStamps'
  BY <1>14, <1>r DEF CommitWithSideEffects
<1>15. ASSUME NEW r \in Requests, CommitRefused(r)
      PROVE  OldStamps'
  BY <1>15, <1>r DEF CommitRefused
<1>16. ASSUME NEW r \in Requests, ReleaseMyClaim(r)
      PROVE  OldStamps'
  BY <1>16, <1>r DEF ReleaseMyClaim
<1>17. ASSUME NEW r \in Requests, ReleaseMyClaimBestEffort(r)
      PROVE  OldStamps'
  BY <1>17, <1>r DEF ReleaseMyClaimBestEffort
<1>18. ASSUME NEW r \in Requests, ReleaseObjectClaim(r)
      PROVE  OldStamps'
  BY <1>18, <1>r DEF ReleaseObjectClaim
<1>19. ASSUME NEW r \in Requests, ReleaseFails(r)
      PROVE  OldStamps'
  BY <1>19, <1>r DEF ReleaseFails
<1>20. ASSUME NEW a \in Admins, NEW o \in Ops, AdminLoad(a, o)
      PROVE  OldStamps'
  BY <1>20, <1>m DEF AdminLoad
<1>21. ASSUME NEW a \in Admins, AdminProbe(a)
      PROVE  OldStamps'
  BY <1>21, <1>a DEF AdminProbe
<1>22. ASSUME NEW a \in Admins, AdminAbort(a)
      PROVE  OldStamps'
  BY <1>22, <1>a DEF AdminAbort
<1>23. ASSUME NEW a \in Admins, AdminRelease(a)
      PROVE  OldStamps'
  BY <1>23, <1>a DEF AdminRelease
<1>24. ASSUME NEW a \in Admins, AdminResolve(a)
      PROVE  OldStamps'
  BY <1>24, <1>a DEF AdminResolve
<1>25. CASE Crash
  BY <1>25 DEF Crash, OldStamps
<1>26. CASE Boot
  BY <1>26, <1>l DEF Boot, OldStamps, StampedByNow, TypeOK, TableTypes, ProcessTypes, RowType
<1>27. CASE Serve
  BY <1>27 DEF Serve, OldStamps
<1>28. ASSUME NEW o \in Ops, ReconcileOperation(o)
      PROVE  OldStamps'
  BY <1>28, EndClaimEffect DEF ReconcileOperation, OldStamps, TypeOK, TableTypes
<1>29. ASSUME NEW s \in Stories, ReconcileClaim(s)
      PROVE  OldStamps'
  BY <1>29 DEF ReconcileClaim, OrphanedClaims, NoClaim, OldStamps, TypeOK, TableTypes, ProcessTypes
<1>30. CASE UNCHANGED vars
  BY <1>30 DEF vars, OldStamps
<1> QED
  BY <1>1, <1>2, <1>3, <1>4, <1>5, <1>6, <1>7, <1>8, <1>9, <1>10, <1>11,
     <1>12, <1>13, <1>14, <1>15, <1>16, <1>17, <1>18, <1>19, <1>20, <1>21,
     <1>22, <1>23, <1>24, <1>25, <1>26, <1>27, <1>28, <1>29, <1>30
     DEF Next, RequestStep, AdminStep, Recovery

(* A thread that owns its row keeps a place from which it ends the claim. *)
LEMMA RowsHeldStep ==
  ASSUME TypeOK, TypeOK', LedgerInv, ClaimedEpoch, OldStamps, RowsHeld, [Next]_vars
  PROVE  RowsHeld'
<1> USE DEF dbVars, reqVars, sysVars, history
<1>l. StoppedUnlessServing /\ KindsOfSteps
  BY DEF LedgerInv
<1>t. \A r \in Requests : pc[r] # "idle" => op[r] \in Ops
  BY DEF TypeOK, ThreadTypes
<1>o. \A r \in Requests : pc[r] # "idle" /\ row[op[r]].status = "claimed" /\ row[op[r]].by = r => OwnsRow(r)
  BY <1>t DEF ClaimedEpoch, OwnsRow
(* One thread steps, and its row stays as it is, ends, or becomes its own.   *)
<1>q. ASSUME NEW r \in Requests, pc[r] \in Live, NEW step, Goto(r, step),
             UNCHANGED <<op, kind, mode, faults>>,
             \A x \in Ops : x # op[r] => row'[x] = row[x],
             row'[op[r]].status = "claimed" =>
               \/ /\ row'[op[r]] = row[op[r]]
                  /\ row[op[r]].by = r /\ HasClaimed(r) => HasClaimed(r)'
               \/ row'[op[r]].by = r /\ HasClaimed(r)'
      PROVE  RowsHeld'
  <2> SUFFICES ASSUME mode = "serving", faults = 0, NEW o \in Ops, row'[o].status = "claimed"
               PROVE  InOwnersHands(o)'
    BY <1>q DEF RowsHeld
  <2>0. \A r2 \in Requests : r2 # r /\ HasClaimed(r2) => HasClaimed(r2)'
    BY <1>q DEF HasClaimed, Goto, TypeOK, ThreadTypes
  <2>1. CASE row'[o] = row[o]
    <3>1. PICK r2 \in Requests : row[o].by = r2 /\ op[r2] = o /\ HasClaimed(r2)
      BY <2>1, <1>q DEF RowsHeld, InOwnersHands
    <3>2. HasClaimed(r2)'
      BY <1>q, <2>0, <3>1
    <3> QED
      BY <1>q, <2>1, <3>1, <3>2 DEF InOwnersHands
  <2>2. CASE row'[o] # row[o]
    BY <1>q, <2>2 DEF InOwnersHands
  <2> QED
    BY <2>1, <2>2
(* The row is left alone, and so is the thread's claim.                      *)
<1>k. ASSUME NEW r \in Requests, pc[r] \in Live, NEW step, Goto(r, step),
             UNCHANGED <<op, kind, mode, faults, row>>, HasClaimed(r) => HasClaimed(r)'
      PROVE  RowsHeld'
  BY <1>k, <1>q
(* The thread ends its claim if it owns it.                                  *)
<1>e. ASSUME NEW r \in Requests, pc[r] \in Live, NEW step, Goto(r, step),
             UNCHANGED <<op, kind, mode, faults>>,
             IF OwnsRow(r) THEN /\ row'[op[r]].status # "claimed"
                                /\ \A x \in Ops : x # op[r] => row'[x] = row[x]
                           ELSE UNCHANGED row
      PROVE  RowsHeld'
  <2>1. op[r] \in Ops /\ pc[r] # "idle"
    BY <1>e, <1>t DEF Live, EarlySteps, EngineSteps, ExitSteps
  <2> QED
    BY <1>e, <1>o, <1>q, <2>1
(* Nobody but administrators and the reconciliation steps.                   *)
<1>a. ASSUME UNCHANGED <<reqVars, mode, faults>>,
             \A x \in Ops : row'[x].status = "claimed" => row'[x] = row[x]
      PROVE  RowsHeld'
  BY <1>a DEF RowsHeld, InOwnersHands, HasClaimed
<1> USE DEF Live, EarlySteps, EngineSteps, ExitSteps
<1>1. ASSUME NEW r \in Requests, NEW o \in Ops, NEW k \in Kinds, Receive(r, o, k)
      PROVE  RowsHeld'
  <2>1. \A r2 \in Requests : r2 # r => pc'[r2] = pc[r2] /\ op'[r2] = op[r2] /\ kind'[r2] = kind[r2]
    BY <1>1 DEF Receive, Finish, Goto, TypeOK, ThreadTypes
  <2>2. ~HasClaimed(r)
    BY <1>1 DEF Receive, HasClaimed
  <2> QED
    BY <1>1, <2>1, <2>2 DEF Receive, RowsHeld, InOwnersHands, HasClaimed
<1>2. ASSUME NEW r \in Requests, RefuseEarly(r)
      PROVE  RowsHeld'
  BY <1>2, <1>k DEF RefuseEarly, HasClaimed, Finish, Goto, TypeOK, ThreadTypes
<1>3. ASSUME NEW r \in Requests, PassRepairLock(r)
      PROVE  RowsHeld'
  BY <1>3, <1>k DEF PassRepairLock, HasClaimed, AfterLock, Goto, TypeOK, ThreadTypes
<1>4. ASSUME NEW r \in Requests, AcquireClaim(r)
      PROVE  RowsHeld'
  <2>1. op[r] \in Ops /\ kind[r] \in ClaimingKinds
    BY <1>4, <1>t, <1>l DEF AcquireClaim, KindsOfSteps
  <2>2. CASE row[op[r]].status = "none"
    <3>1. row'[op[r]].by = r /\ \A x \in Ops : x # op[r] => row'[x] = row[x]
      BY <1>4, <2>1, <2>2 DEF AcquireClaim, TypeOK, TableTypes
    <3>2. HasClaimed(r)'
      BY <1>4, <2>1, <2>2 DEF AcquireClaim, HasClaimed, Goto, TypeOK, ThreadTypes
    <3> QED
      BY <1>4, <1>q, <2>2, <3>1, <3>2 DEF AcquireClaim
  <2>3. CASE row[op[r]].status # "none"
    BY <1>4, <1>k, <2>3 DEF AcquireClaim, Finish, HasClaimed
  <2> QED
    BY <2>2, <2>3
<1>5. ASSUME NEW r \in Requests, Reload(r)
      PROVE  RowsHeld'
  BY <1>5, <1>k DEF Reload, HasClaimed, Finish, Goto, TypeOK, ThreadTypes
<1>6. ASSUME NEW r \in Requests, AcquireObjectClaim(r)
      PROVE  RowsHeld'
  BY <1>6, <1>k DEF AcquireObjectClaim, HasClaimed, Finish, Goto, TypeOK, ThreadTypes
<1>7. ASSUME NEW r \in Requests, EngineWrite(r)
      PROVE  RowsHeld'
  BY <1>7, <1>k DEF EngineWrite, HasClaimed, Goto, TypeOK, ThreadTypes
<1>8. ASSUME NEW r \in Requests, DispatchRejected(r)
      PROVE  RowsHeld'
  BY <1>8, <1>k DEF DispatchRejected, HasClaimed, Goto, TypeOK, ThreadTypes
<1>9. ASSUME NEW r \in Requests, DispatchReturned(r)
      PROVE  RowsHeld'
  BY <1>9, <1>k DEF DispatchReturned, HasClaimed, Goto, TypeOK, ThreadTypes
<1>10. ASSUME NEW r \in Requests, Raise(r)
      PROVE  RowsHeld'
  BY <1>10, <1>k DEF Raise, HasClaimed, Goto, TypeOK, ThreadTypes
<1>11. ASSUME NEW r \in Requests, Finalize(r)
      PROVE  RowsHeld'
  <2>1. op[r] \in Ops
    BY <1>11, <1>t DEF Finalize
  <2> QED
    BY <1>11, <1>e, <2>1, EndClaimEffect DEF Finalize, TypeOK, TableTypes
<1>12. ASSUME NEW r \in Requests, FinalizeFrozen(r)
      PROVE  RowsHeld'
  BY <1>12, <1>k DEF FinalizeFrozen, HasClaimed, Goto, TypeOK, ThreadTypes
<1>13. ASSUME NEW r \in Requests, TerminalizeFrozen(r)
      PROVE  RowsHeld'
  <2>1. op[r] \in Ops
    BY <1>13, <1>t DEF TerminalizeFrozen
  <2> QED
    BY <1>13, <1>e, <2>1, EndClaimEffect DEF TerminalizeFrozen, TypeOK, TableTypes
<1>14. ASSUME NEW r \in Requests, CommitWithSideEffects(r)
      PROVE  RowsHeld'
  <2>1. op[r] \in Ops
    BY <1>14, <1>t DEF CommitWithSideEffects
  <2>2. row'[op[r]].status = "committed" /\ \A x \in Ops : x # op[r] => row'[x] = row[x]
    BY <1>14, <2>1 DEF CommitWithSideEffects, TypeOK, TableTypes, RowType
  <2> QED
    BY <1>14, <1>q, <2>2 DEF CommitWithSideEffects
<1>15. ASSUME NEW r \in Requests, CommitRefused(r)
      PROVE  RowsHeld'
  BY <1>15, <1>k DEF CommitRefused, HasClaimed, Goto, TypeOK, ThreadTypes
<1>16. ASSUME NEW r \in Requests, ReleaseMyClaim(r)
      PROVE  RowsHeld'
  <2>1. op[r] \in Ops
    BY <1>16, <1>t DEF ReleaseMyClaim
  <2>2. ReleaseRow(r) => /\ row'[op[r]].status # "claimed"
                        /\ \A x \in Ops : x # op[r] => row'[x] = row[x]
    BY <2>1 DEF ReleaseRow, NoRow, TypeOK, TableTypes
  <2> QED
    BY <1>16, <1>e, <2>2 DEF ReleaseMyClaim
<1>17. ASSUME NEW r \in Requests, ReleaseMyClaimBestEffort(r)
      PROVE  RowsHeld'
  <2>1. op[r] \in Ops
    BY <1>17, <1>t DEF ReleaseMyClaimBestEffort
  <2>2. ReleaseRow(r) => /\ row'[op[r]].status # "claimed"
                        /\ \A x \in Ops : x # op[r] => row'[x] = row[x]
    BY <2>1 DEF ReleaseRow, NoRow, TypeOK, TableTypes
  <2> QED
    BY <1>17, <1>e, <2>2 DEF ReleaseMyClaimBestEffort
<1>18. ASSUME NEW r \in Requests, ReleaseObjectClaim(r)
      PROVE  RowsHeld'
  BY <1>18, <1>k DEF ReleaseObjectClaim, HasClaimed, Goto, TypeOK, ThreadTypes
<1>19. ASSUME NEW r \in Requests, ReleaseFails(r)
      PROVE  RowsHeld'
  BY <1>19 DEF ReleaseFails, RowsHeld, TypeOK, ProcessTypes
<1>20. ASSUME NEW a \in Admins, NEW o \in Ops, AdminLoad(a, o)
      PROVE  RowsHeld'
  BY <1>20, <1>a DEF AdminLoad
<1>21. ASSUME NEW a \in Admins, AdminProbe(a)
      PROVE  RowsHeld'
  BY <1>21, <1>a DEF AdminProbe
<1>22. ASSUME NEW a \in Admins, AdminAbort(a)
      PROVE  RowsHeld'
  <2>1. adm[a].op \in Ops /\ adm[a].verdict \in {"aborted", "repair"}
    BY <1>22, <1>l, RunningAdmin DEF AdminAbort, TypeOK, AdminTypes
  <2>2. \A x \in Ops : row'[x].status = "claimed" => row'[x] = row[x]
    BY <1>22, <2>1, EndClaimEffect DEF AdminAbort, TypeOK, TableTypes
  <2> QED
    BY <1>22, <1>a, <2>2 DEF AdminAbort
<1>23. ASSUME NEW a \in Admins, AdminRelease(a)
      PROVE  RowsHeld'
  <2>1. CASE UNCHANGED faults
    BY <1>23, <1>a, <2>1 DEF AdminRelease
  <2> QED
    BY <1>23, <2>1 DEF AdminRelease, RowsHeld, TypeOK, ProcessTypes
<1>24. ASSUME NEW a \in Admins, AdminResolve(a)
      PROVE  RowsHeld'
  <2>1. \A x \in Ops : row'[x].status = "claimed" => row'[x] = row[x]
    BY <1>24 DEF AdminResolve, TypeOK, TableTypes, RowType
  <2> QED
    BY <1>24, <1>a, <2>1 DEF AdminResolve
<1>25. CASE Crash
  BY <1>25 DEF Crash, RowsHeld
<1>26. CASE Boot
  BY <1>26 DEF Boot, RowsHeld
<1>27. CASE Serve
  BY <1>27 DEF Serve, RowsHeld, OldStamps, OrphanedOps
<1>28. ASSUME NEW o \in Ops, ReconcileOperation(o)
      PROVE  RowsHeld'
  BY <1>28 DEF ReconcileOperation, RowsHeld
<1>29. ASSUME NEW s \in Stories, ReconcileClaim(s)
      PROVE  RowsHeld'
  BY <1>29 DEF ReconcileClaim, RowsHeld
<1>30. CASE UNCHANGED vars
  BY <1>30, <1>a DEF vars
<1> QED
  BY <1>1, <1>2, <1>3, <1>4, <1>5, <1>6, <1>7, <1>8, <1>9, <1>10, <1>11,
     <1>12, <1>13, <1>14, <1>15, <1>16, <1>17, <1>18, <1>19, <1>20, <1>21,
     <1>22, <1>23, <1>24, <1>25, <1>26, <1>27, <1>28, <1>29, <1>30
     DEF Next, RequestStep, AdminStep, Recovery

(* A story claim stays with a thread that will release it. *)
LEMMA StoriesHeldStep ==
  ASSUME TypeOK, TypeOK', LedgerInv, OldStamps, StoriesHeld, [Next]_vars
  PROVE  StoriesHeld'
<1> USE DEF dbVars, reqVars, sysVars, history
<1>l. StoppedUnlessServing
  BY DEF LedgerInv
<1>t. \A r \in Requests : pc[r] # "idle" => op[r] \in Ops
  BY DEF TypeOK, ThreadTypes
(* One thread steps: a story claim stays, is released or is taken by it, and *)
(* the thread gives its place up only when the claim is not its op_id's.     *)
<1>q. ASSUME NEW r \in Requests, pc[r] \in Live, NEW step, Goto(r, step),
             UNCHANGED <<op, mode, faults>>,
             \A s \in Stories :
               \/ obj'[s] = NoClaim
               \/ obj'[s].op = op[r] /\ StoryOf[op[r]] = s /\ r \in Holders(op[r])'
               \/ /\ obj'[s] = obj[s]
                  /\ obj[s].op = op[r] /\ StoryOf[op[r]] = s /\ r \in Holders(op[r])
                       => r \in Holders(op[r])'
      PROVE  StoriesHeld'
  <2> SUFFICES ASSUME mode = "serving", faults = 0, NEW s \in Stories, obj'[s] # NoClaim
               PROVE  /\ obj'[s].op \in Ops /\ StoryOf[obj'[s].op] = s
                      /\ \E r2 \in Requests : r2 \in Holders(obj[s].op)'
    BY <1>q DEF StoriesHeld, NoClaim
  <2>0. op[r] \in Ops
    BY <1>t, <1>q DEF Live, EarlySteps, EngineSteps, ExitSteps
  <2>1. \A r2 \in Requests, o \in Ops : r2 # r /\ r2 \in Holders(o) => r2 \in Holders(o)'
    BY <1>q DEF Holders, Goto, TypeOK, ThreadTypes
  <2>2. CASE obj'[s].op = op[r] /\ StoryOf[op[r]] = s /\ r \in Holders(op[r])'
    <3>1. Holders(op[r])' = Holders(obj[s].op)'
      BY <1>q, <2>2 DEF Holders
    <3> QED
      BY <2>0, <2>2, <3>1
  <2>3. CASE /\ obj'[s] = obj[s]
             /\ obj[s].op = op[r] /\ StoryOf[op[r]] = s /\ r \in Holders(op[r])
                  => r \in Holders(op[r])'
    <3>1. obj[s].op \in Ops /\ StoryOf[obj[s].op] = s
      BY <2>3 DEF StoriesHeld
    <3>2. PICK r2 \in Requests : r2 \in Holders(obj[s].op)
      BY <2>3 DEF StoriesHeld
    <3>3. \E r3 \in Requests : r3 \in Holders(obj[s].op)'
      <4>1. CASE r2 # r
        <5>1. op'[r2] = obj[s].op /\ pc'[r2] = pc[r2] /\ obj'[s].op = obj[s].op
          BY <1>q, <2>3, <3>2, <4>1 DEF Holders, Goto, TypeOK, ThreadTypes
        <5> QED
          BY <3>2, <5>1 DEF Holders
      <4>2. CASE r2 = r
        <5>1. obj[s].op = op[r]
          BY <3>2, <4>2 DEF Holders
        <5>2. r \in Holders(op[r])'
          BY <2>3, <3>1, <3>2, <4>2, <5>1
        <5>3. obj'[s].op = op'[r]
          BY <1>q, <2>3, <5>1
        <5> QED
          BY <5>2, <5>3 DEF Holders
      <4> QED
        BY <4>1, <4>2
    <3> QED
      BY <2>3, <3>1, <3>3
  <2> QED
    BY <1>q, <2>2, <2>3
(* The story claims are left alone, and the thread keeps its place.          *)
<1>k. ASSUME NEW r \in Requests, pc[r] \in Live, NEW step, Goto(r, step),
             UNCHANGED <<op, mode, faults, obj>>,
             r \in Holders(op[r]) => r \in Holders(op[r])'
      PROVE  StoriesHeld'
  BY <1>k, <1>q
(* Nobody but administrators and the reconciliation steps.                   *)
<1>a. ASSUME UNCHANGED <<reqVars, mode, faults>>,
             \A s \in Stories : obj'[s] = obj[s] \/ obj'[s] = NoClaim
      PROVE  StoriesHeld'
  <2>1. \A o \in Ops, r \in Requests : r \in Holders(o) => r \in Holders(o)'
    BY <1>a DEF Holders
  <2>2. ASSUME NEW s \in Stories, obj'[s] # NoClaim, mode = "serving", faults = 0
        PROVE  \E r \in Requests : r \in Holders(obj[s].op)'
    BY <1>a, <2>2 DEF StoriesHeld, Holders
  <2> QED
    BY <1>a, <2>1, <2>2 DEF StoriesHeld, NoClaim
<1> USE DEF Live, EarlySteps, EngineSteps, ExitSteps
<1>1. ASSUME NEW r \in Requests, NEW o \in Ops, NEW k \in Kinds, Receive(r, o, k)
      PROVE  StoriesHeld'
  <2>1. \A r2 \in Requests : r2 # r => pc'[r2] = pc[r2] /\ op'[r2] = op[r2]
    BY <1>1 DEF Receive, Finish, Goto, TypeOK, ThreadTypes
  <2>2. \A x : r \notin Holders(x)
    BY <1>1 DEF Receive, Holders
  <2>3. UNCHANGED <<obj, mode, faults>>
    BY <1>1 DEF Receive
  <2>4. ASSUME NEW s \in Stories, obj[s] # NoClaim, mode = "serving", faults = 0
        PROVE  \E r2 \in Requests : r2 \in Holders(obj[s].op)'
    BY <2>1, <2>2, <2>3, <2>4 DEF StoriesHeld, Holders
  <2> QED
    BY <2>3, <2>4 DEF StoriesHeld, NoClaim
<1>2. ASSUME NEW r \in Requests, RefuseEarly(r)
      PROVE  StoriesHeld'
  BY <1>2, <1>k DEF RefuseEarly, Holders, Finish, Goto, TypeOK, ThreadTypes
<1>3. ASSUME NEW r \in Requests, PassRepairLock(r)
      PROVE  StoriesHeld'
  BY <1>3, <1>k DEF PassRepairLock, Holders, AfterLock, Goto, TypeOK, ThreadTypes
<1>4. ASSUME NEW r \in Requests, AcquireClaim(r)
      PROVE  StoriesHeld'
  BY <1>4, <1>k DEF AcquireClaim, Holders, Finish, Goto, TypeOK, ThreadTypes
<1>5. ASSUME NEW r \in Requests, Reload(r)
      PROVE  StoriesHeld'
  BY <1>5, <1>k DEF Reload, Holders, Finish, Goto, TypeOK, ThreadTypes
<1>6. ASSUME NEW r \in Requests, AcquireObjectClaim(r)
      PROVE  StoriesHeld'
  <2>1. op[r] \in Ops /\ StoryOf[op[r]] \in Stories
    BY <1>6, <1>t, LedgerAssumption DEF AcquireObjectClaim
  <2>2. CASE obj[StoryOf[op[r]]] = NoClaim
    <3>1. r \in Holders(op[r])'
      BY <1>6, <2>2 DEF AcquireObjectClaim, Holders, Goto, TypeOK, ThreadTypes
    <3>2. /\ obj'[StoryOf[op[r]]].op = op[r]
          /\ \A s \in Stories : s # StoryOf[op[r]] => obj'[s] = obj[s]
      BY <1>6, <2>1, <2>2 DEF AcquireObjectClaim, TypeOK, TableTypes
    <3> QED
      BY <1>6, <1>q, <2>2, <3>1, <3>2 DEF AcquireObjectClaim
  <2>3. CASE obj[StoryOf[op[r]]] # NoClaim
    BY <1>6, <1>k, <2>3 DEF AcquireObjectClaim, Finish, Holders
  <2> QED
    BY <2>2, <2>3
<1>7. ASSUME NEW r \in Requests, EngineWrite(r)
      PROVE  StoriesHeld'
  BY <1>7, <1>k DEF EngineWrite, Holders, Goto, TypeOK, ThreadTypes
<1>8. ASSUME NEW r \in Requests, DispatchRejected(r)
      PROVE  StoriesHeld'
  BY <1>8, <1>k DEF DispatchRejected, Holders, Goto, TypeOK, ThreadTypes
<1>9. ASSUME NEW r \in Requests, DispatchReturned(r)
      PROVE  StoriesHeld'
  BY <1>9, <1>k DEF DispatchReturned, Holders, Goto, TypeOK, ThreadTypes
<1>10. ASSUME NEW r \in Requests, Raise(r)
      PROVE  StoriesHeld'
  BY <1>10, <1>k DEF Raise, Holders, Goto, TypeOK, ThreadTypes
<1>11. ASSUME NEW r \in Requests, Finalize(r)
      PROVE  StoriesHeld'
  BY <1>11, <1>k DEF Finalize, Holders, Goto, TypeOK, ThreadTypes
<1>12. ASSUME NEW r \in Requests, FinalizeFrozen(r)
      PROVE  StoriesHeld'
  BY <1>12, <1>k DEF FinalizeFrozen, Holders, Goto, TypeOK, ThreadTypes
<1>13. ASSUME NEW r \in Requests, TerminalizeFrozen(r)
      PROVE  StoriesHeld'
  BY <1>13, <1>k DEF TerminalizeFrozen, Holders, Goto, TypeOK, ThreadTypes
<1>14. ASSUME NEW r \in Requests, CommitWithSideEffects(r)
      PROVE  StoriesHeld'
  BY <1>14, <1>k DEF CommitWithSideEffects, Holders, Goto, TypeOK, ThreadTypes
<1>15. ASSUME NEW r \in Requests, CommitRefused(r)
      PROVE  StoriesHeld'
  BY <1>15, <1>k DEF CommitRefused, Holders, Goto, TypeOK, ThreadTypes
<1>16. ASSUME NEW r \in Requests, ReleaseMyClaim(r)
      PROVE  StoriesHeld'
  BY <1>16, <1>k DEF ReleaseMyClaim, Holders, Goto, TypeOK, ThreadTypes
<1>17. ASSUME NEW r \in Requests, ReleaseMyClaimBestEffort(r)
      PROVE  StoriesHeld'
  BY <1>17, <1>k DEF ReleaseMyClaimBestEffort, Holders, Goto, TypeOK, ThreadTypes
<1>18. ASSUME NEW r \in Requests, ReleaseObjectClaim(r)
      PROVE  StoriesHeld'
  <2>1. op[r] \in Ops /\ StoryOf[op[r]] \in Stories
    BY <1>18, <1>t, LedgerAssumption DEF ReleaseObjectClaim
  <2>2. \A s \in Stories :
          \/ obj'[s] = NoClaim
          \/ obj'[s] = obj[s] /\ ~(obj[s].op = op[r] /\ StoryOf[op[r]] = s)
    BY <1>18 DEF ReleaseObjectClaim, ReleaseObject
  <2> QED
    BY <1>18, <1>q, <2>2 DEF ReleaseObjectClaim
<1>19. ASSUME NEW r \in Requests, ReleaseFails(r)
      PROVE  StoriesHeld'
  BY <1>19 DEF ReleaseFails, StoriesHeld, TypeOK, ProcessTypes
<1>20. ASSUME NEW a \in Admins, NEW o \in Ops, AdminLoad(a, o)
      PROVE  StoriesHeld'
  BY <1>20, <1>a DEF AdminLoad
<1>21. ASSUME NEW a \in Admins, AdminProbe(a)
      PROVE  StoriesHeld'
  BY <1>21, <1>a DEF AdminProbe
<1>22. ASSUME NEW a \in Admins, AdminAbort(a)
      PROVE  StoriesHeld'
  BY <1>22, <1>a DEF AdminAbort
<1>23. ASSUME NEW a \in Admins, AdminRelease(a)
      PROVE  StoriesHeld'
  <2>1. CASE UNCHANGED faults
    <3>1. \A s \in Stories : obj'[s] = obj[s] \/ obj'[s] = NoClaim
      BY <1>23 DEF AdminRelease, ReleaseObject
    <3> QED
      BY <1>23, <1>a, <2>1, <3>1 DEF AdminRelease
  <2> QED
    BY <1>23, <2>1 DEF AdminRelease, StoriesHeld, TypeOK, ProcessTypes
<1>24. ASSUME NEW a \in Admins, AdminResolve(a)
      PROVE  StoriesHeld'
  BY <1>24, <1>a DEF AdminResolve
<1>25. CASE Crash
  BY <1>25 DEF Crash, StoriesHeld
<1>26. CASE Boot
  BY <1>26 DEF Boot, StoriesHeld
<1>27. CASE Serve
  BY <1>27 DEF Serve, StoriesHeld, OldStamps, OrphanedClaims, NoClaim
<1>28. ASSUME NEW o \in Ops, ReconcileOperation(o)
      PROVE  StoriesHeld'
  BY <1>28 DEF ReconcileOperation, StoriesHeld
<1>29. ASSUME NEW s \in Stories, ReconcileClaim(s)
      PROVE  StoriesHeld'
  BY <1>29 DEF ReconcileClaim, StoriesHeld
<1>30. CASE UNCHANGED vars
  BY <1>30, <1>a DEF vars
<1> QED
  BY <1>1, <1>2, <1>3, <1>4, <1>5, <1>6, <1>7, <1>8, <1>9, <1>10, <1>11,
     <1>12, <1>13, <1>14, <1>15, <1>16, <1>17, <1>18, <1>19, <1>20, <1>21,
     <1>22, <1>23, <1>24, <1>25, <1>26, <1>27, <1>28, <1>29, <1>30
     DEF Next, RequestStep, AdminStep, Recovery

(* THEOREM.  As long as no release statement fails, no claim is left behind:  *)
(* a claimed row belongs to a thread that will finalize or release it, and a  *)
(* story claim to a thread that will delete it, after refusals, exceptions,   *)
(* lost CAS, administrative aborts, crashes and reconciliations alike.       *)
THEOREM NothingLeaks == Spec => []NoLeakedClaim
<1>1. Init => LeakInv
  BY DEF Init, LeakInv, ClaimedEpoch, OldStamps, RowsHeld, StoriesHeld, NoRow, NoClaim
<1>2. TypeOK /\ TypeOK' /\ LedgerInv /\ LeakInv /\ [Next]_vars => LeakInv'
  <2> SUFFICES ASSUME TypeOK, TypeOK', LedgerInv, LeakInv, [Next]_vars PROVE LeakInv'
    OBVIOUS
  <2> QED
    BY EpochStep, StampsStep, RowsHeldStep, StoriesHeldStep DEF LeakInv
<1>3. TypeOK /\ LeakInv => NoLeakedClaim
  <2>1. ASSUME NEW r \in Requests, HasClaimed(r) \/ \E o \in Ops : r \in Holders(o)
        PROVE  pc[r] \in Live
    BY <2>1 DEF HasClaimed, Holders, Live, EarlySteps, EngineSteps, ExitSteps
  <2>2. \A r \in Requests, o \in Ops : r \in Holders(o) => op[r] = o
    BY DEF Holders
  <2>3. ASSUME mode = "serving", faults = 0, LeakInv, NEW o \in Ops, row[o].status = "claimed"
        PROVE  \E r \in Requests : row[o].by = r /\ op[r] = o /\ pc[r] \in Live
    BY <2>1, <2>3 DEF LeakInv, RowsHeld, InOwnersHands
  <2>4. ASSUME mode = "serving", faults = 0, LeakInv, NEW s \in Stories, obj[s] # NoClaim
        PROVE  \E r \in Requests : op[r] = obj[s].op /\ pc[r] \in Live
    BY <2>1, <2>2, <2>4 DEF LeakInv, StoriesHeld
  <2> QED
    BY <2>3, <2>4 DEF NoLeakedClaim
<1> QED
  BY <1>1, <1>2, <1>3, TypeCorrect, LedgerInvariant, PTL DEF Spec

------------------------------------------------------------------------------
(* start and resume implement the abstract ledger.                           *)

(* What a row that changes its status shows: one action of IdempotentLedger.  *)
Moves == {<<"none", "claimed">>, <<"claimed", "none">>, <<"claimed", "committed">>,
          <<"claimed", "rejected">>, <<"repair", "resolved">>} \cup
         ({"claimed"} \X NonCommittedTerminal)

(* A client is told of no success that it was not told of before. *)
ToldAsBefore ==
  \A r \in Requests : /\ ToldSuccess(r)' = ToldSuccess(r)
                      /\ ToldSuccess(r) => op'[r] = op[r]

(* Neither the rows' statuses nor what clients were told change: a stutter.  *)
LEMMA Hidden ==
  ASSUME \A x \in Ops : row'[x].status = row[x].status, ToldAsBefore
  PROVE  UNCHANGED Ledger!vars
BY DEF Ledger!vars, ToldAsBefore

(* One row changes its status, and no client is told: an action on its op_id. *)
LEMMA Shown ==
  ASSUME NEW o \in Ops, ToldAsBefore,
         \A x \in Ops : x # o => row'[x].status = row[x].status,
         <<row[o].status, row'[o].status>> \in Moves
  PROVE  Ledger!Next
<1> DEFINE Out == [x \in Ops |-> OutcomeOf(row[x].status)]
<1>1. [r \in Requests |-> IF ToldSuccess(r) THEN op[r] ELSE None]' =
        [r \in Requests |-> IF ToldSuccess(r) THEN op[r] ELSE None]
  BY DEF ToldAsBefore
<1>2. Out' = [Out EXCEPT ![o] = OutcomeOf(row'[o].status)] /\ Out[o] = OutcomeOf(row[o].status)
  OBVIOUS
<1>3. /\ OutcomeOf("none") = "unused" /\ OutcomeOf("claimed") = "running"
      /\ OutcomeOf("committed") = "applied" /\ OutcomeOf("rejected") = "refused"
      /\ \A st \in NonCommittedTerminal : OutcomeOf(st) = "abandoned"
      /\ OutcomeOf("resolved") = "resolved"
  BY DEF OutcomeOf, NonCommittedTerminal
<1>4. \/ row[o].status = "none" /\ row'[o].status = "claimed"
      \/ row[o].status = "claimed" /\ row'[o].status = "none"
      \/ row[o].status = "claimed" /\ row'[o].status = "committed"
      \/ row[o].status = "claimed" /\ row'[o].status = "rejected"
      \/ row[o].status = "repair" /\ row'[o].status = "resolved"
      \/ row[o].status = "claimed" /\ row'[o].status \in NonCommittedTerminal
  BY DEF Moves
<1>5. "repair" \in NonCommittedTerminal
  BY DEF NonCommittedTerminal
<1> HIDE DEF Out
<1>6. \/ Out[o] = "unused" /\ Out' = [Out EXCEPT ![o] = "running"]
      \/ Out[o] = "running" /\ Out' = [Out EXCEPT ![o] = "unused"]
      \/ Out[o] = "running" /\ Out' = [Out EXCEPT ![o] = "applied"]
      \/ Out[o] = "running" /\ Out' = [Out EXCEPT ![o] = "refused"]
      \/ Out[o] = "abandoned" /\ Out' = [Out EXCEPT ![o] = "resolved"]
      \/ Out[o] = "running" /\ Out' = [Out EXCEPT ![o] = "abandoned"]
  BY <1>2, <1>3, <1>4, <1>5
<1>7. \/ Ledger!Attempt(o) \/ Ledger!TakeBack(o) \/ Ledger!Apply(o)
      \/ Ledger!Refuse(o) \/ Ledger!Abandon(o) \/ Ledger!Resolve(o)
  BY <1>1, <1>6 DEF Out, Ledger!Attempt, Ledger!TakeBack, Ledger!Apply,
     Ledger!Refuse, Ledger!Abandon, Ledger!Resolve, Ledger!Becomes
<1> QED
  BY <1>7 DEF Ledger!Next

(* One thread ends with an answer: a client is told of a success, or nothing. *)
LEMMA ToldOnce ==
  ASSUME TypeOK, NEW r \in Requests, pc[r] # "done", op'[r] \in Ops,
         \A x \in Ops : row'[x].status = row[x].status,
         \A r2 \in Requests : r2 # r => pc'[r2] = pc[r2] /\ op'[r2] = op[r2] /\ reply'[r2] = reply[r2],
         ToldSuccess(r)' => row[op'[r]].status \in Successful
  PROVE  [Ledger!Next]_(Ledger!vars)
<1> DEFINE Told == [c \in Requests |-> IF ToldSuccess(c) THEN op[c] ELSE None]
<1> DEFINE Out == [x \in Ops |-> OutcomeOf(row[x].status)]
<1>1. \A r2 \in Requests : r2 # r => /\ ToldSuccess(r2)' = ToldSuccess(r2)
                                    /\ op'[r2] = op[r2]
  BY DEF ToldSuccess
<1>2. ~ToldSuccess(r)
  BY DEF ToldSuccess
<1>3. CASE ~ToldSuccess(r)'
  <2>1. ToldAsBefore
    BY <1>1, <1>2, <1>3 DEF ToldAsBefore, ToldSuccess
  <2> QED
    BY <2>1, Hidden
<1>4. CASE ToldSuccess(r)'
  <2>1. OutcomeOf(row[op'[r]].status) \in {"applied", "resolved"}
    BY <1>4 DEF OutcomeOf, Successful, NonCommittedTerminal
  <2>2. Told[r] = None /\ Told' = [Told EXCEPT ![r] = op'[r]]
    BY <1>1, <1>2, <1>4
  <2>3. Out[op'[r]] \in {"applied", "resolved"} /\ Out' = Out
    BY <2>1
  <2>4. PICK o \in Ops : o = op'[r]
    OBVIOUS
  <2>5. Ledger!Tell(r, o)
    BY <2>2, <2>3, <2>4 DEF Ledger!Tell, Ledger!Successes
  <2> QED
    BY <2>5 DEF Ledger!Next
<1> QED
  BY <1>3, <1>4

(* Every step of the protocol is a step of the abstract ledger or a stutter.  *)
LEMMA LedgerStep ==
  ASSUME Kinds \subseteq ClaimingKinds, TypeOK, TypeOK', LedgerInv, AnswerInv, AnswerInv',
         [Next]_vars
  PROVE  [Ledger!Next]_(Ledger!vars)
<1> USE DEF dbVars, reqVars, sysVars, history
<1>l. StoppedUnlessServing /\ KindsOfSteps
  BY DEF LedgerInv
<1>t. \A r \in Requests : pc[r] # "idle" => op[r] \in Ops /\ kind[r] \in ClaimingKinds
  BY DEF TypeOK, ThreadTypes
<1>r. \A x \in Ops : row[x].status \in Statuses
  BY DEF TypeOK, TableTypes, RowType
(* A thread goes on inside the protocol. *)
<1>g. ASSUME NEW r \in Requests, pc[r] # "done", NEW step, step # "done", Goto(r, step), UNCHANGED op,
             \/ UNCHANGED reply
             \/ \E w : Answer(r, w)
      PROVE  ToldAsBefore
  BY <1>g DEF ToldAsBefore, ToldSuccess, Goto, Answer, TypeOK, ThreadTypes
<1>h. ASSUME UNCHANGED <<row, op>>, ToldAsBefore PROVE [Ledger!Next]_(Ledger!vars)
  BY <1>h, Hidden
(* A thread ends. *)
<1>d. ASSUME NEW r \in Requests, pc[r] \notin {"idle", "done"}, Goto(r, "done"), UNCHANGED <<op, row>>,
             \/ UNCHANGED reply
             \/ \E w : Answer(r, w)
      PROVE  [Ledger!Next]_(Ledger!vars)
  <2>1. op'[r] \in Ops
    BY <1>t, <1>d
  <2>2. \A r2 \in Requests : r2 # r => pc'[r2] = pc[r2] /\ op'[r2] = op[r2] /\ reply'[r2] = reply[r2]
    BY <1>d DEF Goto, Answer, TypeOK, ThreadTypes
  <2>3. ToldSuccess(r)' => row[op'[r]].status \in Successful
    BY <1>d DEF AnswerInv, ToldSuccess
  <2> QED
    BY <1>d, <2>1, <2>2, <2>3, ToldOnce
(* A row moves while its thread goes on. *)
<1>m. ASSUME NEW o \in Ops, ToldAsBefore, \A x \in Ops : x # o => row'[x] = row[x],
             <<row[o].status, row'[o].status>> \in Moves
      PROVE  [Ledger!Next]_(Ledger!vars)
  BY <1>m, Shown
<1>c. \A st \in {"none", "committed", "rejected"} \cup NonCommittedTerminal :
        <<"claimed", st>> \in Moves
  BY DEF Moves
<1>u. ASSUME UNCHANGED <<pc, op, reply>> PROVE ToldAsBefore
  BY <1>u DEF ToldAsBefore, ToldSuccess
<1> USE DEF Live, EarlySteps, EngineSteps, ExitSteps
<1>1. ASSUME NEW r \in Requests, NEW o \in Ops, NEW k \in Kinds, Receive(r, o, k)
      PROVE  [Ledger!Next]_(Ledger!vars)
  <2>1. op'[r] \in Ops /\ pc[r] # "done" /\ UNCHANGED row
    BY <1>1 DEF Receive, TypeOK, ThreadTypes
  <2>2. \A r2 \in Requests : r2 # r => pc'[r2] = pc[r2] /\ op'[r2] = op[r2] /\ reply'[r2] = reply[r2]
    BY <1>1 DEF Receive, Finish, Goto, Answer, TypeOK, ThreadTypes
  <2>3. ToldSuccess(r)' => row[op'[r]].status \in Successful
    BY <2>1 DEF AnswerInv, ToldSuccess
  <2> QED
    BY <2>1, <2>2, <2>3, ToldOnce
<1>2. ASSUME NEW r \in Requests, RefuseEarly(r)
      PROVE  [Ledger!Next]_(Ledger!vars)
  BY <1>2, <1>d DEF RefuseEarly, Finish
<1>3. ASSUME NEW r \in Requests, PassRepairLock(r)
      PROVE  [Ledger!Next]_(Ledger!vars)
  BY <1>3, <1>g, <1>h DEF PassRepairLock, AfterLock
<1>4. ASSUME NEW r \in Requests, AcquireClaim(r)
      PROVE  [Ledger!Next]_(Ledger!vars)
  <2>1. op[r] \in Ops
    BY <1>4, <1>t DEF AcquireClaim
  <2>2. CASE row[op[r]].status = "none"
    <3>1. ToldAsBefore
      BY <1>4, <1>g, <2>2 DEF AcquireClaim
    <3>2. row'[op[r]].status = "claimed" /\ \A x \in Ops : x # op[r] => row'[x] = row[x]
      BY <1>4, <2>1, <2>2 DEF AcquireClaim, TypeOK, TableTypes
    <3>3. <<row[op[r]].status, row'[op[r]].status>> \in Moves
      BY <2>2, <3>2 DEF Moves
    <3> QED
      BY <1>m, <2>1, <3>1, <3>2, <3>3
  <2>3. CASE row[op[r]].status # "none"
    BY <1>4, <1>d, <2>3 DEF AcquireClaim, Finish
  <2> QED
    BY <2>2, <2>3
<1>5. ASSUME NEW r \in Requests, Reload(r)
      PROVE  [Ledger!Next]_(Ledger!vars)
  BY <1>5, <1>l, <1>t DEF Reload, KindsOfSteps
<1>6. ASSUME NEW r \in Requests, AcquireObjectClaim(r)
      PROVE  [Ledger!Next]_(Ledger!vars)
  BY <1>6, <1>g, <1>h, <1>t DEF AcquireObjectClaim
<1>7. ASSUME NEW r \in Requests, EngineWrite(r)
      PROVE  [Ledger!Next]_(Ledger!vars)
  BY <1>7, <1>g, <1>h DEF EngineWrite
<1>8. ASSUME NEW r \in Requests, DispatchRejected(r)
      PROVE  [Ledger!Next]_(Ledger!vars)
  BY <1>8, <1>g, <1>h DEF DispatchRejected
<1>9. ASSUME NEW r \in Requests, DispatchReturned(r)
      PROVE  [Ledger!Next]_(Ledger!vars)
  BY <1>9, <1>g, <1>h DEF DispatchReturned
<1>10. ASSUME NEW r \in Requests, Raise(r)
      PROVE  [Ledger!Next]_(Ledger!vars)
  BY <1>10, <1>g, <1>h DEF Raise
<1>11. ASSUME NEW r \in Requests, Finalize(r)
      PROVE  [Ledger!Next]_(Ledger!vars)
  <2>1. op[r] \in Ops /\ ToldAsBefore
    BY <1>11, <1>t, <1>g DEF Finalize
  <2>2. CASE OwnsRow(r)
    <3>1. /\ row'[op[r]].status \in {"committed", "rejected"}
          /\ \A x \in Ops : x # op[r] => row'[x] = row[x]
      BY <1>11, <2>1, <2>2, EndClaimEffect DEF Finalize, TypeOK, TableTypes
    <3>2. <<row[op[r]].status, row'[op[r]].status>> \in Moves
      BY <1>c, <2>2, <3>1 DEF OwnsRow
    <3> QED
      BY <1>m, <2>1, <3>1, <3>2
  <2>3. CASE ~OwnsRow(r)
    BY <1>11, <1>h, <2>1, <2>3 DEF Finalize
  <2> QED
    BY <2>2, <2>3
<1>12. ASSUME NEW r \in Requests, FinalizeFrozen(r)
      PROVE  [Ledger!Next]_(Ledger!vars)
  BY <1>12, <1>g, <1>h DEF FinalizeFrozen
<1>13. ASSUME NEW r \in Requests, TerminalizeFrozen(r)
      PROVE  [Ledger!Next]_(Ledger!vars)
  <2>1. op[r] \in Ops /\ ToldAsBefore
    BY <1>13, <1>t, <1>g DEF TerminalizeFrozen
  <2>2. CASE OwnsRow(r)
    <3>1. /\ row'[op[r]].status \in {"committed", "rejected"}
          /\ \A x \in Ops : x # op[r] => row'[x] = row[x]
      BY <1>13, <2>1, <2>2, EndClaimEffect DEF TerminalizeFrozen, TypeOK, TableTypes
    <3>2. <<row[op[r]].status, row'[op[r]].status>> \in Moves
      BY <1>c, <2>2, <3>1 DEF OwnsRow
    <3> QED
      BY <1>m, <2>1, <3>1, <3>2
  <2>3. CASE ~OwnsRow(r)
    BY <1>13, <1>h, <2>1, <2>3 DEF TerminalizeFrozen
  <2> QED
    BY <2>2, <2>3
<1>14. ASSUME NEW r \in Requests, CommitWithSideEffects(r)
      PROVE  [Ledger!Next]_(Ledger!vars)
  BY <1>14, <1>l, <1>t DEF CommitWithSideEffects, KindsOfSteps
<1>15. ASSUME NEW r \in Requests, CommitRefused(r)
      PROVE  [Ledger!Next]_(Ledger!vars)
  BY <1>15, <1>g, <1>h DEF CommitRefused
<1>16. ASSUME NEW r \in Requests, ReleaseMyClaim(r)
      PROVE  [Ledger!Next]_(Ledger!vars)
  <2>1. op[r] \in Ops
    BY <1>16, <1>t DEF ReleaseMyClaim
  <2>s. reply[r] \notin {"committed", "replayed"} \/ row[op[r]].status # "claimed"
    BY <1>16 DEF ReleaseMyClaim, AnswerInv, Successful
  <2>2. CASE OwnsRow(r)
    <3>1. ToldAsBefore
      BY <1>16, <2>2, <2>s DEF ReleaseMyClaim, ToldAsBefore, ToldSuccess, Goto, TypeOK, ThreadTypes, OwnsRow
    <3>2. row'[op[r]].status = "none" /\ \A x \in Ops : x # op[r] => row'[x] = row[x]
      BY <1>16, <2>1, <2>2 DEF ReleaseMyClaim, ReleaseRow, NoRow, TypeOK, TableTypes
    <3>3. <<row[op[r]].status, row'[op[r]].status>> \in Moves
      BY <1>c, <2>2, <3>2 DEF OwnsRow
    <3> QED
      BY <1>m, <2>1, <3>1, <3>2, <3>3
  <2>3. CASE ~OwnsRow(r)
    BY <1>16, <1>g, <1>h, <2>3 DEF ReleaseMyClaim
  <2> QED
    BY <2>2, <2>3
<1>17. ASSUME NEW r \in Requests, ReleaseMyClaimBestEffort(r)
      PROVE  [Ledger!Next]_(Ledger!vars)
  <2>1. op[r] \in Ops
    BY <1>17, <1>t DEF ReleaseMyClaimBestEffort
  <2>2. CASE OwnsRow(r)
    <3>1. ToldAsBefore
      BY <1>17, <1>g, <2>2 DEF ReleaseMyClaimBestEffort
    <3>2. row'[op[r]].status = "none" /\ \A x \in Ops : x # op[r] => row'[x] = row[x]
      BY <1>17, <2>1, <2>2 DEF ReleaseMyClaimBestEffort, ReleaseRow, NoRow, TypeOK, TableTypes
    <3>3. <<row[op[r]].status, row'[op[r]].status>> \in Moves
      BY <1>c, <2>2, <3>2 DEF OwnsRow
    <3> QED
      BY <1>m, <2>1, <3>1, <3>2, <3>3
  <2>3. CASE ~OwnsRow(r)
    BY <1>17, <1>g, <1>h, <2>3 DEF ReleaseMyClaimBestEffort
  <2> QED
    BY <2>2, <2>3
<1>18. ASSUME NEW r \in Requests, ReleaseObjectClaim(r)
      PROVE  [Ledger!Next]_(Ledger!vars)
  BY <1>18, <1>d DEF ReleaseObjectClaim
<1>19. ASSUME NEW r \in Requests, ReleaseFails(r)
      PROVE  [Ledger!Next]_(Ledger!vars)
  BY <1>19, <1>d, <1>g, <1>h DEF ReleaseFails
<1>20. ASSUME NEW a \in Admins, NEW o \in Ops, AdminLoad(a, o)
      PROVE  [Ledger!Next]_(Ledger!vars)
  BY <1>20, <1>u, <1>h DEF AdminLoad
<1>21. ASSUME NEW a \in Admins, AdminProbe(a)
      PROVE  [Ledger!Next]_(Ledger!vars)
  BY <1>21, <1>u, <1>h DEF AdminProbe
<1>22. ASSUME NEW a \in Admins, AdminAbort(a)
      PROVE  [Ledger!Next]_(Ledger!vars)
  <2>0. ToldAsBefore
    BY <1>22, <1>u DEF AdminAbort
  <2>1. adm[a].op \in Ops /\ adm[a].verdict \in {"aborted", "repair"}
    BY <1>22, <1>l, RunningAdmin DEF AdminAbort, TypeOK, AdminTypes
  <2>2. CASE row[adm[a].op].status = "claimed"
    <3>1. /\ row'[adm[a].op].status = adm[a].verdict
          /\ \A x \in Ops : x # adm[a].op => row'[x] = row[x]
      BY <1>22, <2>1, <2>2, EndClaimEffect DEF AdminAbort, TypeOK, TableTypes
    <3>2. <<row[adm[a].op].status, row'[adm[a].op].status>> \in Moves
      BY <1>c, <2>1, <2>2, <3>1 DEF NonCommittedTerminal
    <3> QED
      BY <1>m, <2>0, <2>1, <3>1, <3>2
  <2>3. CASE row[adm[a].op].status # "claimed"
    BY <1>22, <1>h, <2>0, <2>3 DEF AdminAbort
  <2> QED
    BY <2>2, <2>3
<1>23. ASSUME NEW a \in Admins, AdminRelease(a)
      PROVE  [Ledger!Next]_(Ledger!vars)
  BY <1>23, <1>u, <1>h DEF AdminRelease
<1>24. ASSUME NEW a \in Admins, AdminResolve(a)
      PROVE  [Ledger!Next]_(Ledger!vars)
  <2>0. ToldAsBefore
    BY <1>24, <1>u DEF AdminResolve
  <2>1. adm[a].op \in Ops
    BY <1>24, <1>l, RunningAdmin DEF AdminResolve
  <2>2. CASE row[adm[a].op].status = "repair"
    <3>1. /\ row'[adm[a].op].status = "resolved"
          /\ \A x \in Ops : x # adm[a].op => row'[x] = row[x]
      BY <1>24, <2>1, <2>2 DEF AdminResolve, TypeOK, TableTypes, RowType
    <3>2. <<row[adm[a].op].status, row'[adm[a].op].status>> \in Moves
      BY <2>2, <3>1 DEF Moves
    <3> QED
      BY <1>m, <2>0, <2>1, <3>1, <3>2
  <2>3. CASE row[adm[a].op].status # "repair"
    BY <1>24, <1>h, <2>0, <2>3 DEF AdminResolve
  <2> QED
    BY <2>2, <2>3
<1>25. CASE Crash
  <2>1. ToldAsBefore
    BY <1>25 DEF Crash, ToldAsBefore, ToldSuccess, TypeOK, ThreadTypes
  <2> QED
    BY <1>25, <1>h, <2>1 DEF Crash
<1>26. CASE Boot
  BY <1>26, <1>u, <1>h DEF Boot
<1>27. CASE Serve
  BY <1>27, <1>u, <1>h DEF Serve
<1>28. ASSUME NEW o \in Ops, ReconcileOperation(o)
      PROVE  [Ledger!Next]_(Ledger!vars)
  <2>0. ToldAsBefore
    BY <1>28, <1>u DEF ReconcileOperation
  <2>1. /\ row[o].status = "claimed" /\ row'[o].status \in {"repair", "failed"}
        /\ \A x \in Ops : x # o => row'[x] = row[x]
    BY <1>28, EndClaimEffect DEF ReconcileOperation, OrphanedOps, TypeOK, TableTypes
  <2>2. <<row[o].status, row'[o].status>> \in Moves
    BY <1>c, <2>1 DEF NonCommittedTerminal
  <2> QED
    BY <1>m, <2>0, <2>1, <2>2
<1>29. ASSUME NEW s \in Stories, ReconcileClaim(s)
      PROVE  [Ledger!Next]_(Ledger!vars)
  BY <1>29, <1>u, <1>h DEF ReconcileClaim
<1>30. CASE UNCHANGED vars
  BY <1>30, <1>u, <1>h DEF vars
<1> QED
  BY <1>1, <1>2, <1>3, <1>4, <1>5, <1>6, <1>7, <1>8, <1>9, <1>10, <1>11,
     <1>12, <1>13, <1>14, <1>15, <1>16, <1>17, <1>18, <1>19, <1>20, <1>21,
     <1>22, <1>23, <1>24, <1>25, <1>26, <1>27, <1>28, <1>29, <1>30
     DEF Next, RequestStep, AdminStep, Recovery

(* THEOREM.  start_phase and resume_phase implement IdempotentLedger: with    *)
(* any number of deliveries, threads, administrators, engine writes, failed   *)
(* releases, crashes and reconciliations, a client sees operations that are   *)
(* attempted one at a time, come to one outcome and are reported truthfully.  *)
THEOREM StartsImplementLedger ==
  ASSUME Kinds \subseteq ClaimingKinds
  PROVE  Spec => ImplementsIdempotentLedger
<1>1. Init => Ledger!Init
  BY DEF Init, Ledger!Init, NoRow, OutcomeOf, NonCommittedTerminal, ToldSuccess
<1>2. Init => AnswerInv
  BY DEF Init, AnswerInv, ExitSteps
<1>3. TypeOK /\ TypeOK' /\ LedgerInv /\ AnswerInv /\ [Next]_vars => AnswerInv'
  BY AnswersStep
<1>4. TypeOK /\ TypeOK' /\ LedgerInv /\ AnswerInv /\ AnswerInv' /\ [Next]_vars
        => [Ledger!Next]_(Ledger!vars)
  BY LedgerStep
<1> QED
  BY <1>1, <1>2, <1>3, <1>4, TypeCorrect, LedgerInvariant, PTL
     DEF Spec, ImplementsIdempotentLedger, Ledger!Spec

==============================================================================
