------------------------ MODULE OperationLedgerProofs ------------------------
(***************************************************************************)
(* Proofs about OperationLedger, for any number of requests, op_ids,       *)
(* stories, administrators, boots, engine writes and failed releases.      *)
(***************************************************************************)
EXTENDS OperationLedger, TLAPS

(* A claim that ends leaves a well-typed ledger. *)
LEMMA EndClaimTypes ==
  ASSUME row \in [Ops -> RowType], NEW o \in Ops, NEW st \in Statuses,
         NEW e \in Nat, EndClaim(o, st, e)
  PROVE  row' \in [Ops -> RowType]
BY DEF EndClaim, RowType

(* Where the threads of a process may stand after one step of one of them.   *)
LEMMA StepTypes ==
  ASSUME ThreadTypes, NEW r \in Requests, pc[r] # "idle",
         NEW step \in Live \cup {"done"}, Goto(r, step), UNCHANGED <<op, kind>>,
         \/ UNCHANGED reply
         \/ \E w \in Answers : Answer(r, w)
  PROVE  ThreadTypes'
BY DEF ThreadTypes, Goto, Answer, Live, EarlySteps, EngineSteps, ExitSteps

(* Type correctness of the ledger, the claim tables and the threads that     *)
(* start_phase, resume_phase, complete/fail and closure run.                 *)
THEOREM TypeCorrect == Spec => []TypeOK
<1>1. Init => TypeOK
  BY LedgerAssumption DEF Init, TypeOK, TableTypes, ThreadTypes, AdminTypes,
     ProcessTypes, RowType, NoRow, NoClaim, NoAdmin, Statuses
<1>2. TypeOK /\ [Next]_vars => TypeOK'
  <2> SUFFICES ASSUME TypeOK, [Next]_vars PROVE TypeOK'
    OBVIOUS
  <2> USE LedgerAssumption
      DEF TypeOK, dbVars, reqVars, sysVars, history
  <2>1. ASSUME NEW r \in Requests, NEW o \in Ops, NEW k \in Kinds, Receive(r, o, k)
        PROVE TypeOK'
    <3>1. ReplayOrMismatch(o, k) \in Answers
      BY DEF ReplayOrMismatch, Answers
    <3>2. ThreadTypes'
      BY <2>1, <3>1 DEF Receive, ThreadTypes, Goto, Finish, Answer, Live, EarlySteps
    <3> QED
      BY <2>1, <3>2 DEF Receive, TableTypes, AdminTypes, ProcessTypes
  <2>2. ASSUME NEW r \in Requests, RequestStep(r) PROVE TypeOK'
    <3> USE DEF Answers, Live, EarlySteps, EngineSteps, ExitSteps, Finish
    <3>0. op[r] \in Ops /\ kind[r] \in Kinds /\ kind[r] \in AllKinds /\ pc[r] # "idle"
      BY <2>2 DEF ThreadTypes, RequestStep, RefuseEarly, PassRepairLock,
         AcquireClaim, Reload, AcquireObjectClaim, EngineWrite,
         DispatchRejected, DispatchReturned, Raise, Finalize, FinalizeFrozen,
         TerminalizeFrozen, CommitWithSideEffects, CommitRefused,
         ReleaseMyClaim, ReleaseMyClaimBestEffort, ReleaseObjectClaim,
         ReleaseFails
    <3>1. CASE RefuseEarly(r)
      BY <3>0, <3>1, StepTypes DEF RefuseEarly, TableTypes, AdminTypes, ProcessTypes
    <3>2. CASE PassRepairLock(r)
      <4>1. AfterLock(kind[r]) \in Live
        BY DEF AfterLock
      <4> QED
        BY <3>0, <3>2, <4>1, StepTypes DEF PassRepairLock, TableTypes, AdminTypes, ProcessTypes
    <3>3. CASE AcquireClaim(r)
      <4>1. TableTypes'
        BY <3>0, <3>3 DEF AcquireClaim, TableTypes, ProcessTypes, RowType, Statuses,
           InitialOperationEpoch
      <4>2. ThreadTypes'
        BY <3>0, <3>3, StepTypes DEF AcquireClaim, ReplayOrMismatch
      <4> QED
        BY <3>3, <4>1, <4>2 DEF AcquireClaim, AdminTypes, ProcessTypes
    <3>4. CASE Reload(r)
      BY <3>0, <3>4, StepTypes DEF Reload, ReplayOrMismatch, TableTypes, AdminTypes, ProcessTypes
    <3>5. CASE AcquireObjectClaim(r)
      <4>1. TableTypes'
        BY <3>0, <3>5 DEF AcquireObjectClaim, TableTypes, ProcessTypes
      <4>2. ThreadTypes'
        BY <3>0, <3>5, StepTypes DEF AcquireObjectClaim
      <4> QED
        BY <3>5, <4>1, <4>2 DEF AcquireObjectClaim, AdminTypes, ProcessTypes
    <3>6. CASE EngineWrite(r)
      BY <3>0, <3>6, StepTypes DEF EngineWrite, TableTypes, AdminTypes, ProcessTypes
    <3>7. CASE DispatchRejected(r)
      BY <3>0, <3>7, StepTypes DEF DispatchRejected, TableTypes, AdminTypes, ProcessTypes
    <3>8. CASE DispatchReturned(r)
      BY <3>0, <3>8, StepTypes DEF DispatchReturned, TableTypes, AdminTypes, ProcessTypes
    <3>9. CASE Raise(r)
      BY <3>0, <3>9, StepTypes DEF Raise, TableTypes, AdminTypes, ProcessTypes
    <3>10. CASE Finalize(r)
      <4>1. TableTypes'
        <5>1. row[op[r]].epoch \in Nat
          BY <3>0 DEF TableTypes, RowType
        <5> QED
          BY <3>0, <3>10, <5>1, EndClaimTypes DEF Finalize, TableTypes, Statuses
      <4>2. ThreadTypes'
        BY <3>0, <3>10, StepTypes DEF Finalize
      <4> QED
        BY <3>0, <3>10, <4>1, <4>2 DEF Finalize, AdminTypes, ProcessTypes
    <3>11. CASE FinalizeFrozen(r)
      BY <3>0, <3>11, StepTypes DEF FinalizeFrozen, TableTypes, AdminTypes, ProcessTypes
    <3>12. CASE TerminalizeFrozen(r)
      <4>1. TableTypes'
        <5>1. row[op[r]].epoch \in Nat
          BY <3>0 DEF TableTypes, RowType
        <5> QED
          BY <3>0, <3>12, <5>1, EndClaimTypes DEF TerminalizeFrozen, TableTypes, Statuses
      <4>2. ThreadTypes'
        BY <3>0, <3>12, StepTypes DEF TerminalizeFrozen
      <4> QED
        BY <3>12, <4>1, <4>2 DEF TerminalizeFrozen, AdminTypes, ProcessTypes
    <3>13. CASE CommitWithSideEffects(r)
      <4>1. TableTypes'
        <5>1. row[op[r]] \in RowType
          BY <3>0 DEF TableTypes
        <5>2. row'[op[r]] \in RowType
          BY <3>0, <3>13, <5>1 DEF CommitWithSideEffects, TableTypes, RowType, Statuses
        <5> QED
          BY <3>0, <3>13, <5>2 DEF CommitWithSideEffects, TableTypes
      <4>2. ThreadTypes'
        BY <3>0, <3>13, StepTypes DEF CommitWithSideEffects
      <4> QED
        BY <3>0, <3>13, <4>1, <4>2 DEF CommitWithSideEffects, AdminTypes, ProcessTypes
    <3>14. CASE CommitRefused(r)
      BY <3>0, <3>14, StepTypes DEF CommitRefused, TableTypes, AdminTypes, ProcessTypes
    <3>15. CASE ReleaseMyClaim(r)
      <4>1. TableTypes'
        BY <3>0, <3>15 DEF ReleaseMyClaim, ReleaseRow, NoRow, TableTypes, RowType, Statuses
      <4>2. ThreadTypes'
        BY <3>0, <3>15, StepTypes DEF ReleaseMyClaim
      <4> QED
        BY <3>15, <4>1, <4>2 DEF ReleaseMyClaim, AdminTypes, ProcessTypes
    <3>16. CASE ReleaseMyClaimBestEffort(r)
      <4>1. TableTypes'
        BY <3>0, <3>16 DEF ReleaseMyClaimBestEffort, ReleaseRow, NoRow, TableTypes, RowType, Statuses
      <4>2. ThreadTypes'
        BY <3>0, <3>16, StepTypes DEF ReleaseMyClaimBestEffort
      <4> QED
        BY <3>16, <4>1, <4>2 DEF ReleaseMyClaimBestEffort, AdminTypes, ProcessTypes
    <3>17. CASE ReleaseObjectClaim(r)
      <4>1. TableTypes'
        BY <3>0, <3>17 DEF ReleaseObjectClaim, ReleaseObject, NoClaim, TableTypes
      <4>2. ThreadTypes'
        BY <3>0, <3>17, StepTypes DEF ReleaseObjectClaim
      <4> QED
        BY <3>17, <4>1, <4>2 DEF ReleaseObjectClaim, AdminTypes, ProcessTypes
    <3>18. CASE ReleaseFails(r)
      BY <3>0, <3>18, StepTypes DEF ReleaseFails, TableTypes, AdminTypes, ProcessTypes
    <3> QED
      BY <2>2, <3>1, <3>2, <3>3, <3>4, <3>5, <3>6, <3>7, <3>8, <3>9, <3>10,
         <3>11, <3>12, <3>13, <3>14, <3>15, <3>16, <3>17, <3>18 DEF RequestStep
  <2>3. ASSUME NEW a \in Admins, NEW o \in Ops, AdminLoad(a, o) PROVE TypeOK'
    BY <2>3 DEF AdminLoad, TableTypes, RowType, ThreadTypes, AdminTypes, ProcessTypes
  <2>4. ASSUME NEW a \in Admins, AdminStep(a) PROVE TypeOK'
    <3>0. adm[a].op \in Ops /\ (adm[a].pc = "abort" => adm[a].verdict \in {"aborted", "repair"})
      BY <2>4 DEF AdminTypes, AdminStep, AdminProbe, AdminAbort, AdminRelease, AdminResolve
    <3>1. CASE AdminProbe(a)
      <4>1. AdminTypes'
        <5>1. adm[a] \in [pc : {"idle", "probe", "abort", "release", "resolve"},
                          op : Ops \cup {None}, at : Nat,
                          verdict : {"aborted", "repair", None}]
          BY DEF AdminTypes
        <5>2. adm'[a] \in [pc : {"abort"}, op : Ops, at : Nat,
                           verdict : {"aborted", "repair"}]
          BY <3>0, <3>1, <5>1 DEF AdminProbe, AdminTypes
        <5> QED
          BY <3>1, <5>2 DEF AdminProbe, AdminTypes
      <4> QED
        BY <3>1, <4>1 DEF AdminProbe, TableTypes, ThreadTypes, ProcessTypes
    <3>2. CASE AdminAbort(a)
      <4>1. AdminTypes'
        BY <3>0, <3>2 DEF AdminAbort, AdminTypes, NoAdmin
      <4>2. TableTypes'
        <5>1. row[adm[a].op].epoch + 1 \in Nat
          BY <3>0 DEF TableTypes, RowType
        <5> QED
          BY <3>0, <3>2, <5>1, EndClaimTypes DEF AdminAbort, TableTypes, Statuses
      <4> QED
        BY <3>2, <4>1, <4>2 DEF AdminAbort, ThreadTypes, ProcessTypes
    <3>3. CASE AdminRelease(a)
      BY <3>0, <3>3 DEF AdminRelease, ReleaseObject, NoClaim, NoAdmin,
         TableTypes, ThreadTypes, AdminTypes, ProcessTypes
    <3>4. CASE AdminResolve(a)
      <4>1. TableTypes'
        <5>1. CASE row[adm[a].op].status = "repair"
          <6>1. [row[adm[a].op] EXCEPT !.status = "resolved"] \in RowType
            <7>1. row[adm[a].op] \in RowType
              BY <3>0 DEF TableTypes
            <7> QED
              BY <7>1 DEF RowType, Statuses
          <6> QED
            BY <3>0, <3>4, <5>1, <6>1 DEF AdminResolve, TableTypes
        <5> QED
          BY <3>4, <5>1 DEF AdminResolve, TableTypes
      <4> QED
        BY <3>4, <4>1 DEF AdminResolve, NoAdmin, ThreadTypes, AdminTypes, ProcessTypes
    <3> QED
      BY <2>4, <3>1, <3>2, <3>3, <3>4 DEF AdminStep
  <2>5. CASE Crash
    <3>1. ThreadTypes'
      BY <2>5 DEF Crash, ThreadTypes, Live, EarlySteps, EngineSteps, ExitSteps
    <3> QED
      BY <2>5, <3>1 DEF Crash, NoAdmin, TableTypes, AdminTypes, ProcessTypes
  <2>6. CASE Boot
    BY <2>6 DEF Boot, TableTypes, ThreadTypes, AdminTypes, ProcessTypes
  <2>7. CASE Serve
    BY <2>7 DEF Serve, TableTypes, ThreadTypes, AdminTypes, ProcessTypes
  <2>8. ASSUME NEW o \in Ops, ReconcileOperation(o) PROVE TypeOK'
    <3>1. row[o].epoch + 1 \in Nat
      BY DEF TableTypes, RowType
    <3>2. TableTypes'
      BY <2>8, <3>1, EndClaimTypes DEF ReconcileOperation, TableTypes, Statuses
    <3> QED
      BY <2>8, <3>2 DEF ReconcileOperation, ThreadTypes, AdminTypes, ProcessTypes
  <2>9. ASSUME NEW s \in Stories, ReconcileClaim(s) PROVE TypeOK'
    BY <2>9 DEF ReconcileClaim, NoClaim, TableTypes, ThreadTypes, AdminTypes, ProcessTypes
  <2>10. CASE UNCHANGED vars
    BY <2>10 DEF vars, TableTypes, ThreadTypes, AdminTypes, ProcessTypes
  <2> QED
    BY <2>1, <2>2, <2>3, <2>4, <2>5, <2>6, <2>7, <2>8, <2>9, <2>10
       DEF Next, Recovery
<1> QED
  BY <1>1, <1>2, PTL DEF Spec

------------------------------------------------------------------------------
(* The inductive invariant, conjunct by conjunct. *)

(* What a claim that ends leaves of its row, and of the others. *)
LEMMA EndClaimEffect ==
  ASSUME row \in [Ops -> RowType], NEW o \in Ops, NEW st, NEW e,
         EndClaim(o, st, e)
  PROVE  /\ \A x \in Ops : x # o => row'[x] = row[x]
         /\ row'[o].status = st /\ row'[o].by = None
         /\ row'[o].inc = row[o].inc /\ row'[o].at = 0
BY DEF EndClaim, RowType

(* A thread that takes a step has an op_id and runs in a serving process. *)
LEMMA RunningThread ==
  ASSUME TypeOK, StoppedUnlessServing, NEW r \in Requests, pc[r] \in Live
  PROVE  op[r] \in Ops /\ kind[r] \in Kinds /\ mode = "serving"
BY DEF TypeOK, ThreadTypes, StoppedUnlessServing, Live, EarlySteps, EngineSteps,
   ExitSteps

(* So does an administrator. *)
LEMMA RunningAdmin ==
  ASSUME TypeOK, StoppedUnlessServing, NEW a \in Admins, adm[a].pc # "idle"
  PROVE  adm[a].op \in Ops /\ mode = "serving"
BY DEF TypeOK, AdminTypes, StoppedUnlessServing

(* The probe of an administrator leaves the others where they are. *)
LEMMA AdminProbeEffect ==
  ASSUME AdminTypes, NEW a \in Admins, AdminProbe(a)
  PROVE  adm'[a].pc = "abort" /\ \A b \in Admins \ {a} : adm'[b] = adm[b]
<1>1. adm[a] \in [pc : {"idle", "probe", "abort", "release", "resolve"},
                  op : Ops \cup {None}, at : Nat,
                  verdict : {"aborted", "repair", None}]
  BY DEF AdminTypes
<1> QED
  BY <1>1 DEF AdminTypes, AdminProbe

(* Threads are started and go on only in a serving process. *)
LEMMA StoppedStep ==
  ASSUME TypeOK, TypeOK', LedgerInv, [Next]_vars
  PROVE  StoppedUnlessServing'
<1> USE LedgerAssumption DEF TypeOK, LedgerInv, dbVars, reqVars, sysVars, history, Goto, Answer,
       Live, EarlySteps, EngineSteps, ExitSteps,
       StoppedUnlessServing, ThreadTypes, AdminTypes, NoAdmin
<1>1. ASSUME NEW r \in Requests, NEW o \in Ops, NEW k \in Kinds, Receive(r, o, k)
      PROVE  StoppedUnlessServing'
  BY <1>1 DEF Receive, Finish
<1>2. ASSUME NEW r \in Requests, RefuseEarly(r) PROVE StoppedUnlessServing'
  BY <1>2 DEF RefuseEarly, Finish
<1>3. ASSUME NEW r \in Requests, PassRepairLock(r) PROVE StoppedUnlessServing'
  BY <1>3 DEF PassRepairLock, AfterLock
<1>4. ASSUME NEW r \in Requests, AcquireClaim(r) PROVE StoppedUnlessServing'
  BY <1>4 DEF AcquireClaim, Finish
<1>5. ASSUME NEW r \in Requests, Reload(r) PROVE StoppedUnlessServing'
  BY <1>5 DEF Reload, Finish
<1>6. ASSUME NEW r \in Requests, AcquireObjectClaim(r) PROVE StoppedUnlessServing'
  BY <1>6 DEF AcquireObjectClaim, Finish
<1>7. ASSUME NEW r \in Requests, EngineWrite(r) PROVE StoppedUnlessServing'
  BY <1>7 DEF EngineWrite
<1>8. ASSUME NEW r \in Requests, DispatchRejected(r) PROVE StoppedUnlessServing'
  BY <1>8 DEF DispatchRejected
<1>9. ASSUME NEW r \in Requests, DispatchReturned(r) PROVE StoppedUnlessServing'
  BY <1>9 DEF DispatchReturned
<1>10. ASSUME NEW r \in Requests, Raise(r) PROVE StoppedUnlessServing'
  BY <1>10 DEF Raise
<1>11. ASSUME NEW r \in Requests, Finalize(r) PROVE StoppedUnlessServing'
  BY <1>11 DEF Finalize, EndClaim
<1>12. ASSUME NEW r \in Requests, FinalizeFrozen(r) PROVE StoppedUnlessServing'
  BY <1>12 DEF FinalizeFrozen
<1>13. ASSUME NEW r \in Requests, TerminalizeFrozen(r) PROVE StoppedUnlessServing'
  BY <1>13 DEF TerminalizeFrozen, EndClaim
<1>14. ASSUME NEW r \in Requests, CommitWithSideEffects(r) PROVE StoppedUnlessServing'
  BY <1>14 DEF CommitWithSideEffects
<1>15. ASSUME NEW r \in Requests, CommitRefused(r) PROVE StoppedUnlessServing'
  BY <1>15 DEF CommitRefused
<1>16. ASSUME NEW r \in Requests, ReleaseMyClaim(r) PROVE StoppedUnlessServing'
  BY <1>16 DEF ReleaseMyClaim, ReleaseRow
<1>17. ASSUME NEW r \in Requests, ReleaseMyClaimBestEffort(r) PROVE StoppedUnlessServing'
  BY <1>17 DEF ReleaseMyClaimBestEffort, ReleaseRow
<1>18. ASSUME NEW r \in Requests, ReleaseObjectClaim(r) PROVE StoppedUnlessServing'
  BY <1>18 DEF ReleaseObjectClaim, ReleaseObject
<1>19. ASSUME NEW r \in Requests, ReleaseFails(r) PROVE StoppedUnlessServing'
  BY <1>19 DEF ReleaseFails
<1>20. ASSUME NEW a \in Admins, NEW o \in Ops, AdminLoad(a, o) PROVE StoppedUnlessServing'
  BY <1>20 DEF AdminLoad
<1>21. ASSUME NEW a \in Admins, AdminProbe(a) PROVE StoppedUnlessServing'
  BY <1>21 DEF AdminProbe
<1>22. ASSUME NEW a \in Admins, AdminAbort(a) PROVE StoppedUnlessServing'
  BY <1>22 DEF AdminAbort, EndClaim
<1>23. ASSUME NEW a \in Admins, AdminRelease(a) PROVE StoppedUnlessServing'
  BY <1>23 DEF AdminRelease, ReleaseObject
<1>24. ASSUME NEW a \in Admins, AdminResolve(a) PROVE StoppedUnlessServing'
  BY <1>24 DEF AdminResolve
<1>25. CASE Crash
  BY <1>25 DEF Crash
<1>26. CASE Boot
  BY <1>26 DEF Boot
<1>27. CASE Serve
  BY <1>27 DEF Serve
<1>28. ASSUME NEW o \in Ops, ReconcileOperation(o) PROVE StoppedUnlessServing'
  BY <1>28 DEF ReconcileOperation, EndClaim, OrphanedOps
<1>29. ASSUME NEW s \in Stories, ReconcileClaim(s) PROVE StoppedUnlessServing'
  BY <1>29 DEF ReconcileClaim, OrphanedClaims
<1>30. CASE UNCHANGED vars
  BY <1>30 DEF vars
<1> QED
  BY <1>1, <1>2, <1>3, <1>4, <1>5, <1>6, <1>7, <1>8, <1>9, <1>10, <1>11,
     <1>12, <1>13, <1>14, <1>15, <1>16, <1>17, <1>18, <1>19, <1>20, <1>21,
     <1>22, <1>23, <1>24, <1>25, <1>26, <1>27, <1>28, <1>29, <1>30
     DEF Next, RequestStep, AdminStep, Recovery

(* Every stamp is the incarnation of the process that writes it. *)
LEMMA StampedStep ==
  ASSUME TypeOK, TypeOK', LedgerInv, [Next]_vars
  PROVE  StampedByNow'
<1> USE LedgerAssumption DEF TypeOK, LedgerInv, dbVars, reqVars, sysVars, history, Goto, Answer,
       Live, EarlySteps, EngineSteps, ExitSteps,
       StampedByNow, TableTypes, ProcessTypes, RowType, NoRow, NoClaim
<1>1. ASSUME NEW r \in Requests, NEW o \in Ops, NEW k \in Kinds, Receive(r, o, k)
      PROVE  StampedByNow'
  BY <1>1 DEF Receive, Finish
<1>2. ASSUME NEW r \in Requests, RefuseEarly(r) PROVE StampedByNow'
  BY <1>2 DEF RefuseEarly, Finish
<1>3. ASSUME NEW r \in Requests, PassRepairLock(r) PROVE StampedByNow'
  BY <1>3 DEF PassRepairLock, AfterLock
<1>4. ASSUME NEW r \in Requests, AcquireClaim(r) PROVE StampedByNow'
  BY <1>4 DEF AcquireClaim, Finish
<1>5. ASSUME NEW r \in Requests, Reload(r) PROVE StampedByNow'
  BY <1>5 DEF Reload, Finish
<1>6. ASSUME NEW r \in Requests, AcquireObjectClaim(r) PROVE StampedByNow'
  <2>1. row' = row /\ incarnation' = incarnation /\ op[r] \in Ops
    BY <1>6, RunningThread DEF AcquireObjectClaim
  <2>2. \A s \in Stories : obj'[s] = obj[s] \/ obj'[s].inc = incarnation
    BY <1>6, <2>1 DEF AcquireObjectClaim
  <2>3. StampedByNow /\ incarnation \in Nat
    OBVIOUS
  <2> QED
    BY ONLY <2>1, <2>2, <2>3 DEF StampedByNow
<1>7. ASSUME NEW r \in Requests, EngineWrite(r) PROVE StampedByNow'
  BY <1>7 DEF EngineWrite
<1>8. ASSUME NEW r \in Requests, DispatchRejected(r) PROVE StampedByNow'
  BY <1>8 DEF DispatchRejected
<1>9. ASSUME NEW r \in Requests, DispatchReturned(r) PROVE StampedByNow'
  BY <1>9 DEF DispatchReturned
<1>10. ASSUME NEW r \in Requests, Raise(r) PROVE StampedByNow'
  BY <1>10 DEF Raise
<1>11. ASSUME NEW r \in Requests, Finalize(r) PROVE StampedByNow'
  BY <1>11, EndClaimEffect, RunningThread DEF Finalize
<1>12. ASSUME NEW r \in Requests, FinalizeFrozen(r) PROVE StampedByNow'
  BY <1>12 DEF FinalizeFrozen
<1>13. ASSUME NEW r \in Requests, TerminalizeFrozen(r) PROVE StampedByNow'
  BY <1>13, EndClaimEffect, RunningThread DEF TerminalizeFrozen
<1>14. ASSUME NEW r \in Requests, CommitWithSideEffects(r) PROVE StampedByNow'
  BY <1>14 DEF CommitWithSideEffects
<1>15. ASSUME NEW r \in Requests, CommitRefused(r) PROVE StampedByNow'
  BY <1>15 DEF CommitRefused
<1>16. ASSUME NEW r \in Requests, ReleaseMyClaim(r) PROVE StampedByNow'
  BY <1>16 DEF ReleaseMyClaim, ReleaseRow
<1>17. ASSUME NEW r \in Requests, ReleaseMyClaimBestEffort(r) PROVE StampedByNow'
  BY SMTT(20), <1>17 DEF ReleaseMyClaimBestEffort, ReleaseRow
<1>18. ASSUME NEW r \in Requests, ReleaseObjectClaim(r) PROVE StampedByNow'
  BY <1>18 DEF ReleaseObjectClaim, ReleaseObject
<1>19. ASSUME NEW r \in Requests, ReleaseFails(r) PROVE StampedByNow'
  BY <1>19 DEF ReleaseFails
<1>20. ASSUME NEW a \in Admins, NEW o \in Ops, AdminLoad(a, o) PROVE StampedByNow'
  BY <1>20 DEF AdminLoad
<1>21. ASSUME NEW a \in Admins, AdminProbe(a) PROVE StampedByNow'
  BY <1>21 DEF AdminProbe
<1>22. ASSUME NEW a \in Admins, AdminAbort(a) PROVE StampedByNow'
  BY <1>22, EndClaimEffect, RunningAdmin DEF AdminAbort
<1>23. ASSUME NEW a \in Admins, AdminRelease(a) PROVE StampedByNow'
  BY <1>23 DEF AdminRelease, ReleaseObject
<1>24. ASSUME NEW a \in Admins, AdminResolve(a) PROVE StampedByNow'
  BY <1>24 DEF AdminResolve
<1>25. CASE Crash
  BY <1>25 DEF Crash
<1>26. CASE Boot
  BY <1>26 DEF Boot
<1>27. CASE Serve
  BY <1>27 DEF Serve
<1>28. ASSUME NEW o \in Ops, ReconcileOperation(o) PROVE StampedByNow'
  BY <1>28, EndClaimEffect DEF ReconcileOperation, OrphanedOps
<1>29. ASSUME NEW s \in Stories, ReconcileClaim(s) PROVE StampedByNow'
  BY <1>29 DEF ReconcileClaim, OrphanedClaims
<1>30. CASE UNCHANGED vars
  BY <1>30 DEF vars
<1> QED
  BY <1>1, <1>2, <1>3, <1>4, <1>5, <1>6, <1>7, <1>8, <1>9, <1>10, <1>11,
     <1>12, <1>13, <1>14, <1>15, <1>16, <1>17, <1>18, <1>19, <1>20, <1>21,
     <1>22, <1>23, <1>24, <1>25, <1>26, <1>27, <1>28, <1>29, <1>30
     DEF Next, RequestStep, AdminStep, Recovery

(* The steps of a thread fit its kind. *)
LEMMA KindsStep ==
  ASSUME TypeOK, TypeOK', LedgerInv, [Next]_vars
  PROVE  KindsOfSteps'
<1> USE LedgerAssumption DEF TypeOK, LedgerInv, dbVars, reqVars, sysVars, history, Goto, Answer,
       Live, EarlySteps, EngineSteps, ExitSteps,
       KindsOfSteps, ThreadTypes, ClaimingKinds
<1>1. ASSUME NEW r \in Requests, NEW o \in Ops, NEW k \in Kinds, Receive(r, o, k)
      PROVE  KindsOfSteps'
  BY <1>1 DEF Receive, Finish
<1>2. ASSUME NEW r \in Requests, RefuseEarly(r) PROVE KindsOfSteps'
  BY <1>2 DEF RefuseEarly, Finish
<1>3. ASSUME NEW r \in Requests, PassRepairLock(r) PROVE KindsOfSteps'
  BY <1>3 DEF PassRepairLock, AfterLock
<1>4. ASSUME NEW r \in Requests, AcquireClaim(r) PROVE KindsOfSteps'
  BY <1>4 DEF AcquireClaim, Finish
<1>5. ASSUME NEW r \in Requests, Reload(r) PROVE KindsOfSteps'
  BY <1>5 DEF Reload, Finish
<1>6. ASSUME NEW r \in Requests, AcquireObjectClaim(r) PROVE KindsOfSteps'
  BY <1>6 DEF AcquireObjectClaim, Finish
<1>7. ASSUME NEW r \in Requests, EngineWrite(r) PROVE KindsOfSteps'
  BY <1>7 DEF EngineWrite
<1>8. ASSUME NEW r \in Requests, DispatchRejected(r) PROVE KindsOfSteps'
  BY <1>8 DEF DispatchRejected
<1>9. ASSUME NEW r \in Requests, DispatchReturned(r) PROVE KindsOfSteps'
  BY <1>9 DEF DispatchReturned
<1>10. ASSUME NEW r \in Requests, Raise(r) PROVE KindsOfSteps'
  BY <1>10 DEF Raise
<1>11. ASSUME NEW r \in Requests, Finalize(r) PROVE KindsOfSteps'
  BY <1>11 DEF Finalize, EndClaim
<1>12. ASSUME NEW r \in Requests, FinalizeFrozen(r) PROVE KindsOfSteps'
  BY <1>12 DEF FinalizeFrozen
<1>13. ASSUME NEW r \in Requests, TerminalizeFrozen(r) PROVE KindsOfSteps'
  BY <1>13 DEF TerminalizeFrozen, EndClaim
<1>14. ASSUME NEW r \in Requests, CommitWithSideEffects(r) PROVE KindsOfSteps'
  BY <1>14 DEF CommitWithSideEffects
<1>15. ASSUME NEW r \in Requests, CommitRefused(r) PROVE KindsOfSteps'
  BY <1>15 DEF CommitRefused
<1>16. ASSUME NEW r \in Requests, ReleaseMyClaim(r) PROVE KindsOfSteps'
  BY <1>16 DEF ReleaseMyClaim, ReleaseRow
<1>17. ASSUME NEW r \in Requests, ReleaseMyClaimBestEffort(r) PROVE KindsOfSteps'
  BY <1>17 DEF ReleaseMyClaimBestEffort, ReleaseRow
<1>18. ASSUME NEW r \in Requests, ReleaseObjectClaim(r) PROVE KindsOfSteps'
  BY <1>18 DEF ReleaseObjectClaim, ReleaseObject
<1>19. ASSUME NEW r \in Requests, ReleaseFails(r) PROVE KindsOfSteps'
  BY <1>19 DEF ReleaseFails
<1>20. ASSUME NEW a \in Admins, NEW o \in Ops, AdminLoad(a, o) PROVE KindsOfSteps'
  BY <1>20 DEF AdminLoad
<1>21. ASSUME NEW a \in Admins, AdminProbe(a) PROVE KindsOfSteps'
  BY <1>21 DEF AdminProbe
<1>22. ASSUME NEW a \in Admins, AdminAbort(a) PROVE KindsOfSteps'
  BY <1>22 DEF AdminAbort, EndClaim
<1>23. ASSUME NEW a \in Admins, AdminRelease(a) PROVE KindsOfSteps'
  BY <1>23 DEF AdminRelease, ReleaseObject
<1>24. ASSUME NEW a \in Admins, AdminResolve(a) PROVE KindsOfSteps'
  BY <1>24 DEF AdminResolve
<1>25. CASE Crash
  BY <1>25 DEF Crash
<1>26. CASE Boot
  BY <1>26 DEF Boot
<1>27. CASE Serve
  BY <1>27 DEF Serve
<1>28. ASSUME NEW o \in Ops, ReconcileOperation(o) PROVE KindsOfSteps'
  BY <1>28 DEF ReconcileOperation, EndClaim, OrphanedOps
<1>29. ASSUME NEW s \in Stories, ReconcileClaim(s) PROVE KindsOfSteps'
  BY <1>29 DEF ReconcileClaim, OrphanedClaims
<1>30. CASE UNCHANGED vars
  BY <1>30 DEF vars
<1> QED
  BY <1>1, <1>2, <1>3, <1>4, <1>5, <1>6, <1>7, <1>8, <1>9, <1>10, <1>11,
     <1>12, <1>13, <1>14, <1>15, <1>16, <1>17, <1>18, <1>19, <1>20, <1>21,
     <1>22, <1>23, <1>24, <1>25, <1>26, <1>27, <1>28, <1>29, <1>30
     DEF Next, RequestStep, AdminStep, Recovery

(* A serving process has no orphans. *)
LEMMA NoOrphanStep ==
  ASSUME TypeOK, TypeOK', LedgerInv, [Next]_vars
  PROVE  NoOrphanWhileServing'
<1> USE LedgerAssumption DEF TypeOK, LedgerInv, dbVars, reqVars, sysVars, history, Goto, Answer,
       Live, EarlySteps, EngineSteps, ExitSteps,
       NoOrphanWhileServing, StoppedUnlessServing, StampedByNow, TableTypes,
       ProcessTypes, RowType, NoRow, NoClaim
<1>1. ASSUME NEW r \in Requests, NEW o \in Ops, NEW k \in Kinds, Receive(r, o, k)
      PROVE  NoOrphanWhileServing'
  BY <1>1 DEF Receive, Finish
<1>2. ASSUME NEW r \in Requests, RefuseEarly(r) PROVE NoOrphanWhileServing'
  BY <1>2 DEF RefuseEarly, Finish
<1>3. ASSUME NEW r \in Requests, PassRepairLock(r) PROVE NoOrphanWhileServing'
  BY <1>3 DEF PassRepairLock, AfterLock
<1>4. ASSUME NEW r \in Requests, AcquireClaim(r) PROVE NoOrphanWhileServing'
  BY <1>4 DEF AcquireClaim, Finish
<1>5. ASSUME NEW r \in Requests, Reload(r) PROVE NoOrphanWhileServing'
  BY <1>5 DEF Reload, Finish
<1>6. ASSUME NEW r \in Requests, AcquireObjectClaim(r) PROVE NoOrphanWhileServing'
  <2>1. /\ mode = "serving" /\ mode' = mode /\ row' = row
        /\ incarnation' = incarnation /\ op[r] \in Ops
    BY <1>6, RunningThread DEF AcquireObjectClaim
  <2>2. \A s \in Stories : obj'[s] = obj[s] \/ obj'[s].inc = incarnation
    BY <1>6, <2>1 DEF AcquireObjectClaim
  <2> QED
    BY <2>1, <2>2
<1>7. ASSUME NEW r \in Requests, EngineWrite(r) PROVE NoOrphanWhileServing'
  BY <1>7 DEF EngineWrite
<1>8. ASSUME NEW r \in Requests, DispatchRejected(r) PROVE NoOrphanWhileServing'
  BY <1>8 DEF DispatchRejected
<1>9. ASSUME NEW r \in Requests, DispatchReturned(r) PROVE NoOrphanWhileServing'
  BY <1>9 DEF DispatchReturned
<1>10. ASSUME NEW r \in Requests, Raise(r) PROVE NoOrphanWhileServing'
  BY <1>10 DEF Raise
<1>11. ASSUME NEW r \in Requests, Finalize(r) PROVE NoOrphanWhileServing'
  BY <1>11, EndClaimEffect, RunningThread DEF Finalize
<1>12. ASSUME NEW r \in Requests, FinalizeFrozen(r) PROVE NoOrphanWhileServing'
  BY <1>12 DEF FinalizeFrozen
<1>13. ASSUME NEW r \in Requests, TerminalizeFrozen(r) PROVE NoOrphanWhileServing'
  <2>1. \A x \in Ops : row'[x] = row[x] \/ row'[x].status = "rejected"
    BY <1>13, EndClaimEffect, RunningThread DEF TerminalizeFrozen
  <2> QED
    BY <1>13, <2>1 DEF TerminalizeFrozen
<1>14. ASSUME NEW r \in Requests, CommitWithSideEffects(r) PROVE NoOrphanWhileServing'
  BY <1>14 DEF CommitWithSideEffects
<1>15. ASSUME NEW r \in Requests, CommitRefused(r) PROVE NoOrphanWhileServing'
  BY <1>15 DEF CommitRefused
<1>16. ASSUME NEW r \in Requests, ReleaseMyClaim(r) PROVE NoOrphanWhileServing'
  BY <1>16 DEF ReleaseMyClaim, ReleaseRow
<1>17. ASSUME NEW r \in Requests, ReleaseMyClaimBestEffort(r) PROVE NoOrphanWhileServing'
  BY <1>17 DEF ReleaseMyClaimBestEffort, ReleaseRow
<1>18. ASSUME NEW r \in Requests, ReleaseObjectClaim(r) PROVE NoOrphanWhileServing'
  BY <1>18 DEF ReleaseObjectClaim, ReleaseObject
<1>19. ASSUME NEW r \in Requests, ReleaseFails(r) PROVE NoOrphanWhileServing'
  BY <1>19 DEF ReleaseFails
<1>20. ASSUME NEW a \in Admins, NEW o \in Ops, AdminLoad(a, o) PROVE NoOrphanWhileServing'
  BY <1>20 DEF AdminLoad
<1>21. ASSUME NEW a \in Admins, AdminProbe(a) PROVE NoOrphanWhileServing'
  BY <1>21 DEF AdminProbe
<1>22. ASSUME NEW a \in Admins, AdminAbort(a) PROVE NoOrphanWhileServing'
  BY <1>22, EndClaimEffect, RunningAdmin DEF AdminAbort
<1>23. ASSUME NEW a \in Admins, AdminRelease(a) PROVE NoOrphanWhileServing'
  BY <1>23 DEF AdminRelease, ReleaseObject
<1>24. ASSUME NEW a \in Admins, AdminResolve(a) PROVE NoOrphanWhileServing'
  BY <1>24 DEF AdminResolve
<1>25. CASE Crash
  BY <1>25 DEF Crash
<1>26. CASE Boot
  BY <1>26 DEF Boot
<1>27. CASE Serve
  <2>1. ASSUME NEW x \in Ops, row[x].status = "claimed" PROVE row[x].inc = incarnation
    <3>1. ~(row[x].inc < incarnation) /\ row[x].inc <= incarnation
      BY <1>27, <2>1 DEF Serve, OrphanedOps
    <3>2. row[x].inc \in Nat /\ incarnation \in Nat
      <4>1. row[x] \in RowType
        OBVIOUS
      <4> QED
        BY <4>1
    <3> QED
      BY ONLY <3>1, <3>2
  <2>2. ASSUME NEW s \in Stories, obj[s] # NoClaim PROVE obj[s].inc = incarnation
    <3>1. ~(obj[s].inc < incarnation) /\ obj[s].inc <= incarnation
      BY <1>27, <2>2 DEF Serve, OrphanedClaims
    <3>2. obj[s].inc \in Nat /\ incarnation \in Nat
      <4>1. obj[s] \in [op : Ops \cup {None}, inc : 0..MaxIncarnation]
        OBVIOUS
      <4> QED
        BY <4>1
    <3> QED
      BY ONLY <3>1, <3>2
  <2> QED
    BY <1>27, <2>1, <2>2 DEF Serve
<1>28. ASSUME NEW o \in Ops, ReconcileOperation(o) PROVE NoOrphanWhileServing'
  BY <1>28, EndClaimEffect DEF ReconcileOperation, OrphanedOps
<1>29. ASSUME NEW s \in Stories, ReconcileClaim(s) PROVE NoOrphanWhileServing'
  BY <1>29 DEF ReconcileClaim, OrphanedClaims
<1>30. CASE UNCHANGED vars
  BY <1>30 DEF vars
<1> QED
  BY <1>1, <1>2, <1>3, <1>4, <1>5, <1>6, <1>7, <1>8, <1>9, <1>10, <1>11,
     <1>12, <1>13, <1>14, <1>15, <1>16, <1>17, <1>18, <1>19, <1>20, <1>21,
     <1>22, <1>23, <1>24, <1>25, <1>26, <1>27, <1>28, <1>29, <1>30
     DEF Next, RequestStep, AdminStep, Recovery

(* Terminal rows stay terminal. *)
LEMMA AdminTerminalStep ==
  ASSUME TypeOK, TypeOK', LedgerInv, [Next]_vars
  PROVE  AdminReleasesTerminal'
<1> USE LedgerAssumption DEF TypeOK, LedgerInv, dbVars, reqVars, sysVars, history, Goto, Answer,
       Live, EarlySteps, EngineSteps, ExitSteps,
       AdminReleasesTerminal, StoppedUnlessServing, TableTypes, AdminTypes,
       RowType, NoAdmin, Terminal, Statuses, OwnsRow
<1>1. ASSUME NEW r \in Requests, NEW o \in Ops, NEW k \in Kinds, Receive(r, o, k)
      PROVE  AdminReleasesTerminal'
  BY <1>1 DEF Receive, Finish
<1>2. ASSUME NEW r \in Requests, RefuseEarly(r) PROVE AdminReleasesTerminal'
  BY <1>2 DEF RefuseEarly, Finish
<1>3. ASSUME NEW r \in Requests, PassRepairLock(r) PROVE AdminReleasesTerminal'
  BY <1>3 DEF PassRepairLock, AfterLock
<1>4. ASSUME NEW r \in Requests, AcquireClaim(r) PROVE AdminReleasesTerminal'
  BY <1>4 DEF AcquireClaim, Finish
<1>5. ASSUME NEW r \in Requests, Reload(r) PROVE AdminReleasesTerminal'
  BY <1>5 DEF Reload, Finish
<1>6. ASSUME NEW r \in Requests, AcquireObjectClaim(r) PROVE AdminReleasesTerminal'
  BY <1>6 DEF AcquireObjectClaim, Finish
<1>7. ASSUME NEW r \in Requests, EngineWrite(r) PROVE AdminReleasesTerminal'
  BY <1>7 DEF EngineWrite
<1>8. ASSUME NEW r \in Requests, DispatchRejected(r) PROVE AdminReleasesTerminal'
  BY <1>8 DEF DispatchRejected
<1>9. ASSUME NEW r \in Requests, DispatchReturned(r) PROVE AdminReleasesTerminal'
  BY <1>9 DEF DispatchReturned
<1>10. ASSUME NEW r \in Requests, Raise(r) PROVE AdminReleasesTerminal'
  BY <1>10 DEF Raise
<1>11. ASSUME NEW r \in Requests, Finalize(r) PROVE AdminReleasesTerminal'
  <2>1. \A x \in Ops : row'[x] = row[x] \/ row'[x].status = "committed"
    BY <1>11, EndClaimEffect, RunningThread DEF Finalize
  <2> QED
    BY <1>11, <2>1 DEF Finalize
<1>12. ASSUME NEW r \in Requests, FinalizeFrozen(r) PROVE AdminReleasesTerminal'
  BY <1>12 DEF FinalizeFrozen
<1>13. ASSUME NEW r \in Requests, TerminalizeFrozen(r) PROVE AdminReleasesTerminal'
  <2>1. \A x \in Ops : row'[x] = row[x] \/ row'[x].status = "rejected"
    BY <1>13, EndClaimEffect, RunningThread DEF TerminalizeFrozen
  <2> QED
    BY <1>13, <2>1 DEF TerminalizeFrozen
<1>14. ASSUME NEW r \in Requests, CommitWithSideEffects(r) PROVE AdminReleasesTerminal'
  BY <1>14 DEF CommitWithSideEffects
<1>15. ASSUME NEW r \in Requests, CommitRefused(r) PROVE AdminReleasesTerminal'
  BY <1>15 DEF CommitRefused
<1>16. ASSUME NEW r \in Requests, ReleaseMyClaim(r) PROVE AdminReleasesTerminal'
  BY <1>16 DEF ReleaseMyClaim, ReleaseRow
<1>17. ASSUME NEW r \in Requests, ReleaseMyClaimBestEffort(r) PROVE AdminReleasesTerminal'
  BY <1>17 DEF ReleaseMyClaimBestEffort, ReleaseRow
<1>18. ASSUME NEW r \in Requests, ReleaseObjectClaim(r) PROVE AdminReleasesTerminal'
  BY <1>18 DEF ReleaseObjectClaim, ReleaseObject
<1>19. ASSUME NEW r \in Requests, ReleaseFails(r) PROVE AdminReleasesTerminal'
  BY <1>19 DEF ReleaseFails
<1>20. ASSUME NEW a \in Admins, NEW o \in Ops, AdminLoad(a, o) PROVE AdminReleasesTerminal'
  BY <1>20 DEF AdminLoad
<1>21. ASSUME NEW a \in Admins, AdminProbe(a) PROVE AdminReleasesTerminal'
  <2>1. adm'[a].pc = "abort" /\ \A b \in Admins \ {a} : adm'[b] = adm[b]
    BY <1>21, AdminProbeEffect
  <2>2. row' = row
    BY <1>21 DEF AdminProbe
  <2> QED
    BY <2>1, <2>2
<1>22. ASSUME NEW a \in Admins, AdminAbort(a) PROVE AdminReleasesTerminal'
  <2>1. CASE row[adm[a].op].status = "claimed"
    <3>1. adm[a].op \in Ops /\ adm[a].verdict \in {"aborted", "repair"}
      BY <1>22 DEF AdminAbort
    <3>2. /\ row'[adm[a].op].status = adm[a].verdict
          /\ \A x \in Ops : x # adm[a].op => row'[x] = row[x]
      BY <1>22, <2>1, <3>1, EndClaimEffect DEF AdminAbort
    <3>3. adm'[a].op = adm[a].op /\ \A b \in Admins \ {a} : adm'[b] = adm[b]
      BY <1>22, <2>1 DEF AdminAbort
    <3>4. adm'[a].op \in Ops /\ row'[adm'[a].op].status \in Terminal
      BY <3>1, <3>2, <3>3
    <3>5. ASSUME NEW b \in Admins \ {a}, adm[b].pc = "release"
          PROVE  row'[adm[b].op].status \in Terminal
      <4>1. adm[b].op \in Ops /\ row[adm[b].op].status \in Terminal
        BY <3>5
      <4> QED
        BY <3>1, <3>2, <4>1
    <3> QED
      BY <3>3, <3>4, <3>5
  <2> QED
    BY <1>22, <2>1 DEF AdminAbort
<1>23. ASSUME NEW a \in Admins, AdminRelease(a) PROVE AdminReleasesTerminal'
  BY <1>23 DEF AdminRelease, ReleaseObject
<1>24. ASSUME NEW a \in Admins, AdminResolve(a) PROVE AdminReleasesTerminal'
  BY <1>24 DEF AdminResolve
<1>25. CASE Crash
  BY <1>25 DEF Crash
<1>26. CASE Boot
  BY <1>26 DEF Boot
<1>27. CASE Serve
  BY <1>27 DEF Serve
<1>28. ASSUME NEW o \in Ops, ReconcileOperation(o) PROVE AdminReleasesTerminal'
  BY <1>28, EndClaimEffect DEF ReconcileOperation, OrphanedOps
<1>29. ASSUME NEW s \in Stories, ReconcileClaim(s) PROVE AdminReleasesTerminal'
  BY <1>29 DEF ReconcileClaim, OrphanedClaims
<1>30. CASE UNCHANGED vars
  BY <1>30 DEF vars
<1> QED
  BY <1>1, <1>2, <1>3, <1>4, <1>5, <1>6, <1>7, <1>8, <1>9, <1>10, <1>11,
     <1>12, <1>13, <1>14, <1>15, <1>16, <1>17, <1>18, <1>19, <1>20, <1>21,
     <1>22, <1>23, <1>24, <1>25, <1>26, <1>27, <1>28, <1>29, <1>30
     DEF Next, RequestStep, AdminStep, Recovery

(* A claim is never lost to a deletion or to the reconciliation. *)
LEMMA ClaimEndsStep ==
  ASSUME TypeOK, TypeOK', LedgerInv, [Next]_vars
  PROVE  ClaimEndsTerminal'
<1> USE LedgerAssumption DEF TypeOK, LedgerInv, dbVars, reqVars, sysVars, history, Goto, Answer,
       Live, EarlySteps, EngineSteps, ExitSteps,
       ClaimEndsTerminal, HasClaimed, OwnsRow, KindsOfSteps, StoppedUnlessServing,
       TableTypes, ThreadTypes, AdminTypes, RowType, Terminal, Statuses, ClaimingKinds,
       InitialOperationEpoch
<1>1. ASSUME NEW r \in Requests, NEW o \in Ops, NEW k \in Kinds, Receive(r, o, k)
      PROVE  ClaimEndsTerminal'
  BY <1>1 DEF Receive, Finish
<1>2. ASSUME NEW r \in Requests, RefuseEarly(r) PROVE ClaimEndsTerminal'
  BY <1>2 DEF RefuseEarly, Finish
<1>3. ASSUME NEW r \in Requests, PassRepairLock(r) PROVE ClaimEndsTerminal'
  BY <1>3 DEF PassRepairLock, AfterLock
<1>4. ASSUME NEW r \in Requests, AcquireClaim(r) PROVE ClaimEndsTerminal'
  BY <1>4 DEF AcquireClaim, Finish
<1>5. ASSUME NEW r \in Requests, Reload(r) PROVE ClaimEndsTerminal'
  BY <1>5 DEF Reload, Finish
<1>6. ASSUME NEW r \in Requests, AcquireObjectClaim(r) PROVE ClaimEndsTerminal'
  BY <1>6 DEF AcquireObjectClaim, Finish
<1>7. ASSUME NEW r \in Requests, EngineWrite(r) PROVE ClaimEndsTerminal'
  BY <1>7 DEF EngineWrite
<1>8. ASSUME NEW r \in Requests, DispatchRejected(r) PROVE ClaimEndsTerminal'
  BY <1>8 DEF DispatchRejected
<1>9. ASSUME NEW r \in Requests, DispatchReturned(r) PROVE ClaimEndsTerminal'
  BY <1>9 DEF DispatchReturned
<1>10. ASSUME NEW r \in Requests, Raise(r) PROVE ClaimEndsTerminal'
  BY <1>10 DEF Raise
<1>11. ASSUME NEW r \in Requests, Finalize(r) PROVE ClaimEndsTerminal'
  BY <1>11, EndClaimEffect, RunningThread DEF Finalize
<1>12. ASSUME NEW r \in Requests, FinalizeFrozen(r) PROVE ClaimEndsTerminal'
  BY <1>12 DEF FinalizeFrozen
<1>13. ASSUME NEW r \in Requests, TerminalizeFrozen(r) PROVE ClaimEndsTerminal'
  BY <1>13, EndClaimEffect, RunningThread DEF TerminalizeFrozen
<1>14. ASSUME NEW r \in Requests, CommitWithSideEffects(r) PROVE ClaimEndsTerminal'
  BY <1>14 DEF CommitWithSideEffects
<1>15. ASSUME NEW r \in Requests, CommitRefused(r) PROVE ClaimEndsTerminal'
  BY <1>15 DEF CommitRefused
<1>16. ASSUME NEW r \in Requests, ReleaseMyClaim(r) PROVE ClaimEndsTerminal'
  BY <1>16 DEF ReleaseMyClaim, ReleaseRow
<1>17. ASSUME NEW r \in Requests, ReleaseMyClaimBestEffort(r) PROVE ClaimEndsTerminal'
  BY <1>17 DEF ReleaseMyClaimBestEffort, ReleaseRow
<1>18. ASSUME NEW r \in Requests, ReleaseObjectClaim(r) PROVE ClaimEndsTerminal'
  BY <1>18 DEF ReleaseObjectClaim, ReleaseObject
<1>19. ASSUME NEW r \in Requests, ReleaseFails(r) PROVE ClaimEndsTerminal'
  BY <1>19 DEF ReleaseFails
<1>20. ASSUME NEW a \in Admins, NEW o \in Ops, AdminLoad(a, o) PROVE ClaimEndsTerminal'
  BY <1>20 DEF AdminLoad
<1>21. ASSUME NEW a \in Admins, AdminProbe(a) PROVE ClaimEndsTerminal'
  BY <1>21 DEF AdminProbe
<1>22. ASSUME NEW a \in Admins, AdminAbort(a) PROVE ClaimEndsTerminal'
  BY <1>22, EndClaimEffect, RunningAdmin DEF AdminAbort
<1>23. ASSUME NEW a \in Admins, AdminRelease(a) PROVE ClaimEndsTerminal'
  BY <1>23 DEF AdminRelease, ReleaseObject
<1>24. ASSUME NEW a \in Admins, AdminResolve(a) PROVE ClaimEndsTerminal'
  BY <1>24 DEF AdminResolve
<1>25. CASE Crash
  BY <1>25 DEF Crash
<1>26. CASE Boot
  BY <1>26 DEF Boot
<1>27. CASE Serve
  BY <1>27 DEF Serve
<1>28. ASSUME NEW o \in Ops, ReconcileOperation(o) PROVE ClaimEndsTerminal'
  BY <1>28, EndClaimEffect DEF ReconcileOperation, OrphanedOps
<1>29. ASSUME NEW s \in Stories, ReconcileClaim(s) PROVE ClaimEndsTerminal'
  BY <1>29 DEF ReconcileClaim, OrphanedClaims
<1>30. CASE UNCHANGED vars
  BY <1>30 DEF vars
<1> QED
  BY <1>1, <1>2, <1>3, <1>4, <1>5, <1>6, <1>7, <1>8, <1>9, <1>10, <1>11,
     <1>12, <1>13, <1>14, <1>15, <1>16, <1>17, <1>18, <1>19, <1>20, <1>21,
     <1>22, <1>23, <1>24, <1>25, <1>26, <1>27, <1>28, <1>29, <1>30
     DEF Next, RequestStep, AdminStep, Recovery

(* claimed_at is taken before the first write of the executor. *)
LEMMA WritesStep ==
  ASSUME TypeOK, TypeOK', LedgerInv, [Next]_vars
  PROVE  WritesSinceClaim'
<1> USE LedgerAssumption DEF TypeOK, LedgerInv, dbVars, reqVars, sysVars, history, Goto, Answer,
       Live, EarlySteps, EngineSteps, ExitSteps,
       WritesSinceClaim, ClaimEndsTerminal, HasClaimed, OwnsRow, KindsOfSteps, StoppedUnlessServing,
       TableTypes, ThreadTypes, AdminTypes, ProcessTypes, RowType, NoRow, Terminal, Statuses
<1>1. ASSUME NEW r \in Requests, NEW o \in Ops, NEW k \in Kinds, Receive(r, o, k)
      PROVE  WritesSinceClaim'
  BY <1>1 DEF Receive, Finish
<1>2. ASSUME NEW r \in Requests, RefuseEarly(r) PROVE WritesSinceClaim'
  BY <1>2 DEF RefuseEarly, Finish
<1>3. ASSUME NEW r \in Requests, PassRepairLock(r) PROVE WritesSinceClaim'
  BY <1>3 DEF PassRepairLock, AfterLock
<1>4. ASSUME NEW r \in Requests, AcquireClaim(r) PROVE WritesSinceClaim'
  <2>1. op[r] \in Ops
    BY <1>4, RunningThread DEF AcquireClaim
  <2>2. CASE row[op[r]].status = "none"
    <3>1. /\ row'[op[r]].at = writes[StoryOf[op[r]]]
          /\ \A x \in Ops : x # op[r] => row'[x] = row[x]
          /\ writes' = writes /\ wrote' = wrote \ {op[r]}
      BY <1>4, <2>1, <2>2 DEF AcquireClaim
    <3> QED
      BY <2>1, <3>1
  <2> QED
    BY <1>4, <2>2 DEF AcquireClaim
<1>5. ASSUME NEW r \in Requests, Reload(r) PROVE WritesSinceClaim'
  BY <1>5 DEF Reload, Finish
<1>6. ASSUME NEW r \in Requests, AcquireObjectClaim(r) PROVE WritesSinceClaim'
  BY <1>6 DEF AcquireObjectClaim, Finish
<1>7. ASSUME NEW r \in Requests, EngineWrite(r) PROVE WritesSinceClaim'
  BY <1>7 DEF EngineWrite
<1>8. ASSUME NEW r \in Requests, DispatchRejected(r) PROVE WritesSinceClaim'
  BY <1>8 DEF DispatchRejected
<1>9. ASSUME NEW r \in Requests, DispatchReturned(r) PROVE WritesSinceClaim'
  BY <1>9 DEF DispatchReturned
<1>10. ASSUME NEW r \in Requests, Raise(r) PROVE WritesSinceClaim'
  BY <1>10 DEF Raise
<1>11. ASSUME NEW r \in Requests, Finalize(r) PROVE WritesSinceClaim'
  BY <1>11, EndClaimEffect, RunningThread DEF Finalize
<1>12. ASSUME NEW r \in Requests, FinalizeFrozen(r) PROVE WritesSinceClaim'
  BY <1>12 DEF FinalizeFrozen
<1>13. ASSUME NEW r \in Requests, TerminalizeFrozen(r) PROVE WritesSinceClaim'
  BY <1>13, EndClaimEffect, RunningThread DEF TerminalizeFrozen
<1>14. ASSUME NEW r \in Requests, CommitWithSideEffects(r) PROVE WritesSinceClaim'
  BY <1>14 DEF CommitWithSideEffects
<1>15. ASSUME NEW r \in Requests, CommitRefused(r) PROVE WritesSinceClaim'
  BY <1>15 DEF CommitRefused
<1>16. ASSUME NEW r \in Requests, ReleaseMyClaim(r) PROVE WritesSinceClaim'
  <2>1. \A x \in Ops : row'[x] = row[x] \/ row'[x] = NoRow
    BY <1>16, RunningThread DEF ReleaseMyClaim, ReleaseRow
  <2>2. writes' = writes /\ wrote' = wrote
    BY <1>16 DEF ReleaseMyClaim
  <2> QED
    BY <2>1, <2>2
<1>17. ASSUME NEW r \in Requests, ReleaseMyClaimBestEffort(r) PROVE WritesSinceClaim'
  <2>1. \A x \in Ops : row'[x] = row[x] \/ row'[x] = NoRow
    BY <1>17, RunningThread DEF ReleaseMyClaimBestEffort, ReleaseRow
  <2> QED
    BY <1>17, <2>1 DEF ReleaseMyClaimBestEffort
<1>18. ASSUME NEW r \in Requests, ReleaseObjectClaim(r) PROVE WritesSinceClaim'
  BY <1>18 DEF ReleaseObjectClaim, ReleaseObject
<1>19. ASSUME NEW r \in Requests, ReleaseFails(r) PROVE WritesSinceClaim'
  BY <1>19 DEF ReleaseFails
<1>20. ASSUME NEW a \in Admins, NEW o \in Ops, AdminLoad(a, o) PROVE WritesSinceClaim'
  BY <1>20 DEF AdminLoad
<1>21. ASSUME NEW a \in Admins, AdminProbe(a) PROVE WritesSinceClaim'
  BY <1>21 DEF AdminProbe
<1>22. ASSUME NEW a \in Admins, AdminAbort(a) PROVE WritesSinceClaim'
  BY <1>22, EndClaimEffect, RunningAdmin DEF AdminAbort
<1>23. ASSUME NEW a \in Admins, AdminRelease(a) PROVE WritesSinceClaim'
  BY <1>23 DEF AdminRelease, ReleaseObject
<1>24. ASSUME NEW a \in Admins, AdminResolve(a) PROVE WritesSinceClaim'
  BY <1>24 DEF AdminResolve
<1>25. CASE Crash
  BY <1>25 DEF Crash
<1>26. CASE Boot
  BY <1>26 DEF Boot
<1>27. CASE Serve
  BY <1>27 DEF Serve
<1>28. ASSUME NEW o \in Ops, ReconcileOperation(o) PROVE WritesSinceClaim'
  BY <1>28, EndClaimEffect DEF ReconcileOperation, OrphanedOps
<1>29. ASSUME NEW s \in Stories, ReconcileClaim(s) PROVE WritesSinceClaim'
  BY <1>29 DEF ReconcileClaim, OrphanedClaims
<1>30. CASE UNCHANGED vars
  BY <1>30 DEF vars
<1> QED
  BY <1>1, <1>2, <1>3, <1>4, <1>5, <1>6, <1>7, <1>8, <1>9, <1>10, <1>11,
     <1>12, <1>13, <1>14, <1>15, <1>16, <1>17, <1>18, <1>19, <1>20, <1>21,
     <1>22, <1>23, <1>24, <1>25, <1>26, <1>27, <1>28, <1>29, <1>30
     DEF Next, RequestStep, AdminStep, Recovery

(* A reconciled operation without writes has no executor left to write. *)
LEMMA FailedStep ==
  ASSUME TypeOK, TypeOK', LedgerInv, [Next]_vars
  PROVE  FailedMeansNoWrites'
<1> USE LedgerAssumption DEF TypeOK, LedgerInv, dbVars, reqVars, sysVars, history, Goto, Answer,
       Live, EarlySteps, EngineSteps, ExitSteps,
       FailedMeansNoWrites, WritesSinceClaim, HasEngineWritesSince, ClaimEndsTerminal, HasClaimed, OwnsRow, KindsOfSteps, StoppedUnlessServing,
       TableTypes, ThreadTypes, AdminTypes, ProcessTypes, RowType, NoRow, Terminal, Statuses
<1>1. ASSUME NEW r \in Requests, NEW o \in Ops, NEW k \in Kinds, Receive(r, o, k)
      PROVE  FailedMeansNoWrites'
  BY <1>1 DEF Receive, Finish
<1>2. ASSUME NEW r \in Requests, RefuseEarly(r) PROVE FailedMeansNoWrites'
  BY <1>2 DEF RefuseEarly, Finish
<1>3. ASSUME NEW r \in Requests, PassRepairLock(r) PROVE FailedMeansNoWrites'
  BY <1>3 DEF PassRepairLock, AfterLock
<1>4. ASSUME NEW r \in Requests, AcquireClaim(r) PROVE FailedMeansNoWrites'
  BY <1>4 DEF AcquireClaim, Finish
<1>5. ASSUME NEW r \in Requests, Reload(r) PROVE FailedMeansNoWrites'
  BY <1>5 DEF Reload, Finish
<1>6. ASSUME NEW r \in Requests, AcquireObjectClaim(r) PROVE FailedMeansNoWrites'
  BY <1>6 DEF AcquireObjectClaim, Finish
<1>7. ASSUME NEW r \in Requests, EngineWrite(r) PROVE FailedMeansNoWrites'
  BY <1>7 DEF EngineWrite
<1>8. ASSUME NEW r \in Requests, DispatchRejected(r) PROVE FailedMeansNoWrites'
  BY <1>8 DEF DispatchRejected
<1>9. ASSUME NEW r \in Requests, DispatchReturned(r) PROVE FailedMeansNoWrites'
  BY <1>9 DEF DispatchReturned
<1>10. ASSUME NEW r \in Requests, Raise(r) PROVE FailedMeansNoWrites'
  BY <1>10 DEF Raise
<1>11. ASSUME NEW r \in Requests, Finalize(r) PROVE FailedMeansNoWrites'
  BY <1>11, EndClaimEffect, RunningThread DEF Finalize
<1>12. ASSUME NEW r \in Requests, FinalizeFrozen(r) PROVE FailedMeansNoWrites'
  BY <1>12 DEF FinalizeFrozen
<1>13. ASSUME NEW r \in Requests, TerminalizeFrozen(r) PROVE FailedMeansNoWrites'
  BY <1>13, EndClaimEffect, RunningThread DEF TerminalizeFrozen
<1>14. ASSUME NEW r \in Requests, CommitWithSideEffects(r) PROVE FailedMeansNoWrites'
  BY <1>14 DEF CommitWithSideEffects
<1>15. ASSUME NEW r \in Requests, CommitRefused(r) PROVE FailedMeansNoWrites'
  BY <1>15 DEF CommitRefused
<1>16. ASSUME NEW r \in Requests, ReleaseMyClaim(r) PROVE FailedMeansNoWrites'
  <2>1. \A x \in Ops : row'[x] = row[x] \/ row'[x] = NoRow
    BY <1>16, RunningThread DEF ReleaseMyClaim, ReleaseRow
  <2> QED
    BY <1>16, <2>1 DEF ReleaseMyClaim
<1>17. ASSUME NEW r \in Requests, ReleaseMyClaimBestEffort(r) PROVE FailedMeansNoWrites'
  <2>1. \A x \in Ops : row'[x] = row[x] \/ row'[x] = NoRow
    BY <1>17, RunningThread DEF ReleaseMyClaimBestEffort, ReleaseRow
  <2>2. wrote' = wrote
    BY <1>17 DEF ReleaseMyClaimBestEffort
  <2> QED
    BY <2>1, <2>2
<1>18. ASSUME NEW r \in Requests, ReleaseObjectClaim(r) PROVE FailedMeansNoWrites'
  BY <1>18 DEF ReleaseObjectClaim, ReleaseObject
<1>19. ASSUME NEW r \in Requests, ReleaseFails(r) PROVE FailedMeansNoWrites'
  BY <1>19 DEF ReleaseFails
<1>20. ASSUME NEW a \in Admins, NEW o \in Ops, AdminLoad(a, o) PROVE FailedMeansNoWrites'
  BY <1>20 DEF AdminLoad
<1>21. ASSUME NEW a \in Admins, AdminProbe(a) PROVE FailedMeansNoWrites'
  BY <1>21 DEF AdminProbe
<1>22. ASSUME NEW a \in Admins, AdminAbort(a) PROVE FailedMeansNoWrites'
  <2>1. CASE row[adm[a].op].status = "claimed"
    <3>1. adm[a].op \in Ops /\ adm[a].verdict # "failed"
      BY <1>22, RunningAdmin DEF AdminAbort
    <3>2. /\ row'[adm[a].op].status = adm[a].verdict
          /\ \A x \in Ops : x # adm[a].op => row'[x] = row[x]
      BY <1>22, <2>1, <3>1, EndClaimEffect DEF AdminAbort
    <3> QED
      BY <1>22, <3>1, <3>2 DEF AdminAbort
  <2> QED
    BY <1>22, <2>1 DEF AdminAbort
<1>23. ASSUME NEW a \in Admins, AdminRelease(a) PROVE FailedMeansNoWrites'
  BY <1>23 DEF AdminRelease, ReleaseObject
<1>24. ASSUME NEW a \in Admins, AdminResolve(a) PROVE FailedMeansNoWrites'
  BY <1>24 DEF AdminResolve
<1>25. CASE Crash
  BY <1>25 DEF Crash
<1>26. CASE Boot
  BY <1>26 DEF Boot
<1>27. CASE Serve
  BY <1>27 DEF Serve
<1>28. ASSUME NEW o \in Ops, ReconcileOperation(o) PROVE FailedMeansNoWrites'
  BY <1>28, EndClaimEffect DEF ReconcileOperation, OrphanedOps
<1>29. ASSUME NEW s \in Stories, ReconcileClaim(s) PROVE FailedMeansNoWrites'
  BY <1>29 DEF ReconcileClaim, OrphanedClaims
<1>30. CASE UNCHANGED vars
  BY <1>30 DEF vars
<1> QED
  BY <1>1, <1>2, <1>3, <1>4, <1>5, <1>6, <1>7, <1>8, <1>9, <1>10, <1>11,
     <1>12, <1>13, <1>14, <1>15, <1>16, <1>17, <1>18, <1>19, <1>20, <1>21,
     <1>22, <1>23, <1>24, <1>25, <1>26, <1>27, <1>28, <1>29, <1>30
     DEF Next, RequestStep, AdminStep, Recovery

(* One holder of a story claim. *)
LEMMA StoryHeldStep ==
  ASSUME TypeOK, TypeOK', LedgerInv, [Next]_vars
  PROVE  StoryClaimHeld'
<1> USE LedgerAssumption DEF TypeOK, LedgerInv, dbVars, reqVars, sysVars, history, Goto, Answer,
       Live, EarlySteps, EngineSteps, ExitSteps,
       Holders, InOwnersHands, AdminReleasesTerminal, ClaimEndsTerminal, HasClaimed, OwnsRow, KindsOfSteps, StoppedUnlessServing,
       TableTypes, ThreadTypes, AdminTypes, RowType, NoRow, NoClaim, Terminal, Statuses, ClaimingKinds
<1>1. ASSUME NEW r \in Requests, NEW o \in Ops, NEW k \in Kinds, Receive(r, o, k)
      PROVE  StoryClaimHeld'
  BY <1>1 DEF Receive, Finish, StoryClaimHeld
<1>2. ASSUME NEW r \in Requests, RefuseEarly(r) PROVE StoryClaimHeld'
  BY <1>2 DEF RefuseEarly, Finish, StoryClaimHeld
<1>3. ASSUME NEW r \in Requests, PassRepairLock(r) PROVE StoryClaimHeld'
  BY <1>3 DEF PassRepairLock, AfterLock, StoryClaimHeld
<1>4. ASSUME NEW r \in Requests, AcquireClaim(r) PROVE StoryClaimHeld'
  <2>1. /\ op[r] \in Ops /\ UNCHANGED <<obj, op, kind>>
        /\ pc[r] = "claim" /\ pc'[r] \in {"object", "done"}
        /\ \A x \in Requests : x # r => pc'[x] = pc[x]
    BY <1>4, RunningThread DEF AcquireClaim, Finish
  <2>2. \A x \in Ops : row'[x] = row[x] \/ row[x].status = "none"
    BY <1>4, <2>1 DEF AcquireClaim
  <2>3. \A x \in Ops : Holders(x)' = Holders(x)
    BY <2>1
  <2>4. ASSUME NEW x \in Ops, InOwnersHands(x)' PROVE InOwnersHands(x)
    <3>1. CASE row'[x] = row[x]
      <4>1. \A q \in Requests : HasClaimed(q)' /\ q # r => HasClaimed(q)
        BY <2>1
      <4>2. row'[x].status = "claimed" => row[x].by # r \/ op[r] # x \/ pc'[r] = "done"
        BY <1>4, <2>1, <3>1 DEF AcquireClaim, Finish
      <4> QED
        BY <2>1, <2>4, <3>1, <4>1, <4>2
    <3> QED
      BY <2>2, <3>1
  <2> QED
    BY <2>1, <2>3, <2>4 DEF StoryClaimHeld
<1>5. ASSUME NEW r \in Requests, Reload(r) PROVE StoryClaimHeld'
  BY <1>5 DEF Reload, Finish, StoryClaimHeld
<1>6. ASSUME NEW r \in Requests, AcquireObjectClaim(r) PROVE StoryClaimHeld'
  <2> DEFINE s == StoryOf[op[r]]
  <2>1. /\ op[r] \in Ops /\ s \in Stories /\ UNCHANGED <<row, op, kind>>
        /\ pc[r] = "object" /\ pc'[r] \in {"dispatch", "commit", "relbusy", "done"}
        /\ pc'[r] \in {"dispatch", "relbusy"} => kind[r] \in ClaimingKinds
        /\ \A x \in Requests : x # r => pc'[x] = pc[x]
    BY <1>6, RunningThread DEF AcquireObjectClaim, Finish
  <2>2. \A x \in Ops : InOwnersHands(x)' => InOwnersHands(x)
    BY <2>1
  <2>3. CASE obj[s] = NoClaim
    <3>1. /\ obj'[s].op = op[r]
          /\ \A t \in Stories : t # s => obj'[t] = obj[t]
      BY <1>6, <2>1, <2>3 DEF AcquireObjectClaim
    <3>2. \A x \in Ops : StoryOf[x] = s /\ InOwnersHands(x) => Holders(x) = {}
      BY <2>3 DEF StoryClaimHeld
    <3>3. \A x \in Ops : Holders(x)' \subseteq Holders(x) \cup (IF x = op[r] THEN {r} ELSE {})
      BY <2>1
    <3> QED
      BY <2>1, <2>2, <3>1, <3>2, <3>3 DEF StoryClaimHeld
  <2>4. CASE obj[s] # NoClaim
    <3>1. obj' = obj /\ pc'[r] \in {"relbusy", "done"}
      BY <1>6, <2>4 DEF AcquireObjectClaim, Finish
    <3>2. \A x \in Ops : Holders(x)' = Holders(x)
      BY <2>1, <3>1
    <3> QED
      BY <2>1, <2>2, <3>1, <3>2 DEF StoryClaimHeld
  <2> QED
    BY <2>3, <2>4
<1>7. ASSUME NEW r \in Requests, EngineWrite(r) PROVE StoryClaimHeld'
  BY <1>7 DEF EngineWrite, StoryClaimHeld
<1>8. ASSUME NEW r \in Requests, DispatchRejected(r) PROVE StoryClaimHeld'
  BY <1>8 DEF DispatchRejected, StoryClaimHeld
<1>9. ASSUME NEW r \in Requests, DispatchReturned(r) PROVE StoryClaimHeld'
  BY <1>9 DEF DispatchReturned, StoryClaimHeld
<1>10. ASSUME NEW r \in Requests, Raise(r) PROVE StoryClaimHeld'
  BY <1>10 DEF Raise, StoryClaimHeld
<1>11. ASSUME NEW r \in Requests, Finalize(r) PROVE StoryClaimHeld'
  <2>1. /\ op[r] \in Ops /\ UNCHANGED <<obj, op, kind>>
        /\ pc[r] \in EngineSteps /\ pc'[r] = "relobj"
        /\ \A x \in Requests : x # r => pc'[x] = pc[x]
    BY <1>11, RunningThread DEF Finalize
  <2>2. \A x \in Ops : row'[x] = row[x] \/ row'[x].status = "committed"
    BY <1>11, EndClaimEffect, RunningThread DEF Finalize
  <2>3. \A x \in Ops : Holders(x)' = Holders(x)
    BY <2>1
  <2>4. \A x \in Ops : InOwnersHands(x)' => InOwnersHands(x)
    <3>1. \A q \in Requests : HasClaimed(q)' => HasClaimed(q)
      BY <2>1
    <3> QED
      BY <2>1, <2>2, <3>1 DEF InOwnersHands
  <2> QED
    BY <2>1, <2>3, <2>4 DEF StoryClaimHeld
<1>12. ASSUME NEW r \in Requests, FinalizeFrozen(r) PROVE StoryClaimHeld'
  BY <1>12 DEF FinalizeFrozen, StoryClaimHeld
<1>13. ASSUME NEW r \in Requests, TerminalizeFrozen(r) PROVE StoryClaimHeld'
  <2>1. /\ op[r] \in Ops /\ UNCHANGED <<obj, op, kind>>
        /\ pc[r] \in EngineSteps /\ pc'[r] = "relobj"
        /\ \A x \in Requests : x # r => pc'[x] = pc[x]
    BY <1>13, RunningThread DEF TerminalizeFrozen
  <2>2. \A x \in Ops : row'[x] = row[x] \/ row'[x].status = "rejected"
    BY <1>13, EndClaimEffect, RunningThread DEF TerminalizeFrozen
  <2>3. \A x \in Ops : Holders(x)' = Holders(x)
    BY <2>1
  <2>4. \A x \in Ops : InOwnersHands(x)' => InOwnersHands(x)
    <3>1. \A q \in Requests : HasClaimed(q)' => HasClaimed(q)
      BY <2>1
    <3> QED
      BY <2>1, <2>2, <3>1 DEF InOwnersHands
  <2> QED
    BY <2>1, <2>3, <2>4 DEF StoryClaimHeld
<1>14. ASSUME NEW r \in Requests, CommitWithSideEffects(r) PROVE StoryClaimHeld'
  BY <1>14 DEF CommitWithSideEffects, StoryClaimHeld
<1>15. ASSUME NEW r \in Requests, CommitRefused(r) PROVE StoryClaimHeld'
  BY <1>15 DEF CommitRefused, StoryClaimHeld
<1>16. ASSUME NEW r \in Requests, ReleaseMyClaim(r) PROVE StoryClaimHeld'
  <2>1. op[r] \in Ops /\ UNCHANGED <<obj, op, kind>>
    BY <1>16, RunningThread DEF ReleaseMyClaim
  <2>2. /\ pc[r] \in {"relbusy", "relop"} /\ pc'[r] \in {"relobj", "done"}
        /\ OwnsRow(r) => (pc'[r] = "relobj" <=> pc[r] = "relop")
        /\ ~OwnsRow(r) => row' = row
        /\ \A x \in Requests : x # r => pc'[x] = pc[x]
    BY <1>16 DEF ReleaseMyClaim
  <2>3. \A x \in Ops : (x = op[r] /\ ~OwnsRow(r)) \/ Holders(x)' = Holders(x)
    BY <2>1, <2>2
  <2>5. ~OwnsRow(r) => ~InOwnersHands(op[r])'
    BY <2>1, <2>2
  <2>4. ASSUME NEW x \in Ops, InOwnersHands(x)' PROVE InOwnersHands(x)
    <3>1. CASE OwnsRow(r) /\ x = op[r]
      BY <2>2, <3>1
    <3>2. CASE ~(OwnsRow(r) /\ x = op[r])
      <4>1. row'[x] = row[x]
        BY <1>16, <2>1, <3>2 DEF ReleaseMyClaim, ReleaseRow
      <4> QED
        BY <2>1, <2>2, <2>4, <4>1
    <3> QED
      BY <3>1, <3>2
  <2> QED
    BY <2>1, <2>3, <2>4, <2>5 DEF StoryClaimHeld
<1>17. ASSUME NEW r \in Requests, ReleaseMyClaimBestEffort(r) PROVE StoryClaimHeld'
  <2>1. op[r] \in Ops /\ UNCHANGED <<obj, op, kind>>
    BY <1>17, RunningThread DEF ReleaseMyClaimBestEffort
  <2>2. /\ pc[r] = "unwind" /\ pc'[r] = "relobj"
        /\ \A x \in Requests : x # r => pc'[x] = pc[x]
    BY <1>17 DEF ReleaseMyClaimBestEffort
  <2>3. \A x \in Ops : Holders(x)' = Holders(x)
    BY <2>1, <2>2
  <2>4. ASSUME NEW x \in Ops, InOwnersHands(x)' PROVE InOwnersHands(x)
    <3>1. CASE OwnsRow(r) /\ x = op[r]
      BY <2>2, <3>1
    <3>2. CASE ~(OwnsRow(r) /\ x = op[r])
      <4>1. row'[x] = row[x]
        BY <1>17, <2>1, <3>2 DEF ReleaseMyClaimBestEffort, ReleaseRow
      <4> QED
        BY <2>1, <2>2, <2>4, <4>1
    <3> QED
      BY <3>1, <3>2
  <2> QED
    BY <2>1, <2>3, <2>4 DEF StoryClaimHeld
<1>18. ASSUME NEW r \in Requests, ReleaseObjectClaim(r) PROVE StoryClaimHeld'
  BY <1>18 DEF ReleaseObjectClaim, ReleaseObject, StoryClaimHeld
<1>19. ASSUME NEW r \in Requests, ReleaseFails(r) PROVE StoryClaimHeld'
  BY <1>19 DEF ReleaseFails, StoryClaimHeld
<1>20. ASSUME NEW a \in Admins, NEW o \in Ops, AdminLoad(a, o) PROVE StoryClaimHeld'
  BY <1>20 DEF AdminLoad, StoryClaimHeld
<1>21. ASSUME NEW a \in Admins, AdminProbe(a) PROVE StoryClaimHeld'
  <2>1. UNCHANGED <<row, obj, pc, op, kind>>
    BY <1>21 DEF AdminProbe
  <2> QED
    BY <2>1 DEF StoryClaimHeld
<1>22. ASSUME NEW a \in Admins, AdminAbort(a) PROVE StoryClaimHeld'
  <2>1. UNCHANGED <<obj, pc, op, kind>>
    BY <1>22 DEF AdminAbort
  <2>2. \A x \in Ops : row'[x] = row[x] \/ row'[x].status \in {"aborted", "repair"}
    BY <1>22, EndClaimEffect, RunningAdmin DEF AdminAbort
  <2>3. \A x \in Ops : Holders(x)' = Holders(x)
    BY <2>1
  <2>4. \A x \in Ops : InOwnersHands(x)' => InOwnersHands(x)
    <3>1. \A q \in Requests : HasClaimed(q)' => HasClaimed(q)
      BY <2>1
    <3> QED
      BY <2>1, <2>2, <3>1 DEF InOwnersHands
  <2> QED
    BY <2>1, <2>3, <2>4 DEF StoryClaimHeld
<1>23. ASSUME NEW a \in Admins, AdminRelease(a) PROVE StoryClaimHeld'
  BY <1>23 DEF AdminRelease, ReleaseObject, StoryClaimHeld
<1>24. ASSUME NEW a \in Admins, AdminResolve(a) PROVE StoryClaimHeld'
  BY <1>24 DEF AdminResolve, StoryClaimHeld
<1>25. CASE Crash
  BY <1>25 DEF Crash, StoryClaimHeld
<1>26. CASE Boot
  BY <1>26 DEF Boot, StoryClaimHeld
<1>27. CASE Serve
  BY <1>27 DEF Serve, StoryClaimHeld
<1>28. ASSUME NEW o \in Ops, ReconcileOperation(o) PROVE StoryClaimHeld'
  BY <1>28, EndClaimEffect DEF ReconcileOperation, OrphanedOps, StoryClaimHeld
<1>29. ASSUME NEW s \in Stories, ReconcileClaim(s) PROVE StoryClaimHeld'
  BY <1>29 DEF ReconcileClaim, OrphanedClaims, StoryClaimHeld
<1>30. CASE UNCHANGED vars
  BY <1>30 DEF vars, StoryClaimHeld
<1> QED
  BY <1>1, <1>2, <1>3, <1>4, <1>5, <1>6, <1>7, <1>8, <1>9, <1>10, <1>11,
     <1>12, <1>13, <1>14, <1>15, <1>16, <1>17, <1>18, <1>19, <1>20, <1>21,
     <1>22, <1>23, <1>24, <1>25, <1>26, <1>27, <1>28, <1>29, <1>30
     DEF Next, RequestStep, AdminStep, Recovery

------------------------------------------------------------------------------
(* The bookkeeping of claims, story claims, incarnations and engine writes   *)
(* holds in every state of the protocol.                                     *)
THEOREM LedgerInvariant == Spec => []LedgerInv
<1>1. Init => LedgerInv
  BY LedgerAssumption DEF Init, LedgerInv, StoppedUnlessServing, StampedByNow,
     KindsOfSteps, ClaimEndsTerminal, HasClaimed, WritesSinceClaim,
     StoryClaimHeld, Holders, AdminReleasesTerminal, NoOrphanWhileServing,
     FailedMeansNoWrites, NoRow, NoClaim, NoAdmin, Live, EarlySteps,
     EngineSteps, ExitSteps
<1>2. TypeOK /\ TypeOK' /\ LedgerInv /\ [Next]_vars => LedgerInv'
  <2> SUFFICES ASSUME TypeOK, TypeOK', LedgerInv, [Next]_vars
               PROVE  LedgerInv'
    OBVIOUS
  <2> QED
    BY StoppedStep, StampedStep, KindsStep, NoOrphanStep, AdminTerminalStep,
       ClaimEndsStep, WritesStep, FailedStep, StoryHeldStep DEF LedgerInv
<1> QED
  BY <1>1, <1>2, TypeCorrect, PTL DEF Spec

(* startup_reconcile: a process that serves has no claim of an earlier        *)
(* incarnation, whenever and how often the instance crashed before.          *)
THEOREM NoOrphans == Spec => []NoOrphanWhileServing
<1>1. LedgerInv => NoOrphanWhileServing
  BY DEF LedgerInv
<1> QED
  BY <1>1, LedgerInvariant, PTL

(* startup_reconcile: an orphan is finalized as 'failed' only if its executor *)
(* wrote nothing; the probe by claimed_at misses no write.                   *)
THEOREM ReconciliationIsSound == Spec => []FailedMeansNoWrites
<1>1. LedgerInv => FailedMeansNoWrites
  BY DEF LedgerInv
<1> QED
  BY <1>1, LedgerInvariant, PTL

(* object_claims: of the threads that run the engine or finalize on a story,  *)
(* at most one still owns its operation, with any number of deliveries of any *)
(* kinds, aborts, failed releases and restarts.                              *)
THEOREM Serialization == Spec => []SerializedDispatch
<1>1. TypeOK /\ LedgerInv => SerializedDispatch
  <2> SUFFICES ASSUME TypeOK, LedgerInv, NEW r1 \in Requests, NEW r2 \in Requests,
                      pc[r1] \in EngineSteps, pc[r2] \in EngineSteps,
                      StoryOf[op[r1]] = StoryOf[op[r2]],
                      OwnsRow(r1), OwnsRow(r2)
               PROVE  r1 = r2
    BY DEF SerializedDispatch
  <2>1. op[r1] \in Ops /\ op[r2] \in Ops
    BY DEF TypeOK, ThreadTypes, EngineSteps
  <2>2. ASSUME NEW r \in {r1, r2} PROVE obj[StoryOf[op[r]]].op = op[r]
    <3>1. InOwnersHands(op[r])
      BY DEF InOwnersHands, OwnsRow, HasClaimed
    <3>2. r \in Holders(op[r])
      BY DEF Holders
    <3> QED
      BY <2>1, <3>1, <3>2 DEF LedgerInv, StoryClaimHeld
  <2>3. op[r1] = op[r2]
    BY <2>2
  <2> QED
    BY <2>3 DEF OwnsRow
<1> QED
  BY <1>1, TypeCorrect, LedgerInvariant, PTL

------------------------------------------------------------------------------
(* What start and resume alone guarantee: the op_id claim makes them          *)
(* idempotent and fences a late executor.                                    *)

(* How the ledger row of an operation can change in one step, if clients only *)
(* start and resume phases.                                                  *)
RowStep(o) ==
  \/ row'[o] = row[o] /\ applied'[o] = applied[o]
  \/ /\ row[o].status \in {"none", "claimed"}
     /\ row'[o].status \in Statuses \ {"committed", "resolved"}
     /\ applied'[o] = applied[o]
  \/ /\ row[o].status = "claimed" /\ row'[o].status = "committed"
     /\ applied'[o] = applied[o] + 1
  \/ /\ row[o].status = "repair" /\ row'[o].status = "resolved"
     /\ applied'[o] = applied[o]

(* Every step of the protocol changes a ledger row in one of these ways. *)
LEMMA RowSteps ==
  ASSUME Kinds \subseteq ClaimingKinds, TypeOK, TypeOK', LedgerInv, [Next]_vars
  PROVE  \A x \in Ops : RowStep(x)
<1> USE LedgerAssumption DEF TypeOK, LedgerInv, dbVars, reqVars, sysVars, history, Goto, Answer,
       Live, EarlySteps, EngineSteps, ExitSteps,
       KindsOfSteps, ThreadTypes, TableTypes, AdminTypes, ProcessTypes, RowType,
       RowStep, Statuses, OwnsRow, NoRow
<1>1. ASSUME NEW r \in Requests, NEW o \in Ops, NEW k \in Kinds, Receive(r, o, k)
      PROVE  \A x \in Ops : RowStep(x)
  BY <1>1 DEF Receive, Finish
<1>2. ASSUME NEW r \in Requests, RefuseEarly(r) PROVE \A x \in Ops : RowStep(x)
  BY <1>2 DEF RefuseEarly, Finish
<1>3. ASSUME NEW r \in Requests, PassRepairLock(r) PROVE \A x \in Ops : RowStep(x)
  BY <1>3 DEF PassRepairLock, AfterLock
<1>4. ASSUME NEW r \in Requests, AcquireClaim(r) PROVE \A x \in Ops : RowStep(x)
  BY <1>4 DEF AcquireClaim, Finish
<1>5. ASSUME NEW r \in Requests, Reload(r) PROVE \A x \in Ops : RowStep(x)
  BY <1>5 DEF Reload, Finish
<1>6. ASSUME NEW r \in Requests, AcquireObjectClaim(r) PROVE \A x \in Ops : RowStep(x)
  BY <1>6 DEF AcquireObjectClaim, Finish
<1>7. ASSUME NEW r \in Requests, EngineWrite(r) PROVE \A x \in Ops : RowStep(x)
  BY <1>7 DEF EngineWrite
<1>8. ASSUME NEW r \in Requests, DispatchRejected(r) PROVE \A x \in Ops : RowStep(x)
  BY <1>8 DEF DispatchRejected
<1>9. ASSUME NEW r \in Requests, DispatchReturned(r) PROVE \A x \in Ops : RowStep(x)
  BY <1>9 DEF DispatchReturned
<1>10. ASSUME NEW r \in Requests, Raise(r) PROVE \A x \in Ops : RowStep(x)
  BY <1>10 DEF Raise
<1>11. ASSUME NEW r \in Requests, Finalize(r) PROVE \A x \in Ops : RowStep(x)
  BY <1>11, EndClaimEffect, RunningThread DEF Finalize
<1>12. ASSUME NEW r \in Requests, FinalizeFrozen(r) PROVE \A x \in Ops : RowStep(x)
  BY <1>12 DEF FinalizeFrozen
<1>13. ASSUME NEW r \in Requests, TerminalizeFrozen(r) PROVE \A x \in Ops : RowStep(x)
  BY <1>13, EndClaimEffect, RunningThread DEF TerminalizeFrozen
<1>14. ASSUME NEW r \in Requests, CommitWithSideEffects(r) PROVE \A x \in Ops : RowStep(x)
  BY <1>14, RunningThread DEF CommitWithSideEffects
<1>15. ASSUME NEW r \in Requests, CommitRefused(r) PROVE \A x \in Ops : RowStep(x)
  BY <1>15 DEF CommitRefused
<1>16. ASSUME NEW r \in Requests, ReleaseMyClaim(r) PROVE \A x \in Ops : RowStep(x)
  BY <1>16 DEF ReleaseMyClaim, ReleaseRow
<1>17. ASSUME NEW r \in Requests, ReleaseMyClaimBestEffort(r) PROVE \A x \in Ops : RowStep(x)
  BY <1>17 DEF ReleaseMyClaimBestEffort, ReleaseRow
<1>18. ASSUME NEW r \in Requests, ReleaseObjectClaim(r) PROVE \A x \in Ops : RowStep(x)
  BY <1>18 DEF ReleaseObjectClaim, ReleaseObject
<1>19. ASSUME NEW r \in Requests, ReleaseFails(r) PROVE \A x \in Ops : RowStep(x)
  BY <1>19 DEF ReleaseFails
<1>20. ASSUME NEW a \in Admins, NEW o \in Ops, AdminLoad(a, o) PROVE \A x \in Ops : RowStep(x)
  BY <1>20 DEF AdminLoad
<1>21. ASSUME NEW a \in Admins, AdminProbe(a) PROVE \A x \in Ops : RowStep(x)
  BY <1>21 DEF AdminProbe
<1>22. ASSUME NEW a \in Admins, AdminAbort(a) PROVE \A x \in Ops : RowStep(x)
  <2>1. CASE row[adm[a].op].status = "claimed"
    <3>1. adm[a].op \in Ops /\ adm[a].verdict \in {"aborted", "repair"}
      BY <1>22, RunningAdmin DEF AdminAbort
    <3>2. /\ row'[adm[a].op].status = adm[a].verdict
          /\ \A x \in Ops : x # adm[a].op => row'[x] = row[x]
      BY <1>22, <2>1, <3>1, EndClaimEffect DEF AdminAbort
    <3> QED
      BY <1>22, <2>1, <3>1, <3>2 DEF AdminAbort
  <2> QED
    BY <1>22, <2>1 DEF AdminAbort
<1>23. ASSUME NEW a \in Admins, AdminRelease(a) PROVE \A x \in Ops : RowStep(x)
  BY <1>23 DEF AdminRelease, ReleaseObject
<1>24. ASSUME NEW a \in Admins, AdminResolve(a) PROVE \A x \in Ops : RowStep(x)
  BY <1>24 DEF AdminResolve
<1>25. CASE Crash
  BY <1>25 DEF Crash
<1>26. CASE Boot
  BY <1>26 DEF Boot
<1>27. CASE Serve
  BY <1>27 DEF Serve
<1>28. ASSUME NEW o \in Ops, ReconcileOperation(o) PROVE \A x \in Ops : RowStep(x)
  BY <1>28, EndClaimEffect DEF ReconcileOperation, OrphanedOps
<1>29. ASSUME NEW s \in Stories, ReconcileClaim(s) PROVE \A x \in Ops : RowStep(x)
  BY <1>29 DEF ReconcileClaim, OrphanedClaims
<1>30. CASE UNCHANGED vars
  BY <1>30 DEF vars
<1> QED
  BY <1>1, <1>2, <1>3, <1>4, <1>5, <1>6, <1>7, <1>8, <1>9, <1>10, <1>11,
     <1>12, <1>13, <1>14, <1>15, <1>16, <1>17, <1>18, <1>19, <1>20, <1>21,
     <1>22, <1>23, <1>24, <1>25, <1>26, <1>27, <1>28, <1>29, <1>30
     DEF Next, RequestStep, AdminStep, Recovery

(* Idempotent op replay for start_phase and resume_phase: the side effects of *)
(* an op_id are committed at most once, however often it is delivered.       *)
THEOREM StartsApplyOnce ==
  ASSUME Kinds \subseteq ClaimingKinds
  PROVE  Spec => []AppliedAtMostOnce
<1> DEFINE Once == \A o \in Ops : applied[o] = IF row[o].status = "committed" THEN 1 ELSE 0
<1>1. Init => Once
  BY DEF Init, NoRow
<1>2. TypeOK /\ TypeOK' /\ LedgerInv /\ Once /\ [Next]_vars => Once'
  BY RowSteps DEF RowStep
<1>3. Once => AppliedAtMostOnce
  BY DEF AppliedAtMostOnce
<1> QED
  BY <1>1, <1>2, <1>3, TypeCorrect, LedgerInvariant, PTL DEF Spec

(* The epoch fence for start_phase and resume_phase: an operation that was    *)
(* aborted, failed or put in repair is never committed by a late executor.   *)
THEOREM LateExecutorIsFenced ==
  ASSUME Kinds \subseteq ClaimingKinds
  PROVE  Spec => AbandonedNeverCommits
<1>1. TypeOK /\ TypeOK' /\ LedgerInv /\ [Next]_vars =>
        [\A o \in Ops : row[o].status \in NonCommittedTerminal =>
            row'[o].status \in NonCommittedTerminal \cup {"resolved"}]_vars
  BY RowSteps DEF RowStep, NonCommittedTerminal
<1> QED
  BY <1>1, TypeCorrect, LedgerInvariant, PTL DEF Spec, AbandonedNeverCommits
==============================================================================
