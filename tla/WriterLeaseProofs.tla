------------------------- MODULE WriterLeaseProofs -------------------------
(***************************************************************************)
(* Proofs about WriterLease, for any number of processes, requests,        *)
(* op_ids, boots and faults.                                               *)
(***************************************************************************)
EXTENDS WriterLease, TLAPS

-----------------------------------------------------------------------------
(* The inductive invariant.                                                *)

\* An open reserved session and the advisory lock are the same thing.
SessionHoldsLock == \A p \in Processes : session[p] = "open" <=> lock = p

\* Only the holder counts boots up, so what it bound stays the latest one.
IdentityIsLatest ==
    \A p \in Processes : lock = p =>
        IF main[p] = "boot" THEN incarnation < MaxBoots ELSE identity[p] = incarnation

\* A request that may still write keeps its process from leaving "join".
OpenRequestsAreServed ==
    \A r \in Requests :
        /\ pc[r] = "idle" <=> on[r] = None
        /\ on[r] # None => op[r] \in Ops
        /\ pc[r] \notin {"idle", "done", "dead"} => main[on[r]] \in {"serving", "join"}
        /\ pc[r] = "finalize" => KindOf[op[r]] = "plain"

\* A worker outlives the drain only when a loss was recorded, and then it has
\* been told to stop.
WorkersAreKept ==
    \A o \in Ops : worker[o] # None =>
        LET p == on[worker[o]] IN
        /\ KindOf[o] = "selftest" /\ p # None
        /\ main[p] \in {"serving", "join", "drain", "release", "exit"}
        /\ main[p] \in {"release", "exit"} => loss[p] /\ stopping[p]

\* What a step needs to know of lock, sessions, requests and workers to keep
\* every statement on the session that has the lock.
LeaseShape ==
    /\ TypeOK
    /\ SessionHoldsLock /\ IdentityIsLatest
    /\ OpenRequestsAreServed /\ WorkersAreKept

\* A row of control_plane_operations.
RowShape == [status : {"none", "claimed", "committed", "failed", "aborted"},
             by : Requests \cup {None}, inc : 0 .. MaxBoots]

(* Releasing, finalizing and failing a claim leave a row of the same shape.  *)
LEMMA RowStays ==
  ASSUME row \in [Ops -> RowShape], NEW o \in Ops,
         \/ row' = row
         \/ row' = [row EXCEPT ![o] = NoRow]
         \/ \E st \in {"committed", "failed", "aborted"} :
               row' = [row EXCEPT ![o] = [@ EXCEPT !.status = st, !.by = None]]
  PROVE  row' \in [Ops -> RowShape]
<1>1. NoRow \in RowShape
  BY WriterLeaseAssumption DEF RowShape, NoRow
<1>2. \A st \in {"committed", "failed", "aborted"} :
        [row[o] EXCEPT !.status = st, !.by = None] \in RowShape
  <2>1. PICK x \in RowShape : x = row[o]
    OBVIOUS
  <2>2. \A st \in {"committed", "failed", "aborted"} :
          [x EXCEPT !.status = st, !.by = None] \in RowShape
    BY DEF RowShape
  <2> QED
    BY <2>1, <2>2
<1>3. \A x \in RowShape : [row EXCEPT ![o] = x] \in [Ops -> RowShape]
  OBVIOUS
<1> QED
  BY <1>1, <1>2, <1>3

(* Recording a loss or stopping a worker keeps the flags Boolean.            *)
LEMMA FlagsStay ==
  ASSUME NEW f \in [Processes -> BOOLEAN], NEW p \in Processes, NEW b \in BOOLEAN
  PROVE  [f EXCEPT ![p] = b] \in [Processes -> BOOLEAN]
OBVIOUS

(* Lock and session go together, only the holder moves the incarnation, and the
   join of the handler threads and the drain of the workers keep both kinds of
   thread within the registered lease, or stopped.                           *)
LEMMA LeaseShapeHolds == Spec => []LeaseShape
<1>1. Init => LeaseShape
  BY WriterLeaseAssumption DEF Init, LeaseShape, TypeOK, NoRow, OpKinds, Mains, Steps, Registered,
     SessionHoldsLock, IdentityIsLatest, OpenRequestsAreServed, WorkersAreKept
<1>2. LeaseShape /\ [Next]_vars => LeaseShape'
  <2> SUFFICES ASSUME LeaseShape, [Next]_vars PROVE LeaseShape'
    OBVIOUS
  <2> USE WriterLeaseAssumption
      DEF LeaseShape, TypeOK, SessionHoldsLock, IdentityIsLatest, OpenRequestsAreServed, WorkersAreKept,
          OpKinds, Mains, Steps, Registered, Usable, Writes, Goto, To, Fault, Calm, dbVars, procVars, reqVars,
          NoRow, Commit, Owns, Workers, OpenRequests, RecordLoss, AbortWriterWork, Forget, Orphans, Quiesced, LockIsFree
  <2>1. ASSUME NEW p \in Processes, SessionDies(p) PROVE LeaseShape'
    BY <2>1 DEF SessionDies
  <2>2. ASSUME NEW p \in Processes, Crash(p) PROVE LeaseShape'
    BY <2>2 DEF Crash
  <2>3. ASSUME NEW p \in Processes, Acquire(p) PROVE LeaseShape'
    BY <2>3 DEF Acquire
  <2>4. ASSUME NEW p \in Processes, Boot(p) PROVE LeaseShape'
    BY <2>4 DEF Boot
  <2>5. ASSUME NEW p \in Processes, Serve(p) PROVE LeaseShape'
    BY <2>5 DEF Serve
  <2>6. ASSUME NEW p \in Processes, StartupFails(p) PROVE LeaseShape'
    BY <2>6 DEF StartupFails
  <2>7. ASSUME NEW p \in Processes, Quiesce(p) PROVE LeaseShape'
    BY <2>7 DEF Quiesce
  <2>8. ASSUME NEW p \in Processes, Drain(p) PROVE LeaseShape'
    <3>1. TypeOK'
      <4>1. stopping \in [Processes -> BOOLEAN]
        OBVIOUS
      <4>2. stopping' = stopping \/ stopping' = [stopping EXCEPT ![p] = TRUE]
        BY <2>8, Zenon DEF Drain
      <4>3. stopping' \in [Processes -> BOOLEAN]
        <5> HIDE DEF LeaseShape
        <5> QED
          BY <4>1, <4>2, FlagsStay, Zenon
      <4>4. main' = [main EXCEPT ![p] = "release"] /\ main[p] = "drain"
        BY <2>8 DEF Drain
      <4>5. UNCHANGED <<dbVars, identity, session, loss, worker, reqVars, faults>>
        BY <2>8 DEF Drain
      <4> QED
        BY <4>3, <4>4, <4>5
    <3>2. (SessionHoldsLock /\ IdentityIsLatest)'
      BY <2>8 DEF Drain
    <3>3. OpenRequestsAreServed'
      BY <2>8 DEF Drain
    <3>4. WorkersAreKept'
      <4>1. CASE loss[p]
        BY <2>8, <4>1 DEF Drain
      <4>2. CASE ~loss[p]
        BY <2>8, <4>2 DEF Drain
      <4> QED
        BY <4>1, <4>2
    <3> QED
      BY <3>1, <3>2, <3>3, <3>4
  <2>9. ASSUME NEW p \in Processes, Release(p) PROVE LeaseShape'
    BY <2>9 DEF Release
  <2>10. ASSUME NEW p \in Processes, Exit(p) PROVE LeaseShape'
    BY <2>10 DEF Exit
  <2>11. ASSUME NEW p \in Processes, NEW o \in Ops, Reconcile(p, o) PROVE LeaseShape'
    <3>1. row' \in [Ops -> RowShape]
      <4>1. row \in [Ops -> RowShape]
        BY DEF RowShape
      <4>2. \/ row' = [row EXCEPT ![o] = NoRow]
            \/ row' = [row EXCEPT ![o] = [@ EXCEPT !.status = "failed", !.by = None]]
        BY <2>11 DEF Reconcile
      <4> QED
        BY <4>1, <4>2, RowStays
    <3>2. stray' \subseteq Processes
      BY <2>11 DEF Reconcile
    <3>3. UNCHANGED <<lock, incarnation, applied, procVars, reqVars, faults>>
      BY <2>11 DEF Reconcile
    <3> QED
      BY <3>1, <3>2, <3>3 DEF RowShape
  <2>12. ASSUME NEW p \in Processes, Monitor(p) PROVE LeaseShape'
    BY <2>12 DEF Monitor
  <2>13. ASSUME NEW p \in Processes, Stop(p) PROVE LeaseShape'
    BY <2>13 DEF Stop
  <2>14. ASSUME NEW p \in Processes, NEW o \in Ops, AdminAbort(p, o) PROVE LeaseShape'
    <3>1. row' \in [Ops -> RowShape]
      <4>1. row \in [Ops -> RowShape]
        BY DEF RowShape
      <4>2. row' = [row EXCEPT ![o] = [@ EXCEPT !.status = "aborted", !.by = None]]
        BY <2>14 DEF AdminAbort
      <4> QED
        BY <4>1, <4>2, RowStays
    <3>2. stray' \subseteq Processes
      BY <2>14 DEF AdminAbort
    <3>3. UNCHANGED <<lock, incarnation, applied, procVars, reqVars, faults>>
      BY <2>14 DEF AdminAbort
    <3> QED
      BY <3>1, <3>2, <3>3 DEF RowShape
  <2>15. ASSUME NEW r \in Requests, NEW p \in Processes, NEW o \in Ops, Accept(r, p, o) PROVE LeaseShape'
    BY <2>15 DEF Accept
  <2>16. ASSUME NEW r \in Requests, AssertHeld(r) PROVE LeaseShape'
    <3>1. on[r] \in Processes
      BY <2>16 DEF AssertHeld
    <3>2. TypeOK'
      <4>1. loss \in [Processes -> BOOLEAN] /\ stopping \in [Processes -> BOOLEAN]
        OBVIOUS
      <4>2. \/ loss' = loss /\ stopping' = stopping
            \/ /\ loss' = [loss EXCEPT ![on[r]] = TRUE]
               /\ stopping' = [stopping EXCEPT ![on[r]] = TRUE]
        BY <2>16, Zenon DEF AssertHeld
      <4>3. loss' \in [Processes -> BOOLEAN] /\ stopping' \in [Processes -> BOOLEAN]
        <5> HIDE DEF LeaseShape
        <5> QED
          BY <3>1, <4>1, <4>2, FlagsStay, Zenon
      <4> QED
        BY <2>16, <3>1, <4>3 DEF AssertHeld
    <3>3. (SessionHoldsLock /\ IdentityIsLatest)'
      BY <2>16 DEF AssertHeld
    <3>4. OpenRequestsAreServed'
      BY <2>16, <3>1 DEF AssertHeld
    <3>5. WorkersAreKept'
      BY <2>16, <3>1 DEF AssertHeld
    <3> QED
      BY <3>2, <3>3, <3>4, <3>5
  <2>17. ASSUME NEW r \in Requests, SessionLost(r) PROVE LeaseShape'
    BY <2>17 DEF SessionLost
  <2>18. ASSUME NEW r \in Requests, Claim(r) PROVE LeaseShape'
    <3>1. on[r] \in Processes /\ op[r] \in Ops /\ main[on[r]] \in {"serving", "join"} /\ identity[on[r]] \in 0 .. MaxBoots
      BY <2>18 DEF Claim
    <3>2. row' \in [Ops -> RowShape]
      BY SMTT(20), <2>18, <3>1 DEF Claim, RowShape
    <3>3. stray' \subseteq Processes
      BY <2>18, <3>1 DEF Claim
    <3>4. UNCHANGED <<lock, incarnation, applied, main, identity, session, loss, stopping, on, op, faults>>
      BY <2>18 DEF Claim
    <3>5. /\ pc' \in [Requests -> Steps]
          /\ \A q \in Requests : pc'[q] = pc[q] \/ (q = r /\ pc[q] = "claim" /\ pc'[q] \in {"leave", "mutate"})
      <4>0. pc \in [Requests -> Steps]
        OBVIOUS
      <4> HIDE DEF LeaseShape, TypeOK, SessionHoldsLock, IdentityIsLatest, OpenRequestsAreServed, WorkersAreKept
      <4>1. pc[r] = "claim"
        BY <2>18 DEF Claim
      <4>2. CASE pc' = [pc EXCEPT ![r] = "leave"]
        BY <4>0, <4>1, <4>2
      <4>3. CASE pc' = [pc EXCEPT ![r] = "mutate"]
        BY <4>0, <4>1, <4>3
      <4> QED
        BY <2>18, <4>2, <4>3 DEF Claim
    <3>6. /\ worker' \in [Ops -> Requests \cup {None}]
          /\ \A o \in Ops : worker'[o] = worker[o] \/ (KindOf[o] = "selftest" /\ worker'[o] = r)
      <4>0. worker \in [Ops -> Requests \cup {None}]
        OBVIOUS
      <4> HIDE DEF LeaseShape, TypeOK, SessionHoldsLock, IdentityIsLatest, OpenRequestsAreServed, WorkersAreKept
      <4>1. CASE worker' = worker
        BY <4>0, <4>1
      <4>2. CASE KindOf[op[r]] = "selftest" /\ worker' = [worker EXCEPT ![op[r]] = r]
        BY <3>1, <4>0, <4>2
      <4> QED
        BY <2>18, <4>1, <4>2 DEF Claim
    <3>7. TypeOK'
      BY <3>2, <3>3, <3>4, <3>5, <3>6 DEF RowShape
    <3>8. (SessionHoldsLock /\ IdentityIsLatest)'
      BY <3>4
    <3>9. OpenRequestsAreServed'
      BY <3>4, <3>5
    <3>10. WorkersAreKept'
      BY <3>1, <3>4, <3>6
    <3> QED
      BY <3>7, <3>8, <3>9, <3>10
  <2>19. ASSUME NEW r \in Requests, MutateAtomic(r) PROVE LeaseShape'
    <3>1. on[r] \in Processes /\ op[r] \in Ops
      BY <2>19 DEF MutateAtomic
    <3>2. row' \in [Ops -> RowShape]
      <4>1. row \in [Ops -> RowShape]
        BY DEF RowShape
      <4>2. \/ row' = row
            \/ row' = [row EXCEPT ![op[r]] = [@ EXCEPT !.status = "committed", !.by = None]]
        BY <2>19 DEF MutateAtomic
      <4> QED
        BY <3>1, <4>1, <4>2, RowStays
    <3>3. stray' \subseteq Processes /\ applied' \in [Ops -> Nat]
      BY <2>19, <3>1 DEF MutateAtomic
    <3>4. UNCHANGED <<lock, incarnation, procVars, on, op, faults>> /\ pc' = [pc EXCEPT ![r] = "leave"]
      BY <2>19 DEF MutateAtomic
    <3>5. pc[r] = "mutate"
      BY <2>19 DEF MutateAtomic
    <3> QED
      BY <3>1, <3>2, <3>3, <3>4, <3>5 DEF RowShape
  <2>20. ASSUME NEW r \in Requests, MutatePlain(r) PROVE LeaseShape'
    BY <2>20 DEF MutatePlain
  <2>21. ASSUME NEW r \in Requests, Finalize(r) PROVE LeaseShape'
    <3>1. on[r] \in Processes /\ op[r] \in Ops
      BY <2>21 DEF Finalize
    <3>2. row' \in [Ops -> RowShape]
      <4>1. row \in [Ops -> RowShape]
        BY DEF RowShape
      <4>2. \/ row' = row
            \/ row' = [row EXCEPT ![op[r]] = [@ EXCEPT !.status = "committed", !.by = None]]
        BY <2>21 DEF Finalize
      <4> QED
        BY <3>1, <4>1, <4>2, RowStays
    <3>3. stray' \subseteq Processes /\ applied' \in [Ops -> Nat]
      BY <2>21, <3>1 DEF Finalize
    <3>4. UNCHANGED <<lock, incarnation, procVars, on, op, faults>> /\ pc' = [pc EXCEPT ![r] = "leave"]
      BY <2>21 DEF Finalize
    <3>5. pc[r] = "finalize"
      BY <2>21 DEF Finalize
    <3> QED
      BY <3>1, <3>2, <3>3, <3>4, <3>5 DEF RowShape
  <2>22. ASSUME NEW r \in Requests, ReleaseClaim(r) PROVE LeaseShape'
    BY <2>22 DEF ReleaseClaim
  <2>23. ASSUME NEW r \in Requests, MutateRaises(r) PROVE LeaseShape'
    BY <2>23 DEF MutateRaises
  <2>24. ASSUME NEW r \in Requests, FinalizeRaises(r) PROVE LeaseShape'
    BY <2>24 DEF FinalizeRaises
  <2>25. ASSUME NEW o \in Ops, CompleteSelfTest(o) PROVE LeaseShape'
    <3>1. worker[o] \in Requests /\ on[worker[o]] \in Processes
      BY <2>25 DEF CompleteSelfTest
    <3>2. row' \in [Ops -> RowShape]
      <4>1. row \in [Ops -> RowShape]
        BY DEF RowShape
      <4>2. \/ row' = row
            \/ row' = [row EXCEPT ![o] = [@ EXCEPT !.status = "committed", !.by = None]]
        BY <2>25 DEF CompleteSelfTest
      <4> QED
        BY <3>1, <4>1, <4>2, RowStays
    <3>3. stray' \subseteq Processes /\ applied' \in [Ops -> Nat]
      BY <2>25, <3>1 DEF CompleteSelfTest
    <3>4. /\ UNCHANGED <<lock, incarnation, main, identity, session, loss, stopping, reqVars, faults>>
          /\ worker' = [worker EXCEPT ![o] = None]
      BY <2>25 DEF CompleteSelfTest
    <3> QED
      BY <3>1, <3>2, <3>3, <3>4 DEF RowShape
  <2>26. CASE UNCHANGED vars
    BY <2>26 DEF vars
  <2> QED
    BY <2>1, <2>2, <2>3, <2>4, <2>5, <2>6, <2>7, <2>8, <2>9, <2>10, <2>11, <2>12, <2>13, <2>14, <2>15, <2>16, <2>17, <2>18, <2>19, <2>20, <2>21, <2>22, <2>23, <2>24, <2>25, <2>26 DEF Next, MainStep, RequestStep
<1> QED
  BY <1>1, <1>2, PTL DEF Spec

(* Type correctness of the process, its session and the operation rows.      *)
THEOREM TypeCorrect == Spec => []TypeOK
<1>1. LeaseShape => TypeOK
  BY DEF LeaseShape
<1> QED
  BY <1>1, LeaseShapeHolds, PTL

-----------------------------------------------------------------------------
(* Every committed statement is one of the process that holds the advisory
   lock: the lease is registered wherever the program still writes, and then
   the reserved session, which has the lock, is the only one it writes on.   *)
THEOREM FencedWrites == Spec => []NoStrayWrite
<1>1. Init => NoStrayWrite
  BY DEF Init, NoStrayWrite
<1>2. LeaseShape /\ NoStrayWrite /\ [Next]_vars => NoStrayWrite'
  <2> SUFFICES ASSUME LeaseShape, NoStrayWrite, [Next]_vars PROVE NoStrayWrite'
    OBVIOUS
  <2> USE WriterLeaseAssumption
      DEF LeaseShape, TypeOK, SessionHoldsLock, OpenRequestsAreServed, WorkersAreKept,
          Registered, Usable, Writes, dbVars, procVars, reqVars, NoStrayWrite
  <2>1. ASSUME NEW p \in Processes, SessionDies(p) PROVE NoStrayWrite'
    BY <2>1 DEF SessionDies
  <2>2. ASSUME NEW p \in Processes, Crash(p) PROVE NoStrayWrite'
    BY <2>2 DEF Crash
  <2>3. ASSUME NEW p \in Processes, Acquire(p) PROVE NoStrayWrite'
    BY <2>3 DEF Acquire
  <2>4. ASSUME NEW p \in Processes, Boot(p) PROVE NoStrayWrite'
    BY <2>4 DEF Boot
  <2>5. ASSUME NEW p \in Processes, Serve(p) PROVE NoStrayWrite'
    BY <2>5 DEF Serve
  <2>6. ASSUME NEW p \in Processes, StartupFails(p) PROVE NoStrayWrite'
    BY <2>6 DEF StartupFails
  <2>7. ASSUME NEW p \in Processes, Quiesce(p) PROVE NoStrayWrite'
    BY <2>7 DEF Quiesce
  <2>8. ASSUME NEW p \in Processes, Drain(p) PROVE NoStrayWrite'
    BY <2>8 DEF Drain
  <2>9. ASSUME NEW p \in Processes, Release(p) PROVE NoStrayWrite'
    BY <2>9 DEF Release
  <2>10. ASSUME NEW p \in Processes, Exit(p) PROVE NoStrayWrite'
    BY <2>10 DEF Exit
  <2>11. ASSUME NEW p \in Processes, NEW o \in Ops, Reconcile(p, o) PROVE NoStrayWrite'
    BY <2>11 DEF Reconcile
  <2>12. ASSUME NEW p \in Processes, Monitor(p) PROVE NoStrayWrite'
    BY <2>12 DEF Monitor
  <2>13. ASSUME NEW p \in Processes, Stop(p) PROVE NoStrayWrite'
    BY <2>13 DEF Stop
  <2>14. ASSUME NEW p \in Processes, NEW o \in Ops, AdminAbort(p, o) PROVE NoStrayWrite'
    BY <2>14 DEF AdminAbort
  <2>15. ASSUME NEW r \in Requests, NEW p \in Processes, NEW o \in Ops, Accept(r, p, o) PROVE NoStrayWrite'
    BY <2>15 DEF Accept
  <2>16. ASSUME NEW r \in Requests, AssertHeld(r) PROVE NoStrayWrite'
    BY <2>16 DEF AssertHeld
  <2>17. ASSUME NEW r \in Requests, SessionLost(r) PROVE NoStrayWrite'
    BY <2>17 DEF SessionLost
  <2>18. ASSUME NEW r \in Requests, Claim(r) PROVE NoStrayWrite'
    BY <2>18 DEF Claim
  <2>19. ASSUME NEW r \in Requests, MutateAtomic(r) PROVE NoStrayWrite'
    BY <2>19 DEF MutateAtomic
  <2>20. ASSUME NEW r \in Requests, MutatePlain(r) PROVE NoStrayWrite'
    BY <2>20 DEF MutatePlain
  <2>21. ASSUME NEW r \in Requests, Finalize(r) PROVE NoStrayWrite'
    BY <2>21 DEF Finalize
  <2>22. ASSUME NEW r \in Requests, ReleaseClaim(r) PROVE NoStrayWrite'
    BY <2>22 DEF ReleaseClaim
  <2>23. ASSUME NEW r \in Requests, MutateRaises(r) PROVE NoStrayWrite'
    BY <2>23 DEF MutateRaises
  <2>24. ASSUME NEW r \in Requests, FinalizeRaises(r) PROVE NoStrayWrite'
    BY <2>24 DEF FinalizeRaises
  <2>25. ASSUME NEW o \in Ops, CompleteSelfTest(o) PROVE NoStrayWrite'
    BY <2>25 DEF CompleteSelfTest
  <2>26. CASE UNCHANGED vars
    BY <2>26 DEF vars
  <2> QED
    BY <2>1, <2>2, <2>3, <2>4, <2>5, <2>6, <2>7, <2>8, <2>9, <2>10, <2>11, <2>12, <2>13, <2>14, <2>15, <2>16, <2>17, <2>18, <2>19, <2>20, <2>21, <2>22, <2>23, <2>24, <2>25, <2>26 DEF Next, MainStep, RequestStep
<1> QED
  BY <1>1, <1>2, LeaseShapeHolds, PTL DEF Spec

(* Effect and finalized row of an atomic operation appear together and are
   never separated: what is released, aborted or reconciled was only claimed. *)
THEOREM AtomicEffects == Spec => []AtomicTogether
<1>1. Init => AtomicTogether
  BY DEF Init, AtomicTogether, NoRow
<1>2. LeaseShape /\ AtomicTogether /\ [Next]_vars => AtomicTogether'
  <2> SUFFICES ASSUME LeaseShape, AtomicTogether, [Next]_vars PROVE AtomicTogether'
    OBVIOUS
  <2> USE WriterLeaseAssumption
      DEF LeaseShape, TypeOK, OpenRequestsAreServed, WorkersAreKept,
          dbVars, procVars, reqVars, NoRow, Commit, Owns, Orphans, AtomicTogether
  <2>1. ASSUME NEW p \in Processes, SessionDies(p) PROVE AtomicTogether'
    BY <2>1 DEF SessionDies
  <2>2. ASSUME NEW p \in Processes, Crash(p) PROVE AtomicTogether'
    BY <2>2 DEF Crash
  <2>3. ASSUME NEW p \in Processes, Acquire(p) PROVE AtomicTogether'
    BY <2>3 DEF Acquire
  <2>4. ASSUME NEW p \in Processes, Boot(p) PROVE AtomicTogether'
    BY <2>4 DEF Boot
  <2>5. ASSUME NEW p \in Processes, Serve(p) PROVE AtomicTogether'
    BY <2>5 DEF Serve
  <2>6. ASSUME NEW p \in Processes, StartupFails(p) PROVE AtomicTogether'
    BY <2>6 DEF StartupFails
  <2>7. ASSUME NEW p \in Processes, Quiesce(p) PROVE AtomicTogether'
    BY <2>7 DEF Quiesce
  <2>8. ASSUME NEW p \in Processes, Drain(p) PROVE AtomicTogether'
    BY <2>8 DEF Drain
  <2>9. ASSUME NEW p \in Processes, Release(p) PROVE AtomicTogether'
    BY <2>9 DEF Release
  <2>10. ASSUME NEW p \in Processes, Exit(p) PROVE AtomicTogether'
    BY <2>10 DEF Exit
  <2>11. ASSUME NEW p \in Processes, NEW o \in Ops, Reconcile(p, o) PROVE AtomicTogether'
    BY <2>11 DEF Reconcile
  <2>12. ASSUME NEW p \in Processes, Monitor(p) PROVE AtomicTogether'
    BY <2>12 DEF Monitor
  <2>13. ASSUME NEW p \in Processes, Stop(p) PROVE AtomicTogether'
    BY <2>13 DEF Stop
  <2>14. ASSUME NEW p \in Processes, NEW o \in Ops, AdminAbort(p, o) PROVE AtomicTogether'
    BY <2>14 DEF AdminAbort
  <2>15. ASSUME NEW r \in Requests, NEW p \in Processes, NEW o \in Ops, Accept(r, p, o) PROVE AtomicTogether'
    BY <2>15 DEF Accept
  <2>16. ASSUME NEW r \in Requests, AssertHeld(r) PROVE AtomicTogether'
    BY <2>16 DEF AssertHeld
  <2>17. ASSUME NEW r \in Requests, SessionLost(r) PROVE AtomicTogether'
    BY <2>17 DEF SessionLost
  <2>18. ASSUME NEW r \in Requests, Claim(r) PROVE AtomicTogether'
    <3>1. op[r] \in Ops
      BY <2>18 DEF Claim
    <3>2. applied' = applied
      BY <2>18 DEF Claim
    <3>3. \A x \in Ops : \/ row'[x] = row[x]
                         \/ row[x].status = "none" /\ row'[x].status = "claimed"
      BY <2>18, <3>1 DEF Claim
    <3> QED
      BY <3>2, <3>3
  <2>19. ASSUME NEW r \in Requests, MutateAtomic(r) PROVE AtomicTogether'
    <3>1. op[r] \in Ops
      BY <2>19 DEF MutateAtomic
    <3>2. CASE UNCHANGED <<row, applied>>
      BY <3>2
    <3>3. CASE /\ row[op[r]].status = "claimed"
               /\ row' = [row EXCEPT ![op[r]] = [@ EXCEPT !.status = "committed", !.by = None]]
               /\ applied' = [applied EXCEPT ![op[r]] = @ + 1]
      <4>1. row'[op[r]].status = "committed" /\ (KindOf[op[r]] = "atomic" => applied'[op[r]] = 1)
        BY <3>1, <3>3
      <4>2. \A x \in Ops : x # op[r] => row'[x] = row[x] /\ applied'[x] = applied[x]
        BY <3>1, <3>3
      <4> QED
        BY <4>1, <4>2
    <3> QED
      BY <2>19, <3>2, <3>3 DEF MutateAtomic
  <2>20. ASSUME NEW r \in Requests, MutatePlain(r) PROVE AtomicTogether'
    BY <2>20 DEF MutatePlain
  <2>21. ASSUME NEW r \in Requests, Finalize(r) PROVE AtomicTogether'
    BY <2>21 DEF Finalize
  <2>22. ASSUME NEW r \in Requests, ReleaseClaim(r) PROVE AtomicTogether'
    BY <2>22 DEF ReleaseClaim
  <2>23. ASSUME NEW r \in Requests, MutateRaises(r) PROVE AtomicTogether'
    BY <2>23 DEF MutateRaises
  <2>24. ASSUME NEW r \in Requests, FinalizeRaises(r) PROVE AtomicTogether'
    BY <2>24 DEF FinalizeRaises
  <2>25. ASSUME NEW o \in Ops, CompleteSelfTest(o) PROVE AtomicTogether'
    BY <2>25 DEF CompleteSelfTest
  <2>26. CASE UNCHANGED vars
    BY <2>26 DEF vars
  <2> QED
    BY <2>1, <2>2, <2>3, <2>4, <2>5, <2>6, <2>7, <2>8, <2>9, <2>10, <2>11, <2>12, <2>13, <2>14, <2>15, <2>16, <2>17, <2>18, <2>19, <2>20, <2>21, <2>22, <2>23, <2>24, <2>25, <2>26 DEF Next, MainStep, RequestStep
<1> QED
  BY <1>1, <1>2, LeaseShapeHolds, PTL DEF Spec

\* No claim is dated after the last boot.
ClaimsAreDated == \A o \in Ops : row[o].inc <= incarnation

BootInv == ServesLatestBoot /\ ClaimsAreDated

(* A process that serves under its lease is the last one that booted, and every
   claim in the table is one of this boot: the startup does not come through
   before the older ones are reconciled, and nobody else can boot meanwhile. *)
THEOREM LatestBoot == Spec => []ServesLatestBoot
<1>1. Init => BootInv
  BY DEF Init, BootInv, ServesLatestBoot, ClaimsAreDated, NoRow
<1>2. LeaseShape /\ BootInv /\ [Next]_vars => BootInv'
  <2> SUFFICES ASSUME LeaseShape, BootInv, [Next]_vars PROVE BootInv'
    OBVIOUS
  <2> USE WriterLeaseAssumption
      DEF LeaseShape, TypeOK, SessionHoldsLock, IdentityIsLatest, OpenRequestsAreServed, WorkersAreKept,
          Registered, Usable, Goto, Forget, dbVars, procVars, reqVars, NoRow, Commit, Owns, Orphans,
          BootInv, ServesLatestBoot, ClaimsAreDated
  <2>1. ASSUME NEW p \in Processes, SessionDies(p) PROVE BootInv'
    BY <2>1 DEF SessionDies
  <2>2. ASSUME NEW p \in Processes, Crash(p) PROVE BootInv'
    BY <2>2 DEF Crash
  <2>3. ASSUME NEW p \in Processes, Acquire(p) PROVE BootInv'
    BY <2>3 DEF Acquire
  <2>4. ASSUME NEW p \in Processes, Boot(p) PROVE BootInv'
    BY <2>4 DEF Boot
  <2>5. ASSUME NEW p \in Processes, Serve(p) PROVE BootInv'
    <3>1. UNCHANGED <<lock, incarnation, row, identity, session>> /\ main' = [main EXCEPT ![p] = "serving"]
      BY <2>5 DEF Serve
    <3>2. session[p] = "open" /\ \A o \in Ops : ~(row[o].status = "claimed" /\ row[o].inc < identity[p])
      BY <2>5 DEF Serve
    <3>3. lock = p /\ identity[p] = incarnation
      BY <2>5, <3>2 DEF Serve
    <3>4. \A o \in Ops : row[o].status = "claimed" => row[o].inc = incarnation
      <4>1. \A o \in Ops : row[o].inc \in Nat /\ row[o].inc <= incarnation
        OBVIOUS
      <4>2. incarnation \in Nat
        OBVIOUS
      <4> HIDE DEF LeaseShape, BootInv
      <4> QED
        BY <3>2, <3>3, <4>1, <4>2
    <3>5. ASSUME NEW q \in Processes, main'[q] = "serving", session'[q] = "open"
          PROVE  identity'[q] = incarnation'
      <4>1. CASE q = p
        BY <3>1, <3>3, <4>1
      <4>2. CASE q # p
        BY <3>1, <3>5, <4>2
      <4> QED
        BY <4>1, <4>2
    <3> QED
      BY <3>1, <3>4, <3>5
  <2>6. ASSUME NEW p \in Processes, StartupFails(p) PROVE BootInv'
    BY <2>6 DEF StartupFails
  <2>7. ASSUME NEW p \in Processes, Quiesce(p) PROVE BootInv'
    BY <2>7 DEF Quiesce
  <2>8. ASSUME NEW p \in Processes, Drain(p) PROVE BootInv'
    BY <2>8 DEF Drain
  <2>9. ASSUME NEW p \in Processes, Release(p) PROVE BootInv'
    BY <2>9 DEF Release
  <2>10. ASSUME NEW p \in Processes, Exit(p) PROVE BootInv'
    BY <2>10 DEF Exit
  <2>11. ASSUME NEW p \in Processes, NEW o \in Ops, Reconcile(p, o) PROVE BootInv'
    BY <2>11 DEF Reconcile
  <2>12. ASSUME NEW p \in Processes, Monitor(p) PROVE BootInv'
    BY <2>12 DEF Monitor
  <2>13. ASSUME NEW p \in Processes, Stop(p) PROVE BootInv'
    BY <2>13 DEF Stop
  <2>14. ASSUME NEW p \in Processes, NEW o \in Ops, AdminAbort(p, o) PROVE BootInv'
    BY <2>14 DEF AdminAbort
  <2>15. ASSUME NEW r \in Requests, NEW p \in Processes, NEW o \in Ops, Accept(r, p, o) PROVE BootInv'
    BY <2>15 DEF Accept
  <2>16. ASSUME NEW r \in Requests, AssertHeld(r) PROVE BootInv'
    BY <2>16 DEF AssertHeld
  <2>17. ASSUME NEW r \in Requests, SessionLost(r) PROVE BootInv'
    BY <2>17 DEF SessionLost
  <2>18. ASSUME NEW r \in Requests, Claim(r) PROVE BootInv'
    BY SMTT(20), <2>18 DEF Claim
  <2>19. ASSUME NEW r \in Requests, MutateAtomic(r) PROVE BootInv'
    <3>1. op[r] \in Ops
      BY <2>19 DEF MutateAtomic
    <3>2. \A x \in Ops : \/ row'[x] = row[x]
                         \/ row'[x].status # "claimed" /\ row'[x].inc <= incarnation
      <4>1. CASE row' = row
        BY <4>1
      <4>2. CASE row' = [row EXCEPT ![op[r]] = [@ EXCEPT !.status = "committed", !.by = None]]
        BY <3>1, <4>2
      <4> QED
        BY <2>19, <4>1, <4>2 DEF MutateAtomic
    <3>3. UNCHANGED <<lock, incarnation, main, identity, session>>
      BY <2>19 DEF MutateAtomic
    <3> QED
      BY <3>2, <3>3
  <2>20. ASSUME NEW r \in Requests, MutatePlain(r) PROVE BootInv'
    BY <2>20 DEF MutatePlain
  <2>21. ASSUME NEW r \in Requests, Finalize(r) PROVE BootInv'
    <3>1. op[r] \in Ops
      BY <2>21 DEF Finalize
    <3>2. \A x \in Ops : \/ row'[x] = row[x]
                         \/ row'[x].status # "claimed" /\ row'[x].inc <= incarnation
      <4>1. CASE row' = row
        BY <4>1
      <4>2. CASE row' = [row EXCEPT ![op[r]] = [@ EXCEPT !.status = "committed", !.by = None]]
        BY <3>1, <4>2
      <4> QED
        BY <2>21, <4>1, <4>2 DEF Finalize
    <3>3. UNCHANGED <<lock, incarnation, main, identity, session>>
      BY <2>21 DEF Finalize
    <3> QED
      BY <3>2, <3>3
  <2>22. ASSUME NEW r \in Requests, ReleaseClaim(r) PROVE BootInv'
    <3>1. op[r] \in Ops
      BY <2>22 DEF ReleaseClaim
    <3>2. \A x \in Ops : \/ row'[x] = row[x]
                         \/ row'[x].status # "claimed" /\ row'[x].inc <= incarnation
      BY <2>22, <3>1 DEF ReleaseClaim
    <3>3. UNCHANGED <<lock, incarnation, main, identity, session>>
      BY <2>22 DEF ReleaseClaim
    <3> QED
      BY <3>2, <3>3
  <2>23. ASSUME NEW r \in Requests, MutateRaises(r) PROVE BootInv'
    BY <2>23 DEF MutateRaises
  <2>24. ASSUME NEW r \in Requests, FinalizeRaises(r) PROVE BootInv'
    BY <2>24 DEF FinalizeRaises
  <2>25. ASSUME NEW o \in Ops, CompleteSelfTest(o) PROVE BootInv'
    <3>1. worker[o] \in Requests
      BY <2>25 DEF CompleteSelfTest
    <3>2. \A x \in Ops : \/ row'[x] = row[x]
                         \/ row'[x].status # "claimed" /\ row'[x].inc <= incarnation
      <4>1. CASE row' = row
        BY <4>1
      <4>2. CASE row' = [row EXCEPT ![o] = [@ EXCEPT !.status = "committed", !.by = None]]
        BY <3>1, <4>2
      <4> QED
        BY <2>25, <4>1, <4>2 DEF CompleteSelfTest
    <3>3. UNCHANGED <<lock, incarnation, main, identity, session>>
      BY <2>25 DEF CompleteSelfTest
    <3> QED
      BY <3>2, <3>3
  <2>26. CASE UNCHANGED vars
    BY <2>26 DEF vars
  <2> QED
    BY <2>1, <2>2, <2>3, <2>4, <2>5, <2>6, <2>7, <2>8, <2>9, <2>10, <2>11, <2>12, <2>13, <2>14, <2>15, <2>16, <2>17, <2>18, <2>19, <2>20, <2>21, <2>22, <2>23, <2>24, <2>25, <2>26 DEF Next, MainStep, RequestStep
<1>3. BootInv => ServesLatestBoot
  BY DEF BootInv
<1> QED
  BY <1>1, <1>2, <1>3, LeaseShapeHolds, PTL DEF Spec

(* Only release() unlocks normally, and after a drain that found no worker
   unless a loss was recorded.                                               *)
THEOREM DrainsBeforeUnlock == Spec => DrainedBeforeUnlock
<1>1. LeaseShape /\ [Next]_vars =>
        \A p \in Processes : (lock = p /\ lock' = None /\ main'[p] = "exit" /\ ~loss[p])
          => Workers(p) = {}
  <2> SUFFICES ASSUME LeaseShape, [Next]_vars, NEW q \in Processes,
                      lock = q, lock' = None, main'[q] = "exit", ~loss[q]
               PROVE  Workers(q) = {}
    OBVIOUS
  <2> USE WriterLeaseAssumption
      DEF LeaseShape, TypeOK, SessionHoldsLock, WorkersAreKept, Workers, Registered, Goto, Forget,
          dbVars, procVars, reqVars
  <2>1. ASSUME NEW p \in Processes, SessionDies(p) PROVE Workers(q) = {}
    BY <2>1 DEF SessionDies
  <2>2. ASSUME NEW p \in Processes, Crash(p) PROVE Workers(q) = {}
    BY <2>2 DEF Crash
  <2>3. ASSUME NEW p \in Processes, Acquire(p) PROVE Workers(q) = {}
    BY <2>3 DEF Acquire
  <2>4. ASSUME NEW p \in Processes, Boot(p) PROVE Workers(q) = {}
    BY <2>4 DEF Boot
  <2>5. ASSUME NEW p \in Processes, Serve(p) PROVE Workers(q) = {}
    BY <2>5 DEF Serve
  <2>6. ASSUME NEW p \in Processes, StartupFails(p) PROVE Workers(q) = {}
    BY <2>6 DEF StartupFails
  <2>7. ASSUME NEW p \in Processes, Quiesce(p) PROVE Workers(q) = {}
    BY <2>7 DEF Quiesce
  <2>8. ASSUME NEW p \in Processes, Drain(p) PROVE Workers(q) = {}
    BY <2>8 DEF Drain
  <2>9. ASSUME NEW p \in Processes, Release(p) PROVE Workers(q) = {}
    BY <2>9 DEF Release
  <2>10. ASSUME NEW p \in Processes, Exit(p) PROVE Workers(q) = {}
    BY <2>10 DEF Exit
  <2>11. ASSUME NEW p \in Processes, NEW o \in Ops, Reconcile(p, o) PROVE Workers(q) = {}
    BY <2>11 DEF Reconcile
  <2>12. ASSUME NEW p \in Processes, Monitor(p) PROVE Workers(q) = {}
    BY <2>12 DEF Monitor
  <2>13. ASSUME NEW p \in Processes, Stop(p) PROVE Workers(q) = {}
    BY <2>13 DEF Stop
  <2>14. ASSUME NEW p \in Processes, NEW o \in Ops, AdminAbort(p, o) PROVE Workers(q) = {}
    BY <2>14 DEF AdminAbort
  <2>15. ASSUME NEW r \in Requests, NEW p \in Processes, NEW o \in Ops, Accept(r, p, o) PROVE Workers(q) = {}
    BY <2>15 DEF Accept
  <2>16. ASSUME NEW r \in Requests, AssertHeld(r) PROVE Workers(q) = {}
    BY <2>16 DEF AssertHeld
  <2>17. ASSUME NEW r \in Requests, SessionLost(r) PROVE Workers(q) = {}
    BY <2>17 DEF SessionLost
  <2>18. ASSUME NEW r \in Requests, Claim(r) PROVE Workers(q) = {}
    BY <2>18 DEF Claim
  <2>19. ASSUME NEW r \in Requests, MutateAtomic(r) PROVE Workers(q) = {}
    BY <2>19 DEF MutateAtomic
  <2>20. ASSUME NEW r \in Requests, MutatePlain(r) PROVE Workers(q) = {}
    BY <2>20 DEF MutatePlain
  <2>21. ASSUME NEW r \in Requests, Finalize(r) PROVE Workers(q) = {}
    BY <2>21 DEF Finalize
  <2>22. ASSUME NEW r \in Requests, ReleaseClaim(r) PROVE Workers(q) = {}
    BY <2>22 DEF ReleaseClaim
  <2>23. ASSUME NEW r \in Requests, MutateRaises(r) PROVE Workers(q) = {}
    BY <2>23 DEF MutateRaises
  <2>24. ASSUME NEW r \in Requests, FinalizeRaises(r) PROVE Workers(q) = {}
    BY <2>24 DEF FinalizeRaises
  <2>25. ASSUME NEW o \in Ops, CompleteSelfTest(o) PROVE Workers(q) = {}
    BY <2>25 DEF CompleteSelfTest
  <2>26. CASE UNCHANGED vars
    BY <2>26 DEF vars
  <2> QED
    BY <2>1, <2>2, <2>3, <2>4, <2>5, <2>6, <2>7, <2>8, <2>9, <2>10, <2>11, <2>12, <2>13, <2>14, <2>15, <2>16, <2>17, <2>18, <2>19, <2>20, <2>21, <2>22, <2>23, <2>24, <2>25, <2>26 DEF Next, MainStep, RequestStep
<1> QED
  BY <1>1, LeaseShapeHolds, PTL DEF Spec, DrainedBeforeUnlock

=============================================================================
