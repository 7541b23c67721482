---------------------------- MODULE WriterLease ----------------------------
(***************************************************************************)
(* The single-writer lease of the control plane and the idempotency guard  *)
(* of the routes that work under it.  A backend process takes a session    *)
(* advisory lock, counts up the boot incarnation, reconciles the claims of *)
(* earlier boots and serves; while its lease is registered, every database *)
(* statement of the process runs on the reserved session, so that losing   *)
(* the lock also loses the transactions.  Once the lease is unregistered,  *)
(* the connection pool hands out ordinary connections again: whatever is   *)
(* still running then is not fenced.                                       *)
(*                                                                         *)
(* A request is one delivery of a mutating route call.  The op_ids are of  *)
(* three kinds:                                                            *)
(*   atomic    effect and finalized claim in one transaction               *)
(*             (the kinds of the installer and of the failure corpus)      *)
(*   plain     the effect commits before the claim is finalized            *)
(*   selftest  a worker thread does the work after the request returned    *)
(* The phase operations of OperationLedger use the same table and process. *)
(***************************************************************************)
EXTENDS Naturals, FiniteSets

CONSTANTS
    Processes,      \* backend processes started for one database
    Requests,       \* deliveries of route calls
    Ops,            \* op_ids
    KindOf,         \* kind of the operation behind an op_id
    None,           \* no process, no request
    MaxBoots,       \* bound on boot incarnations
    MaxFaults       \* bound on crashes, lost sessions and failed statements

OpKinds == {"atomic", "plain", "selftest"}

ASSUME WriterLeaseAssumption ==
    /\ KindOf \in [Ops -> OpKinds]
    /\ None \notin Processes \cup Requests \cup Ops
    /\ MaxBoots \in Nat \ {0} /\ MaxFaults \in Nat

VARIABLES
    lock,         \* process whose session holds the advisory lock, or None
    incarnation,  \* instance_incarnation of backend_instance_identity
    row,          \* control_plane_operations, by op_id
    applied,      \* committed effects of each op_id
    main,         \* the main thread of each process
    identity,     \* boot identity bound to its lease, 0 before that
    session,      \* its reserved database session
    loss,         \* its recorded writer_lease_loss_reason
    stopping,     \* its _writer_stopping event
    worker,       \* the request whose self-test a worker runs, by op_id
    pc, on, op,   \* the requests: next step, process, op_id
    faults,       \* crashes, lost sessions and failed statements so far
    stray         \* history: processes that wrote without the lock

dbVars == <<lock, incarnation, row, applied, stray>>
procVars == <<main, identity, session, loss, stopping, worker>>
reqVars == <<pc, on, op>>
vars == <<dbVars, procVars, reqVars, faults>>

NoRow == [status |-> "none", by |-> None, inc |-> 0]

Init ==
    /\ lock = None /\ incarnation = 0
    /\ row = [o \in Ops |-> NoRow]
    /\ applied = [o \in Ops |-> 0]
    /\ main = [p \in Processes |-> "down"]
    /\ identity = [p \in Processes |-> 0]
    /\ session = [p \in Processes |-> "none"]
    /\ loss = [p \in Processes |-> FALSE]
    /\ stopping = [p \in Processes |-> FALSE]
    /\ worker = [o \in Ops |-> None]
    /\ pc = [r \in Requests |-> "idle"]
    /\ on = [r \in Requests |-> None]
    /\ op = [r \in Requests |-> None]
    /\ faults = 0
    /\ stray = {}

Fault == faults < MaxFaults /\ faults' = faults + 1
Calm == UNCHANGED faults

-----------------------------------------------------------------------------
(* The reserved session.                                                   *)

\* The process-local registration: from the acquisition until release().
Registered(p) == main[p] \notin {"down", "exit"}

\* borrow_active_writer_connection: the reserved session while the lease is
\* registered, else a pooled connection; a lost session raises.
Usable(p) == Registered(p) => session[p] = "open"

\* A statement of p commits.
Writes(p) == stray' = IF lock = p THEN stray ELSE stray \cup {p}

\* The database ends the session: its transaction rolls back and the advisory
\* lock is free.  The process only learns of it at its next statement.
SessionDies(p) ==
    /\ session[p] = "open"
    /\ Fault
    /\ session' = [session EXCEPT ![p] = "lost"]
    /\ lock' = None
    /\ UNCHANGED <<incarnation, row, applied, stray, main, identity, loss, stopping, worker, reqVars>>

\* Mutant: the flag that keeps running workers from finalizing is not set.
AbortWriterWorkForgetsRunning(p) == UNCHANGED stopping

\* abort_writer_work: queued self-tests are cancelled, running ones will not
\* finalize.
AbortWriterWork(p) == stopping' = [stopping EXCEPT ![p] = TRUE]

\* _record_writer_lease_loss.
RecordLoss(p) ==
    /\ loss' = [loss EXCEPT ![p] = TRUE]
    /\ AbortWriterWork(p)

-----------------------------------------------------------------------------
(* The main thread: run_pre_serve_startup, serve_control_plane and         *)
(* release_writer_lease.                                                   *)

Goto(p, step) == main' = [main EXCEPT ![p] = step]

LockIsFree == lock = None

\* acquire_control_plane_writer_lease; a second writer is turned away and its
\* process ends.
Acquire(p) ==
    /\ main[p] = "down"
    /\ incarnation < MaxBoots
    /\ LockIsFree
    /\ lock' = p
    /\ session' = [session EXCEPT ![p] = "open"]
    /\ Goto(p, "boot")
    /\ UNCHANGED <<incarnation, row, applied, stray, identity, loss, stopping, worker, reqVars, faults>>

\* boot_backend_instance_identity: create or increment, then bind_identity.
Boot(p) ==
    /\ main[p] = "boot" /\ Usable(p)
    /\ incarnation' = incarnation + 1
    /\ identity' = [identity EXCEPT ![p] = incarnation + 1]
    /\ Goto(p, "reconcile")
    /\ Writes(p)
    /\ UNCHANGED <<lock, row, applied, session, loss, stopping, worker, reqVars, faults>>

\* Mutant: claims of the boot just before this one are taken for its own.
OrphansOfOlderBoots(p) == {o \in Ops : row[o].status = "claimed" /\ row[o].inc + 1 < identity[p]}

Orphans(p) == {o \in Ops : row[o].status = "claimed" /\ row[o].inc < identity[p]}

\* _is_atomic_storyless_writer_operation, by the prefix of the kind.
IsAtomicStoryless(o) == KindOf[o] = "atomic"

\* A claimed atomic operation has no committed effect: its claim is released
\* and the op_id may run again; any other orphan is finalized as failed.
Reconcile(p, o) ==
    /\ main[p] = "reconcile" /\ Usable(p)
    /\ o \in Orphans(p)
    /\ row' = [row EXCEPT ![o] = IF IsAtomicStoryless(o) THEN NoRow
                                 ELSE [@ EXCEPT !.status = "failed", !.by = None]]
    /\ Writes(p)
    /\ UNCHANGED <<lock, incarnation, applied, procVars, reqVars, faults>>

\* assert_productive_writer_ready, then the sockets are bound.
Serve(p) ==
    /\ main[p] = "reconcile" /\ Orphans(p) = {} /\ Usable(p)
    /\ Goto(p, "serving")
    /\ UNCHANGED <<dbVars, identity, session, loss, stopping, worker, reqVars, faults>>

\* A statement of the startup raised: lease.release() without ever serving.
StartupFails(p) ==
    /\ main[p] \in {"boot", "reconcile"} /\ ~Usable(p)
    /\ Goto(p, "release")
    /\ UNCHANGED <<dbVars, identity, session, loss, stopping, worker, reqVars, faults>>

\* Mutant: the session is only probed while requests are being served.
MonitorTraffic(p) ==
    /\ main[p] = "serving" /\ ~Usable(p) /\ ~loss[p]
    /\ \E r \in Requests : on[r] = p /\ pc[r] \notin {"done", "dead"}
    /\ RecordLoss(p)
    /\ UNCHANGED <<dbVars, main, identity, session, worker, reqVars, faults>>

\* wait_for_writer_lease_loss: the monitor's periodic assert_held.
Monitor(p) ==
    /\ main[p] = "serving" /\ ~Usable(p) /\ ~loss[p]
    /\ RecordLoss(p)
    /\ UNCHANGED <<dbVars, main, identity, session, worker, reqVars, faults>>

\* The coordinator stops both listeners: the loss event, or an interrupt.
Stop(p) ==
    /\ main[p] = "serving"
    /\ Goto(p, "join")
    /\ UNCHANGED <<dbVars, identity, session, loss, stopping, worker, reqVars, faults>>

OpenRequests(p) == {r \in Requests : on[r] = p /\ pc[r] \notin {"done", "dead"}}
Workers(p) == {o \in Ops : worker[o] # None /\ on[worker[o]] = p}

\* server_close joins the handler threads, quiesce_requests waits for the
\* accepted requests.
Quiesced(p) == OpenRequests(p) = {}

Quiesce(p) ==
    /\ main[p] = "join" /\ Quiesced(p)
    /\ Goto(p, "drain")
    /\ UNCHANGED <<dbVars, identity, session, loss, stopping, worker, reqVars, faults>>

\* Mutant: the accepted self-tests are not waited for.
DrainAtOnce(p) ==
    /\ main[p] = "drain"
    /\ Goto(p, "release")
    /\ AbortWriterWork(p)
    /\ UNCHANGED <<dbVars, identity, session, loss, worker, reqVars, faults>>

\* drain_writer_work waits for the accepted self-tests; after a loss they are
\* aborted instead.
Drain(p) ==
    /\ main[p] = "drain"
    /\ \/ ~loss[p] /\ Workers(p) = {} /\ UNCHANGED stopping
       \/ loss[p] /\ AbortWriterWork(p)
    /\ Goto(p, "release")
    /\ UNCHANGED <<dbVars, identity, session, loss, worker, reqVars, faults>>

\* Mutant: the lease is unregistered but its connection is not returned.
ReleaseKeepsSession(p) ==
    /\ main[p] = "release"
    /\ lock' = IF lock = p THEN None ELSE lock
    /\ Goto(p, "exit")
    /\ UNCHANGED <<incarnation, row, applied, stray, identity, session, loss, stopping, worker, reqVars, faults>>

\* release(): unlock, unregister, return the connection.
Release(p) ==
    /\ main[p] = "release"
    /\ lock' = IF lock = p THEN None ELSE lock
    /\ session' = [session EXCEPT ![p] = "none"]
    /\ Goto(p, "exit")
    /\ UNCHANGED <<incarnation, row, applied, stray, identity, loss, stopping, worker, reqVars, faults>>

\* What a process leaves in memory goes with it.
Forget(p) ==
    /\ Goto(p, "down")
    /\ identity' = [identity EXCEPT ![p] = 0]
    /\ session' = [session EXCEPT ![p] = "none"]
    /\ loss' = [loss EXCEPT ![p] = FALSE]
    /\ stopping' = [stopping EXCEPT ![p] = FALSE]
    /\ worker' = [o \in Ops |-> IF o \in Workers(p) THEN None ELSE worker[o]]

\* The interpreter ends once the worker threads have ended.
Exit(p) ==
    /\ main[p] = "exit" /\ Workers(p) = {}
    /\ Forget(p)
    /\ UNCHANGED <<dbVars, reqVars, faults>>

Crash(p) ==
    /\ main[p] # "down"
    /\ Fault
    /\ Forget(p)
    /\ lock' = IF lock = p THEN None ELSE lock
    /\ pc' = [r \in Requests |-> IF r \in OpenRequests(p) THEN "dead" ELSE pc[r]]
    /\ UNCHANGED <<incarnation, row, applied, stray, on, op>>

-----------------------------------------------------------------------------
(* Requests: request_scope around run_route_idempotent.                    *)

To(r, step) == pc' = [pc EXCEPT ![r] = step]

\* A handler thread of a listener gets the call.
Accept(r, p, o) ==
    /\ pc[r] = "idle" /\ main[p] = "serving"
    /\ To(r, "enter")
    /\ on' = [on EXCEPT ![r] = p]
    /\ op' = [op EXCEPT ![r] = o]
    /\ UNCHANGED <<dbVars, procVars, faults>>

\* assert_held on the way in and on the way out of the scope; a lost session
\* is recorded and the client gets control_plane_writer_lease_lost.
AssertHeld(r) ==
    /\ pc[r] \in {"enter", "leave"}
    /\ IF session[on[r]] = "open"
       THEN /\ To(r, IF pc[r] = "enter" THEN "claim" ELSE "done")
            /\ UNCHANGED <<loss, stopping>>
       ELSE To(r, "done") /\ RecordLoss(on[r])
    /\ UNCHANGED <<dbVars, main, identity, session, worker, on, op, faults>>

\* A statement of the request raises: the exception passes through the guard,
\* whose release raises too, and the claim stays.
SessionLost(r) ==
    /\ pc[r] \in {"claim", "mutate", "finalize", "release"}
    /\ ~Usable(on[r])
    /\ To(r, "leave")
    /\ UNCHANGED <<dbVars, procVars, on, op, faults>>

\* guard.claim: INSERT ... ON CONFLICT DO NOTHING.  A loser is classified
\* (replay, mismatch, conflict, in flight) and writes nothing; a self-test is
\* refused while the writer is stopping, else it is claimed and submitted
\* under the lifecycle lock.
Claim(r) ==
    LET o == op[r]
        p == on[r]
        open == row[o].status = "none" /\ (KindOf[o] = "selftest" => ~stopping[p])
    IN  /\ pc[r] = "claim" /\ Usable(p)
        /\ IF open
           THEN /\ row' = [row EXCEPT ![o] = [status |-> "claimed", by |-> r, inc |-> identity[p]]]
                /\ Writes(p)
                /\ To(r, IF KindOf[o] = "selftest" THEN "leave" ELSE "mutate")
                /\ worker' = IF KindOf[o] = "selftest" THEN [worker EXCEPT ![o] = r] ELSE worker
           ELSE To(r, "leave") /\ UNCHANGED <<row, stray, worker>>
        /\ UNCHANGED <<lock, incarnation, applied, main, identity, session, loss, stopping, on, op, faults>>

\* The CAS on owner token, claimed_at and epoch.
Owns(r, o) == row[o].status = "claimed" /\ row[o].by = r

Commit(o) == row' = [row EXCEPT ![o] = [@ EXCEPT !.status = "committed", !.by = None]]

\* Mutant: the effect stays although the claim was lost.
MutateAtomicKeepsEffect(r) ==
    /\ pc[r] = "mutate" /\ KindOf[op[r]] = "atomic" /\ Usable(on[r])
    /\ To(r, "leave")
    /\ applied' = [applied EXCEPT ![op[r]] = @ + 1]
    /\ IF Owns(r, op[r]) THEN Commit(op[r]) ELSE UNCHANGED row
    /\ Writes(on[r])
    /\ UNCHANGED <<lock, incarnation, procVars, on, op, faults>>

\* atomic_writer_mutation: effect and finalize commit together; a lost CAS
\* rolls both back.
MutateAtomic(r) ==
    /\ pc[r] = "mutate" /\ KindOf[op[r]] = "atomic" /\ Usable(on[r])
    /\ To(r, "leave")
    /\ IF Owns(r, op[r])
       THEN /\ Commit(op[r])
            /\ applied' = [applied EXCEPT ![op[r]] = @ + 1]
            /\ Writes(on[r])
       ELSE UNCHANGED <<row, applied, stray>>
    /\ UNCHANGED <<lock, incarnation, procVars, on, op, faults>>

\* A plain route commits its effect first.
MutatePlain(r) ==
    /\ pc[r] = "mutate" /\ KindOf[op[r]] = "plain" /\ Usable(on[r])
    /\ To(r, "finalize")
    /\ applied' = [applied EXCEPT ![op[r]] = @ + 1]
    /\ Writes(on[r])
    /\ UNCHANGED <<lock, incarnation, row, procVars, on, op, faults>>

\* The route raises or answers >= 500 before it has an effect, or an atomic
\* scope rolls back.
MutateRaises(r) ==
    /\ pc[r] = "mutate" /\ Usable(on[r])
    /\ To(r, "release")
    /\ UNCHANGED <<dbVars, procVars, on, op, faults>>

\* guard.finalize of a plain route; a lost CAS is classified.
Finalize(r) ==
    /\ pc[r] = "finalize" /\ Usable(on[r])
    /\ To(r, "leave")
    /\ IF Owns(r, op[r]) THEN Commit(op[r]) /\ Writes(on[r]) ELSE UNCHANGED <<row, stray>>
    /\ UNCHANGED <<lock, incarnation, applied, procVars, on, op, faults>>

\* The finalize statement of a plain route fails on a live session: the same
\* exception handler releases the claim, although the effect is committed.
FinalizeRaises(r) ==
    /\ pc[r] = "finalize" /\ Usable(on[r])
    /\ Fault
    /\ To(r, "release")
    /\ UNCHANGED <<dbVars, procVars, on, op>>

\* guard.release: the claim row is deleted by CAS.
ReleaseClaim(r) ==
    /\ pc[r] = "release" /\ Usable(on[r])
    /\ To(r, "leave")
    /\ IF Owns(r, op[r])
       THEN row' = [row EXCEPT ![op[r]] = NoRow] /\ Writes(on[r])
       ELSE UNCHANGED <<row, stray>>
    /\ UNCHANGED <<lock, incarnation, applied, procVars, on, op, faults>>

\* admin_abort_inflight_operation of a running server.
AdminAbort(p, o) ==
    /\ main[p] = "serving" /\ Usable(p)
    /\ row[o].status = "claimed"
    /\ row' = [row EXCEPT ![o] = [@ EXCEPT !.status = "aborted", !.by = None]]
    /\ Writes(p)
    /\ UNCHANGED <<lock, incarnation, applied, procVars, reqVars, faults>>

\* _complete_self_test: the result is finalized under the lifecycle lock unless
\* the writer is stopping; a lost session raises in the worker.
CompleteSelfTest(o) ==
    LET r == worker[o]
        p == on[r]
    IN  /\ r # None
        /\ worker' = [worker EXCEPT ![o] = None]
        /\ IF ~stopping[p] /\ Usable(p) /\ Owns(r, o)
           THEN /\ Commit(o)
                /\ applied' = [applied EXCEPT ![o] = @ + 1]
                /\ Writes(p)
           ELSE UNCHANGED <<row, applied, stray>>
        /\ UNCHANGED <<lock, incarnation, main, identity, session, loss, stopping, reqVars, faults>>

-----------------------------------------------------------------------------
MainStep(p) ==
    \/ Acquire(p) \/ Boot(p) \/ Serve(p) \/ StartupFails(p) \/ Quiesce(p)
    \/ Drain(p) \/ Release(p) \/ Exit(p)
    \/ \E o \in Ops : Reconcile(p, o)

RequestStep(r) ==
    \/ AssertHeld(r) \/ SessionLost(r) \/ Claim(r) \/ MutateAtomic(r) \/ MutatePlain(r)
    \/ Finalize(r) \/ ReleaseClaim(r)

Next ==
    \/ \E p \in Processes :
          \/ SessionDies(p) \/ Crash(p) \/ MainStep(p) \/ Monitor(p) \/ Stop(p)
          \/ \E o \in Ops : AdminAbort(p, o)
    \/ \E r \in Requests :
          \/ \E p \in Processes, o \in Ops : Accept(r, p, o)
          \/ RequestStep(r) \/ MutateRaises(r) \/ FinalizeRaises(r)
    \/ \E o \in Ops : CompleteSelfTest(o)

Spec == Init /\ [][Next]_vars

\* Threads that can run do run; the monitor probes the session periodically,
\* and its finding ends the serving (the coordinator waits for it).
Fairness ==
    /\ \A p \in Processes : /\ WF_vars(MainStep(p))
                            /\ WF_vars(Monitor(p))
                            /\ WF_vars(loss[p] /\ Stop(p))
    /\ \A r \in Requests : WF_vars(RequestStep(r) \/ MutateRaises(r))
    /\ \A o \in Ops : WF_vars(CompleteSelfTest(o))

FairSpec == Spec /\ Fairness

-----------------------------------------------------------------------------
(* Properties.                                                             *)

Mains == {"down", "boot", "reconcile", "serving", "join", "drain", "release", "exit"}
Steps == {"idle", "enter", "claim", "mutate", "finalize", "release", "leave", "done", "dead"}

\* The shapes of rows, threads and sessions; a lease that is not registered has
\* no session.
TypeOK ==
    /\ lock \in Processes \cup {None} /\ incarnation \in 0 .. MaxBoots
    /\ row \in [Ops -> [status : {"none", "claimed", "committed", "failed", "aborted"},
                        by : Requests \cup {None}, inc : 0 .. MaxBoots]]
    /\ applied \in [Ops -> Nat]
    /\ main \in [Processes -> Mains]
    /\ identity \in [Processes -> 0 .. MaxBoots]
    /\ session \in [Processes -> {"none", "open", "lost"}]
    /\ \A p \in Processes : ~Registered(p) <=> session[p] = "none"
    /\ loss \in [Processes -> BOOLEAN] /\ stopping \in [Processes -> BOOLEAN]
    /\ worker \in [Ops -> Requests \cup {None}]
    /\ pc \in [Requests -> Steps]
    /\ on \in [Requests -> Processes \cup {None}] /\ op \in [Requests -> Ops \cup {None}]
    /\ faults \in 0 .. MaxFaults /\ stray \subseteq Processes

\* Every committed statement was made by the process that held the advisory
\* lock at that moment: requests, workers and the startup of a process that
\* lost or released its lease never write again.
NoStrayWrite == stray = {}

\* The effect of an atomic operation and its committed row exist together or
\* not at all, whatever is aborted, lost, crashed or reconciled in between.
AtomicTogether ==
    \A o \in Ops : KindOf[o] = "atomic" =>
        applied[o] = (IF row[o].status = "committed" THEN 1 ELSE 0)

\* A serving process works under the latest boot incarnation, and no claim of
\* an earlier boot is left for it to meet.
ServesLatestBoot ==
    \A p \in Processes : (main[p] = "serving" /\ session[p] = "open") =>
        /\ identity[p] = incarnation
        /\ \A o \in Ops : row[o].status = "claimed" => row[o].inc = incarnation

\* A process never unlocks normally while a self-test it accepted still runs:
\* its result would be dropped and its claim left for the next boot.
DrainedBeforeUnlock ==
    [][\A p \in Processes : (lock = p /\ lock' = None /\ main'[p] = "exit" /\ ~loss[p])
          => Workers(p) = {}]_vars

\* A process whose session was lost stops, and does not wait for itself: the
\* monitor, the handler threads, the workers and the release all come through.
LossStopsProcess ==
    \A p \in Processes : session[p] = "lost" ~> main[p] = "down"

\* The effects of an op_id are committed at most once, however often the route
\* is called (violated for plain routes: see the README).
AppliedAtMostOnce == \A o \in Ops : applied[o] <= 1

=============================================================================
