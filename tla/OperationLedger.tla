--------------------------- MODULE OperationLedger ---------------------------
(***************************************************************************)
(* The durable operation ledger of the control plane and the two claims    *)
(* that every mutating request takes: the op_id claim (a row of            *)
(* control_plane_operations in status 'claimed') and the per-story object  *)
(* claim (a row of object_mutation_claims).                                *)
(*                                                                         *)
(* The server is thread-per-request, so each request is a process whose    *)
(* database transactions are its atomic steps.  A request is one DELIVERY: *)
(* a client retry or a duplicated delivery is another request with the     *)
(* same op_id, so a request can stand for the owner token minted per call. *)
(* The kinds of request are                                                *)
(*   start    start_phase                   claims the op_id, then the     *)
(*   resume   resume_phase                  story, runs the engine,        *)
(*                                          finalizes by CAS               *)
(*   mutate   complete_phase, fail_phase    claims only the story and      *)
(*   closure  complete_closure              commits in one transaction     *)
(*                                                                         *)
(* Left open here (a nondeterministic refusal stands for it): the run      *)
(* ownership fence, freezes, push barriers and binding collisions.         *)
(***************************************************************************)
EXTENDS Naturals, FiniteSets

CONSTANTS Requests,        \* deliveries of client calls, one thread each
          Admins,          \* concurrent administrative callers
          Ops,             \* op_ids
          Stories,         \* (project_key, story_id) pairs
          StoryOf,         \* the story an op_id is about
          Kinds,           \* the request kinds clients send
          None,            \* SQL NULL
          MaxIncarnation,  \* bound: boots of the backend instance
          MaxWrites,       \* bound: engine writes per story
          MaxFaults        \* bound: release statements that fail

AllKinds == {"start", "resume", "mutate", "closure"}
ClaimingKinds == {"start", "resume"}

ASSUME LedgerAssumption ==
  /\ StoryOf \in [Ops -> Stories]
  /\ Kinds \subseteq AllKinds
  /\ None \notin Requests \cup Ops \cup AllKinds \cup {"aborted", "repair"}
  /\ MaxIncarnation \in Nat \ {0}
  /\ MaxWrites \in Nat
  /\ MaxFaults \in Nat

VARIABLES
  row,          \* control_plane_operations, by op_id
  obj,          \* object_mutation_claims, by story
  writes,       \* engine writes so far (flow_executions, phase_states), by story
  pc, op, kind, \* the requests: next step, op_id, kind
  reply,        \* what the request answers
  adm,          \* the administrative callers
  mode,         \* the backend process: serving, down or reconciling
  incarnation,  \* instance_incarnation of the current process
  faults,       \* failed release statements so far
  applied,      \* history: committed applications of each op_id
  wrote         \* history: op_ids whose executor wrote under its last claim

dbVars  == <<row, obj, writes>>
reqVars == <<pc, op, kind, reply>>
sysVars == <<mode, incarnation, faults>>
history == <<applied, wrote>>
vars    == <<dbVars, reqVars, adm, sysVars, history>>

------------------------------------------------------------------------------
(* The ledger row of an op_id.  by is claimed_by, at is claimed_at measured  *)
(* in engine writes of the story, hash is request_body_hash (which covers    *)
(* the operation kind).                                                      *)

InitialOperationEpoch == 1

Statuses == {"none", "claimed", "committed", "rejected",
             "aborted", "failed", "repair", "resolved"}
Terminal == Statuses \ {"none", "claimed"}
NonCommittedTerminal == {"aborted", "failed", "repair"}

NoRow   == [status |-> "none", by |-> None, epoch |-> 0, inc |-> 0,
            at |-> 0, hash |-> None]
NoClaim == [op |-> None, inc |-> 0]

NoAdmin == [pc |-> "idle", op |-> None, at |-> 0, verdict |-> None]

EarlySteps  == {"lockcheck", "claim", "reload", "object"}
EngineSteps == {"dispatch", "engine", "finalize", "frozen"}
ExitSteps   == {"relbusy", "relop", "unwind", "relobj"}
Live        == EarlySteps \cup EngineSteps \cup ExitSteps \cup {"commit"}

(* The request's claim row: the CAS predicate of finalize and release. *)
OwnsRow(r) == /\ row[op[r]].status = "claimed"
              /\ row[op[r]].by = r
              /\ row[op[r]].epoch = InitialOperationEpoch

(* The row of o leaves 'claimed' for the status st, with epoch e. *)
EndClaim(o, st, e) ==
  row' = [row EXCEPT ![o] = [@ EXCEPT !.status = st, !.by = None, !.at = 0,
                                      !.epoch = e]]

OpenRepair(s) == \E o \in Ops : StoryOf[o] = s /\ row[o].status = "repair"

(* Mutant: the first write after the claim is missed. *)
HasLaterEngineWrites(s, at) == writes[s] > at + 1

HasEngineWritesSince(s, at) == writes[s] > at

(* What a request whose op_id already has a terminal row is told. *)
ReplayOrMismatch(o, k) ==
  IF row[o].hash # k THEN "mismatch"
  ELSE IF row[o].status \in NonCommittedTerminal THEN "conflict"
  ELSE IF row[o].status = "rejected" THEN "rejected"
  ELSE "replayed"

------------------------------------------------------------------------------
Init ==
  /\ row = [o \in Ops |-> NoRow]
  /\ obj = [s \in Stories |-> NoClaim]
  /\ writes = [s \in Stories |-> 0]
  /\ pc = [r \in Requests |-> "idle"]
  /\ op = [r \in Requests |-> None]
  /\ kind = [r \in Requests |-> None]
  /\ reply = [r \in Requests |-> None]
  /\ adm = [a \in Admins |-> NoAdmin]
  /\ mode = "serving"
  /\ incarnation = 1
  /\ faults = 0
  /\ applied = [o \in Ops |-> 0]
  /\ wrote = {}

Goto(r, step) == pc' = [pc EXCEPT ![r] = step]

Answer(r, what) == reply' = [reply EXCEPT ![r] = what]

Finish(r, what) == Goto(r, "done") /\ Answer(r, what)

------------------------------------------------------------------------------
(* Requests: entry.                                                          *)

(* load_existing_operation: a terminal row answers the request at once. *)
Receive(r, o, k) ==
  /\ mode = "serving" /\ pc[r] = "idle"
  /\ op' = [op EXCEPT ![r] = o]
  /\ kind' = [kind EXCEPT ![r] = k]
  /\ IF row[o].status \in Terminal
       THEN Finish(r, ReplayOrMismatch(o, k))
       ELSE Goto(r, "lockcheck") /\ UNCHANGED reply
  /\ UNCHANGED <<dbVars, adm, sysVars, history>>

(* The story has an open repair, or one of the refusals left open here      *)
(* (contested freeze, unreconciled takeover, run admission, push barrier).  *)
RefuseEarly(r) ==
  /\ pc[r] = "lockcheck"
  /\ Finish(r, "rejected")
  /\ UNCHANGED <<dbVars, op, kind, adm, sysVars, history>>

AfterLock(k) == IF k \in ClaimingKinds THEN "claim"
                ELSE IF k = "mutate" THEN "reload" ELSE "object"

PassRepairLock(r) ==
  /\ pc[r] = "lockcheck"
  /\ ~OpenRepair(StoryOf[op[r]])
  /\ Goto(r, AfterLock(kind[r]))
  /\ UNCHANGED <<dbVars, op, kind, reply, adm, sysVars, history>>

(* Mutant: ON CONFLICT DO UPDATE over a row that is already terminal. *)
AcquireClaimOverTerminal(r) ==
  /\ pc[r] = "claim"
  /\ row[op[r]].status # "claimed"
  /\ row' = [row EXCEPT ![op[r]] =
               [status |-> "claimed", by |-> r, epoch |-> InitialOperationEpoch,
                inc |-> incarnation, at |-> writes[StoryOf[op[r]]], hash |-> kind[r]]]
  /\ wrote' = wrote \ {op[r]}
  /\ Goto(r, "object")
  /\ UNCHANGED <<obj, writes, op, kind, reply, adm, sysVars, applied>>

(* Mutant: claimed_at is stamped after the first engine write. *)
AcquireClaimLateStamp(r) ==
  /\ pc[r] = "claim" /\ row[op[r]].status = "none"
  /\ row' = [row EXCEPT ![op[r]] =
               [status |-> "claimed", by |-> r, epoch |-> InitialOperationEpoch,
                inc |-> incarnation, at |-> writes[StoryOf[op[r]]] + 1, hash |-> kind[r]]]
  /\ wrote' = wrote \ {op[r]}
  /\ Goto(r, "object")
  /\ UNCHANGED <<obj, writes, op, kind, reply, adm, sysVars, applied>>

(* INSERT ... ON CONFLICT DO NOTHING; the loser replays or is told that the *)
(* operation is in flight, it never steals a claim.                         *)
AcquireClaim(r) ==
  /\ pc[r] = "claim"
  /\ IF row[op[r]].status = "none"
       THEN /\ row' = [row EXCEPT ![op[r]] =
                         [status |-> "claimed", by |-> r,
                          epoch |-> InitialOperationEpoch,
                          inc |-> incarnation,
                          at |-> writes[StoryOf[op[r]]],
                          hash |-> kind[r]]]
            /\ wrote' = wrote \ {op[r]}
            /\ Goto(r, "object")
            /\ UNCHANGED reply
       ELSE /\ Finish(r, IF row[op[r]].status = "claimed" THEN "inflight"
                         ELSE ReplayOrMismatch(op[r], kind[r]))
            /\ UNCHANGED <<row, wrote>>
  /\ UNCHANGED <<obj, writes, op, kind, adm, sysVars, applied>>

(* complete/fail look at the ledger a second time, still outside the claim. *)
Reload(r) ==
  /\ pc[r] = "reload"
  /\ IF row[op[r]].status \in Terminal
       THEN Finish(r, ReplayOrMismatch(op[r], kind[r]))
       ELSE Goto(r, "object") /\ UNCHANGED reply
  /\ UNCHANGED <<dbVars, op, kind, adm, sysVars, history>>

(* Mutant: the claim of another operation is overwritten. *)
StealObjectClaim(r) ==
  /\ pc[r] = "object"
  /\ obj' = [obj EXCEPT ![StoryOf[op[r]]] = [op |-> op[r], inc |-> incarnation]]
  /\ Goto(r, IF kind[r] \in ClaimingKinds THEN "dispatch" ELSE "commit")
  /\ UNCHANGED <<row, writes, op, kind, reply, adm, sysVars, history>>

(* Mutant: a busy story is waited for, not refused. *)
AwaitObjectClaim(r) ==
  /\ pc[r] = "object" /\ obj[StoryOf[op[r]]] = NoClaim
  /\ StealObjectClaim(r)

AcquireObjectClaim(r) ==
  /\ pc[r] = "object"
  /\ LET s == StoryOf[op[r]] IN
     IF obj[s] = NoClaim
       THEN /\ obj' = [obj EXCEPT ![s] = [op |-> op[r], inc |-> incarnation]]
            /\ Goto(r, IF kind[r] \in ClaimingKinds THEN "dispatch" ELSE "commit")
            /\ UNCHANGED reply
       ELSE /\ IF kind[r] \in ClaimingKinds
                 THEN Goto(r, "relbusy") /\ Answer(r, "busy")
                 ELSE Finish(r, "busy")
            /\ UNCHANGED obj
  /\ UNCHANGED <<row, writes, op, kind, adm, sysVars, history>>

------------------------------------------------------------------------------
(* start / resume under both claims.  The engine commits its writes in       *)
(* transactions of its own, before the ledger row is finalized, and does not *)
(* look at the claim again.                                                  *)

EngineWrite(r) ==
  /\ pc[r] \in {"dispatch", "engine"}
  /\ writes[StoryOf[op[r]]] < MaxWrites
  /\ writes' = [writes EXCEPT ![StoryOf[op[r]]] = @ + 1]
  /\ wrote' = wrote \cup {op[r]}
  /\ Goto(r, "engine")
  /\ UNCHANGED <<row, obj, op, kind, reply, adm, sysVars, applied>>

(* Admission or the dispatcher refuses before the engine ran; a resume is   *)
(* also refused after it ran (failed or escalated resume, yield barrier).   *)
DispatchRejected(r) ==
  /\ \/ pc[r] = "dispatch"
     \/ pc[r] = "engine" /\ kind[r] = "resume"
  /\ Goto(r, "relop") /\ Answer(r, "rejected")
  /\ UNCHANGED <<dbVars, op, kind, adm, sysVars, history>>

DispatchReturned(r) ==
  /\ pc[r] \in {"dispatch", "engine"}
  /\ Goto(r, "finalize")
  /\ UNCHANGED <<dbVars, op, kind, reply, adm, sysVars, history>>

(* An exception, or at finalize a binding collision or (resume, or a lost    *)
(* owner) an ownership fence violation: the transaction, if any, rolls back. *)
Raise(r) ==
  /\ pc[r] \in {"dispatch", "engine", "finalize"}
  /\ Goto(r, "unwind") /\ Answer(r, "error")
  /\ UNCHANGED <<dbVars, op, kind, adm, sysVars, history>>

(* Mutant: the terminal row is written without the CAS. *)
FinalizeUnfenced(r) ==
  /\ pc[r] = "finalize"
  /\ Goto(r, "relobj")
  /\ EndClaim(op[r], "committed", row[op[r]].epoch)
  /\ applied' = [applied EXCEPT ![op[r]] = @ + 1]
  /\ Answer(r, "committed")
  /\ UNCHANGED <<obj, writes, op, kind, adm, sysVars, wrote>>

(* The finalize CAS with its side effects in one transaction; a lost CAS     *)
(* writes nothing and answers with what the row says now.                    *)
Finalize(r) ==
  /\ pc[r] = "finalize"
  /\ Goto(r, "relobj")
  /\ IF OwnsRow(r)
       THEN /\ EndClaim(op[r], "committed", row[op[r]].epoch)
            /\ applied' = [applied EXCEPT ![op[r]] = @ + 1]
            /\ Answer(r, "committed")
       ELSE /\ Answer(r, "late")
            /\ UNCHANGED <<row, applied>>
  /\ UNCHANGED <<obj, writes, op, kind, adm, sysVars, wrote>>

(* The finalize transaction met a freeze: start records a terminal rejection *)
(* in a second CAS transaction.                                              *)
FinalizeFrozen(r) ==
  /\ pc[r] = "finalize" /\ kind[r] = "start" /\ OwnsRow(r)
  /\ Goto(r, "frozen")
  /\ UNCHANGED <<dbVars, op, kind, reply, adm, sysVars, history>>

TerminalizeFrozen(r) ==
  /\ pc[r] = "frozen"
  /\ Goto(r, "relobj")
  /\ IF OwnsRow(r)
       THEN /\ EndClaim(op[r], "rejected", row[op[r]].epoch)
            /\ Answer(r, "rejected")
       ELSE Answer(r, "late") /\ UNCHANGED row
  /\ UNCHANGED <<obj, writes, op, kind, adm, sysVars, history>>

------------------------------------------------------------------------------
(* complete / fail / closure under the story claim: the terminal row and the *)
(* side effects in one transaction, refused only by a row still claimed.     *)

CommitWithSideEffects(r) ==
  /\ pc[r] = "commit"
  /\ row[op[r]].status # "claimed"
  /\ row' = [row EXCEPT ![op[r]] = [@ EXCEPT !.status = "committed",
                                             !.hash = kind[r],
                                             !.by = None, !.at = 0]]
  /\ applied' = [applied EXCEPT ![op[r]] = @ + 1]
  /\ Goto(r, "relobj") /\ Answer(r, "committed")
  /\ UNCHANGED <<obj, writes, op, kind, adm, sysVars, wrote>>

(* Claim collision, binding collision, ownership fence or an exception. *)
CommitRefused(r) ==
  /\ pc[r] = "commit"
  /\ Goto(r, "relobj") /\ Answer(r, "rejected")
  /\ UNCHANGED <<dbVars, op, kind, adm, sysVars, history>>

------------------------------------------------------------------------------
(* Releases.  ReleaseRow deletes the claimed row by CAS; the object claim is *)
(* deleted by op_id only.                                                    *)

ReleaseRow(r) == row' = [row EXCEPT ![op[r]] = NoRow]

ReleaseObject(o) ==
  obj' = [s \in Stories |->
            IF s = StoryOf[o] /\ obj[s].op = o THEN NoClaim ELSE obj[s]]

(* Mutant: a rejected dispatch forgets the story claim. *)
ReleaseRowOnly(r) ==
  /\ pc[r] \in {"relbusy", "relop"} /\ OwnsRow(r)
  /\ ReleaseRow(r)
  /\ Goto(r, "done")
  /\ UNCHANGED <<obj, writes, op, kind, reply, adm, sysVars, history>>

(* _release_my_claim after a busy story or a rejection.  A missed CAS       *)
(* raises: the exception path then releases the story claim by op_id, even  *)
(* if this request never held it.                                           *)
ReleaseMyClaim(r) ==
  /\ pc[r] \in {"relbusy", "relop"}
  /\ IF OwnsRow(r)
       THEN /\ ReleaseRow(r)
            /\ Goto(r, IF pc[r] = "relop" THEN "relobj" ELSE "done")
            /\ UNCHANGED reply
       ELSE /\ Goto(r, "relobj") /\ Answer(r, "error")
            /\ UNCHANGED row
  /\ UNCHANGED <<obj, writes, op, kind, adm, sysVars, history>>

ReleaseMyClaimBestEffort(r) ==
  /\ pc[r] = "unwind"
  /\ IF OwnsRow(r) THEN ReleaseRow(r) ELSE UNCHANGED row
  /\ Goto(r, "relobj")
  /\ UNCHANGED <<obj, writes, op, kind, reply, adm, sysVars, history>>

ReleaseObjectClaim(r) ==
  /\ pc[r] = "relobj"
  /\ ReleaseObject(op[r])
  /\ Goto(r, "done")
  /\ UNCHANGED <<row, writes, op, kind, reply, adm, sysVars, history>>

(* A release statement fails, and so does its best-effort repetition: that  *)
(* claim stays.  (A repetition that succeeds is the release itself.)  If     *)
(* the CAS of a frozen finalize raises, inside an exception handler, nothing *)
(* releases either claim.                                                   *)
ReleaseFails(r) ==
  /\ faults < MaxFaults
  /\ faults' = faults + 1
  /\ pc[r] \in ExitSteps \cup {"frozen"}
  /\ Goto(r, IF pc[r] \in {"relobj", "frozen"} THEN "done" ELSE "relobj")
  /\ Answer(r, "error")
  /\ UNCHANGED <<dbVars, op, kind, adm, mode, incarnation, history>>

------------------------------------------------------------------------------
(* admin_abort_inflight_operation: load, probe for engine writes, CAS on     *)
(* status = 'claimed' alone, best-effort release of the story claim.         *)

(* Mutant: the claim is aborted without the probe. *)
AdminLoadSkipsProbe(a, o) ==
  /\ mode = "serving" /\ adm[a].pc = "idle"
  /\ row[o].status = "claimed"
  /\ adm' = [adm EXCEPT ![a] = [pc |-> "abort", op |-> o, at |-> row[o].at,
                                verdict |-> None]]
  /\ UNCHANGED <<dbVars, reqVars, sysVars, history>>

AdminLoad(a, o) ==
  /\ mode = "serving" /\ adm[a].pc = "idle"
  /\ row[o].status \in {"claimed", "repair"}
  /\ adm' = [adm EXCEPT ![a] =
               [pc |-> IF row[o].status = "claimed" THEN "probe" ELSE "resolve",
                op |-> o, at |-> row[o].at, verdict |-> None]]
  /\ UNCHANGED <<dbVars, reqVars, sysVars, history>>

AdminProbe(a) ==
  /\ adm[a].pc = "probe"
  /\ adm' = [adm EXCEPT ![a] =
               [@ EXCEPT !.pc = "abort",
                         !.verdict =
                           IF HasEngineWritesSince(StoryOf[adm[a].op], adm[a].at)
                             THEN "repair" ELSE "aborted"]]
  /\ UNCHANGED <<dbVars, reqVars, sysVars, history>>

(* Mutant: the abort does not ask for a row still claimed. *)
AdminAbortAnyRow(a) ==
  /\ adm[a].pc = "abort"
  /\ EndClaim(adm[a].op, adm[a].verdict, row[adm[a].op].epoch + 1)
  /\ adm' = [adm EXCEPT ![a].pc = "release"]
  /\ UNCHANGED <<obj, writes, reqVars, sysVars, history>>

AdminAbort(a) ==
  /\ adm[a].pc = "abort"
  /\ IF row[adm[a].op].status = "claimed"
       THEN /\ EndClaim(adm[a].op, adm[a].verdict, row[adm[a].op].epoch + 1)
            /\ adm' = [adm EXCEPT ![a].pc = "release"]
       ELSE adm' = [adm EXCEPT ![a] = NoAdmin] /\ UNCHANGED row
  /\ UNCHANGED <<obj, writes, reqVars, sysVars, history>>

AdminRelease(a) ==
  /\ adm[a].pc = "release"
  /\ \/ ReleaseObject(adm[a].op) /\ UNCHANGED faults
     \/ faults < MaxFaults /\ faults' = faults + 1 /\ UNCHANGED obj
  /\ adm' = [adm EXCEPT ![a] = NoAdmin]
  /\ UNCHANGED <<row, writes, reqVars, mode, incarnation, history>>

AdminResolve(a) ==
  /\ adm[a].pc = "resolve"
  /\ row' = IF row[adm[a].op].status = "repair"
              THEN [row EXCEPT ![adm[a].op] = [@ EXCEPT !.status = "resolved"]]
              ELSE row
  /\ adm' = [adm EXCEPT ![a] = NoAdmin]
  /\ UNCHANGED <<obj, writes, reqVars, sysVars, history>>

------------------------------------------------------------------------------
(* The process.  A crash stops every thread between two transactions.  The   *)
(* next process of the instance starts only after the last one is gone (the  *)
(* single-writer lease), and serves only once its reconciliation is through. *)

Crash ==
  /\ mode # "down" /\ incarnation < MaxIncarnation
  /\ mode' = "down"
  /\ pc' = [r \in Requests |-> IF pc[r] \in Live THEN "dead" ELSE pc[r]]
  /\ adm' = [a \in Admins |-> NoAdmin]
  /\ UNCHANGED <<dbVars, op, kind, reply, incarnation, faults, history>>

Boot ==
  /\ mode = "down"
  /\ mode' = "reconciling"
  /\ incarnation' = incarnation + 1
  /\ UNCHANGED <<dbVars, reqVars, adm, faults, history>>

(* Mutant: the claims of the incarnation just before are not orphans. *)
OlderOps == {o \in Ops : row[o].status = "claimed" /\ row[o].inc + 1 < incarnation}

OrphanedOps == {o \in Ops : row[o].status = "claimed" /\ row[o].inc < incarnation}

OrphanedClaims == {s \in Stories : obj[s] # NoClaim /\ obj[s].inc < incarnation}

ReconcileOperation(o) ==
  /\ mode = "reconciling" /\ o \in OrphanedOps
  /\ EndClaim(o, IF HasEngineWritesSince(StoryOf[o], row[o].at)
                   THEN "repair" ELSE "failed", row[o].epoch + 1)
  /\ UNCHANGED <<obj, writes, reqVars, adm, sysVars, history>>

ReconcileClaim(s) ==
  /\ mode = "reconciling" /\ OrphanedOps = {} /\ s \in OrphanedClaims
  /\ obj' = [obj EXCEPT ![s] = NoClaim]
  /\ UNCHANGED <<row, writes, reqVars, adm, sysVars, history>>

(* Mutant: the story claims of the dead process are left. *)
ServeAfterOps ==
  /\ mode = "reconciling" /\ OrphanedOps = {}
  /\ mode' = "serving"
  /\ UNCHANGED <<dbVars, reqVars, adm, incarnation, faults, history>>

Serve ==
  /\ mode = "reconciling" /\ OrphanedOps = {} /\ OrphanedClaims = {}
  /\ mode' = "serving"
  /\ UNCHANGED <<dbVars, reqVars, adm, incarnation, faults, history>>

------------------------------------------------------------------------------
RequestStep(r) ==
  \/ RefuseEarly(r) \/ PassRepairLock(r) \/ AcquireClaim(r) \/ Reload(r)
  \/ AcquireObjectClaim(r)
  \/ EngineWrite(r) \/ DispatchRejected(r) \/ DispatchReturned(r) \/ Raise(r)
  \/ Finalize(r) \/ FinalizeFrozen(r) \/ TerminalizeFrozen(r)
  \/ CommitWithSideEffects(r) \/ CommitRefused(r)
  \/ ReleaseMyClaim(r) \/ ReleaseMyClaimBestEffort(r) \/ ReleaseObjectClaim(r)
  \/ ReleaseFails(r)

AdminStep(a) ==
  \/ AdminProbe(a) \/ AdminAbort(a) \/ AdminRelease(a) \/ AdminResolve(a)

Recovery ==
  \/ Boot \/ Serve
  \/ \E o \in Ops : ReconcileOperation(o)
  \/ \E s \in Stories : ReconcileClaim(s)

Next ==
  \/ \E r \in Requests : \/ \E o \in Ops, k \in Kinds : Receive(r, o, k)
                         \/ RequestStep(r)
  \/ \E a \in Admins : (\E o \in Ops : AdminLoad(a, o)) \/ AdminStep(a)
  \/ Crash
  \/ Recovery

Spec == Init /\ [][Next]_vars

(* A thread that is scheduled keeps running, and a crashed instance is      *)
(* started again; nothing obliges a client or an administrator to call.     *)
Fairness ==
  /\ \A r \in Requests : WF_vars(RequestStep(r))
  /\ \A a \in Admins : WF_vars(AdminStep(a))
  /\ WF_vars(Recovery)

FairSpec == Spec /\ Fairness
------------------------------------------------------------------------------
(* Properties.                                                               *)

Answers == {"committed", "replayed", "rejected", "conflict", "mismatch",
            "inflight", "busy", "late", "error"}

RowType == [status : Statuses, by : Requests \cup {None}, epoch : Nat,
            inc : 0..MaxIncarnation, at : Nat, hash : AllKinds \cup {None}]

TableTypes ==
  /\ row \in [Ops -> RowType]
  /\ obj \in [Stories -> [op : Ops \cup {None}, inc : 0..MaxIncarnation]]
  /\ writes \in [Stories -> Nat]

ThreadTypes ==
  /\ pc \in [Requests -> Live \cup {"idle", "done", "dead"}]
  /\ op \in [Requests -> Ops \cup {None}]
  /\ kind \in [Requests -> AllKinds \cup {None}]
  /\ reply \in [Requests -> Answers \cup {None}]
  /\ \A r \in Requests : pc[r] # "idle" => op[r] \in Ops /\ kind[r] \in Kinds

AdminTypes ==
  /\ adm \in [Admins -> [pc : {"idle", "probe", "abort", "release", "resolve"},
                         op : Ops \cup {None}, at : Nat,
                         verdict : {"aborted", "repair", None}]]
  /\ \A a \in Admins :
       /\ adm[a].pc # "idle" => adm[a].op \in Ops
       /\ adm[a].pc \in {"abort", "release"} => adm[a].verdict # None

ProcessTypes ==
  /\ mode \in {"serving", "down", "reconciling"}
  /\ incarnation \in 1..MaxIncarnation
  /\ mode = "down" => incarnation < MaxIncarnation
  /\ faults \in 0..MaxFaults
  /\ applied \in [Ops -> Nat]
  /\ wrote \subseteq Ops

(* Type correctness of the tables, the threads and the process: a thread      *)
(* under way has an op_id and a kind, an administrator an operation and, from *)
(* the probe on, a verdict; a crash leaves an incarnation for the next boot.  *)
TypeOK ==
  /\ TableTypes
  /\ ThreadTypes
  /\ AdminTypes
  /\ ProcessTypes

(* Serialization per mutated object (FK-91 rule 13, object_claims.py): of     *)
(* two threads that run the engine or finalize on one story, at most one     *)
(* still owns its op_id claim; the other one is fenced.                      *)
SerializedDispatch ==
  \A r1, r2 \in Requests :
    ( /\ pc[r1] \in EngineSteps /\ pc[r2] \in EngineSteps
      /\ StoryOf[op[r1]] = StoryOf[op[r2]]
      /\ OwnsRow(r1) /\ OwnsRow(r2) ) => r1 = r2

(* A process serves only when no claim of an earlier incarnation is left, in *)
(* either table (startup_reconcile runs to its end before the first request).*)
NoOrphanWhileServing ==
  mode = "serving" =>
    /\ \A o \in Ops : row[o].status = "claimed" => row[o].inc = incarnation
    /\ \A s \in Stories : obj[s] # NoClaim => obj[s].inc = incarnation

(* An operation that the startup reconciliation finalizes as 'failed' left no *)
(* engine write behind: a partial write becomes 'repair' (IMPL-005).         *)
FailedMeansNoWrites ==
  \A o \in Ops : row[o].status = "failed" => o \notin wrote

(* The same for an operation an administrator aborts: 'aborted' is recorded  *)
(* only for an operation without engine writes.                              *)
AbortedMeansNoWrites ==
  \A o \in Ops : row[o].status = "aborted" => o \notin wrote

(* While nothing failed, no claim is leaked: a claimed row belongs to a live *)
(* thread, and a story claim to a live thread that will release it, whatever *)
(* administrators abort or release in between.                               *)
NoLeakedClaim ==
  (mode = "serving" /\ faults = 0) =>
    /\ \A o \in Ops : row[o].status = "claimed" =>
         \E r \in Requests : row[o].by = r /\ op[r] = o /\ pc[r] \in Live
    /\ \A s \in Stories : obj[s] # NoClaim =>
         \E r \in Requests : op[r] = obj[s].op /\ pc[r] \in Live

(* A client that was told 'committed' or was replayed a success finds a       *)
(* committed (or resolved) row for good, whoever else used the op_id.        *)
AnsweredCommitIsDurable ==
  \A r \in Requests :
    (pc[r] = "done" /\ reply[r] \in {"committed", "replayed"}) =>
      row[op[r]].status \in {"committed", "resolved"}

(* Idempotent op replay: however often an op_id is delivered, its side        *)
(* effects are committed at most once.                                       *)
AppliedAtMostOnce == \A o \in Ops : applied[o] <= 1

(* A late executor is fenced: once an operation was aborted, failed or put in *)
(* repair, its row never turns into a committed result.                      *)
AbandonedNeverCommits ==
  [][\A o \in Ops : row[o].status \in NonCommittedTerminal =>
        row'[o].status \in NonCommittedTerminal \cup {"resolved"}]_vars

(* Every request comes to an answer, unless its process dies. *)
EveryRequestEnds ==
  \A r \in Requests : pc[r] \in Live ~> pc[r] \in {"done", "dead"}

(* After a crash the instance serves again, and the claims that the dead      *)
(* process left are gone.                                                    *)
CrashIsRecovered ==
  \A o \in Ops : (mode = "down" /\ row[o].status = "claimed") ~>
                    (mode = "serving" /\ row[o].status # "claimed")

------------------------------------------------------------------------------
(* The abstract ledger: a claimed row is an operation under way, and a client *)
(* is told when its thread is done.                                          *)

OutcomeOf(status) ==
  CASE status = "none" -> "unused"
    [] status = "claimed" -> "running"
    [] status = "committed" -> "applied"
    [] status = "rejected" -> "refused"
    [] status \in NonCommittedTerminal -> "abandoned"
    [] status = "resolved" -> "resolved"

ToldSuccess(r) == pc[r] = "done" /\ reply[r] \in {"committed", "replayed"}

Ledger == INSTANCE IdempotentLedger WITH
            Clients <- Requests,
            NoOp <- None,
            outcome <- [o \in Ops |-> OutcomeOf(row[o].status)],
            told <- [r \in Requests |-> IF ToldSuccess(r) THEN op[r] ELSE None]

(* The claiming protocol implements the abstract ledger: threads, retries,   *)
(* aborts, crashes and reconciliation show a client nothing but operations   *)
(* that run one at a time to one outcome, truthfully reported.               *)
ImplementsIdempotentLedger == Ledger!Spec

------------------------------------------------------------------------------
(* The inductive invariant behind the safety properties.                     *)

(* A thread past its op_id claim that has not released it yet. *)
HasClaimed(r) == \/ pc[r] \in EngineSteps \cup {"relbusy", "relop", "unwind"}
                 \/ pc[r] = "object" /\ kind[r] \in ClaimingKinds

(* The threads that would release the story claim of op_id o. *)
Holders(o) == {r \in Requests :
                 /\ op[r] = o
                 /\ pc[r] \in EngineSteps \cup {"commit", "relop", "unwind", "relobj"}}

(* Threads and administrators run only in a serving process. *)
StoppedUnlessServing ==
  mode # "serving" => /\ \A r \in Requests : pc[r] \notin Live
                      /\ \A a \in Admins : adm[a].pc = "idle"

(* No claim is stamped with a future incarnation. *)
StampedByNow ==
  /\ \A o \in Ops : row[o].inc <= incarnation
  /\ \A s \in Stories : obj[s].inc <= incarnation

(* Only start and resume take the steps that follow an op_id claim. *)
KindsOfSteps ==
  \A r \in Requests :
    /\ pc[r] \in EngineSteps \cup {"claim", "relbusy", "relop", "unwind"}
         => kind[r] \in ClaimingKinds
    /\ pc[r] \in {"reload", "commit"} => kind[r] \notin ClaimingKinds

(* The claim of such a thread is ended only by a terminal row, never by a     *)
(* deletion, and not by the startup reconciliation.                          *)
ClaimEndsTerminal ==
  \A r \in Requests : HasClaimed(r) =>
    \/ OwnsRow(r)
    \/ row[op[r]].status \in Terminal \ {"failed"}

(* claimed_at separates the writes of a claim's executor from earlier ones.  *)
WritesSinceClaim ==
  \A o \in Ops : row[o].status = "claimed" =>
    /\ row[o].at <= writes[StoryOf[o]]
    /\ o \in wrote => row[o].at < writes[StoryOf[o]]

(* An op_id that can still be started, or whose claim is in its owner's hands:*)
(* at most one thread will release the story for it, and that one holds it.  *)
InOwnersHands(o) ==
  \/ row[o].status = "none"
  \/ /\ row[o].status = "claimed"
     /\ \E r \in Requests : row[o].by = r /\ op[r] = o /\ HasClaimed(r)

StoryClaimHeld ==
  \A o \in Ops : InOwnersHands(o) =>
    \A r \in Holders(o) :
      /\ obj[StoryOf[o]].op = o
      /\ \A r2 \in Holders(o) : r2 = r

(* An administrator releases the story claim of an operation it made terminal.*)
AdminReleasesTerminal ==
  \A a \in Admins : adm[a].pc = "release" => row[adm[a].op].status \in Terminal

(* The conjunction; the thread and claim bookkeeping of the whole protocol.   *)
LedgerInv ==
  /\ StoppedUnlessServing /\ StampedByNow /\ KindsOfSteps
  /\ ClaimEndsTerminal /\ WritesSinceClaim
  /\ StoryClaimHeld /\ AdminReleasesTerminal
  /\ NoOrphanWhileServing /\ FailedMeansNoWrites

==============================================================================
