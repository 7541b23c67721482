--------------------------- MODULE StoryLifecycle ---------------------------
(***************************************************************************)
(* The stories of one project: the status each has in the stories table,   *)
(* and the mode lock that keeps fast and standard stories apart.           *)
(*                                                                         *)
(* Every change of a story is three steps of one request: the story is     *)
(* read, the change is checked against what was read, and the whole row is *)
(* written back.  Requests of the frontend (approve, reject, cancel and    *)
(* field updates) claim their op_id in between; setup and closure hold the *)
(* claim of the story, which excludes one another and nobody else; exit    *)
(* and reset hold neither.  A split takes the claim of the story for each  *)
(* of its steps and freezes the story meanwhile; neither is modelled, so   *)
(* a split meets setup and closure here where the code would refuse it.    *)
(* The lock is a set of holder rows, kept in single transactions, and a    *)
(* marker file per story.                                                  *)
(*                                                                         *)
(* The rest of setup and closure, and the phases in between, are those of  *)
(* StoryPipeline; here they succeed, pause or fail freely.  A story has    *)
(* one engine run: a reset ends it.                                        *)
(***************************************************************************)
EXTENDS Naturals, FiniteSets

CONSTANTS
    Stories,      \* the stories of the project
    Threads,      \* the request threads of the server
    Ops,          \* op_ids clients use; each names one operation
    Kinds,        \* the kinds of requests of the instance
    Created,      \* the statuses the stories have at the start
    MaxEvents     \* bound on requests with an op_id, crashes and failing
                  \* steps on the mode lock together

AllKinds == {"approve", "reject", "cancel", "patch_title", "patch_mode",
             "exit", "split", "reset", "setup", "closure"}

ASSUME StoryLifecycleAssumption ==
    /\ Kinds \subseteq AllKinds
    /\ Created \subseteq {"Backlog", "Approved"}
    /\ MaxEvents \in Nat

VARIABLES
    row,       \* stories: status and mode of each story
    ops,       \* control_plane_operations of the requests with an op_id
    regime,    \* the story has an active ownership record
    holder,    \* project_mode_lock_holders: the mode the story's run holds
    marker,    \* the mode-lock-acquired file of the story
    ctx,       \* mode in the context setup saved for the run
    setup,     \* phase state of setup: none, paused, failed, completed
    closure,   \* none, running (checkpoints persisted), failed, completed
    req,       \* the request each thread works on
    failed,    \* history: stories one of whose steps on the lock has failed
    events,    \* requests with an op_id, crashes and failing steps so far
    crashes

locks == <<holder, marker>>
run == <<regime, ctx, setup, closure>>
bounds == <<failed, events, crashes>>
vars == <<row, ops, run, locks, req, bounds>>

Modes == {"standard", "fast"}
Statuses == {"Backlog", "Approved", "In Progress", "Done", "Cancelled",
             "Resetting", "Reset Failed"}
Rows == [status : Statuses, mode : Modes]

NoRow == [status |-> "none", mode |-> "none"]
NoOp == [body |-> "none", story |-> "none", status |-> "none"]
NoReq == [kind |-> "none", story |-> "none", op |-> "none", at |-> "idle",
          goal |-> "none", snap |-> NoRow, fresh |-> FALSE]

-----------------------------------------------------------------------------
(* The transition table.                                                   *)

AllowedTransitions ==
    { <<"Backlog", "Approved">>, <<"Approved", "Backlog">>,
      <<"Backlog", "Cancelled">>, <<"Approved", "Cancelled">>,
      <<"Approved", "In Progress">>, <<"In Progress", "Done">>,
      <<"In Progress", "Resetting">>, <<"Resetting", "In Progress">>,
      <<"Resetting", "Reset Failed">>, <<"Reset Failed", "Resetting">> }

(* _check_transition on the story as the request read it; a field update   *)
(* changes no status, the administrative cancels of exit and split have a  *)
(* rule of their own, and a reset takes a story that is fenced already.    *)
check_transition(r) ==
    CASE r.kind \in {"patch_title", "patch_mode"} -> TRUE
      [] r.kind \in {"exit", "split"} -> r.snap.status = "In Progress"
      [] r.kind = "reset" /\ r.goal = "Resetting" /\ r.snap.status = "Resetting" -> TRUE
      [] OTHER -> <<r.snap.status, r.goal>> \in AllowedTransitions

Guarded == {"approve", "reject", "cancel", "patch_title", "patch_mode"}
Target(k) == CASE k = "approve" -> "Approved"
               [] k = "reject" -> "Backlog"
               [] k \in {"cancel", "exit", "split"} -> "Cancelled"
               [] k = "setup" -> "In Progress"
               [] k = "closure" -> "Done"
               [] k = "reset" -> "Resetting"
               [] OTHER -> "none"

OtherMode(m) == IF m = "fast" THEN "standard" ELSE "fast"

(* The row a request writes: what it read, with its own change.            *)
Changed(r) ==
    CASE r.kind = "patch_title" -> r.snap
      [] r.kind = "patch_mode" -> [r.snap EXCEPT !.mode = OtherMode(@)]
      [] OTHER -> [r.snap EXCEPT !.status = r.goal]

(* resume_reset_transition of a story that is fenced returns it unsaved.   *)
Unsaved(r) == r.kind = "reset" /\ r.goal = "Resetting" /\ r.snap.status = "Resetting"

-----------------------------------------------------------------------------
(* The request of a thread moves on, or ends.                              *)

Goto(t, at) == req' = [req EXCEPT ![t].at = at]
Answer(t) == req' = [req EXCEPT ![t] = NoReq]
Aim(r, goal) == [r EXCEPT !.goal = goal, !.snap = NoRow, !.at = "read"]
At(t, kind, at) == req[t].kind = kind /\ req[t].at = at

InPipeline(s) == \E t \in Threads : req[t].story = s /\ req[t].kind \in {"setup", "closure"}

(* The request after its write, and after a refused one.                   *)
Written(r) ==
    CASE r.kind \in Guarded \union {"exit", "split"} -> [r EXCEPT !.snap = NoRow, !.at = "finalize"]
      [] r.kind = "setup" -> [r EXCEPT !.snap = NoRow, !.at = "return"]
      [] r.kind = "closure" -> [r EXCEPT !.snap = NoRow, !.at = "checkpoint"]
      [] r.kind = "reset" /\ r.goal = "Resetting" -> [r EXCEPT !.snap = NoRow, !.at = "fence"]
      [] r.kind = "reset" /\ r.goal = "In Progress" -> [r EXCEPT !.snap = NoRow, !.at = "release"]
      [] OTHER -> NoReq

(* Mutant: a setup whose begin is refused keeps the lock it has taken.     *)
RefusedKeepsLock(r) ==
    CASE r.kind \in Guarded \union {"exit", "split"} -> [r EXCEPT !.snap = NoRow, !.at = "finalize"]
      [] r.kind \in {"setup", "closure"} -> [r EXCEPT !.snap = NoRow, !.at = "failed"]
      [] r.kind = "reset" /\ r.goal # "Reset Failed" -> Aim(r, "Reset Failed")
      [] OTHER -> NoReq

Refused(r) ==
    CASE r.kind \in Guarded \union {"exit", "split"} -> [r EXCEPT !.snap = NoRow, !.at = "finalize"]
      [] r.kind = "setup" /\ r.fresh -> [r EXCEPT !.snap = NoRow, !.at = "compensate"]
      [] r.kind = "closure" \/ (r.kind = "setup" /\ ~r.fresh) ->
            [r EXCEPT !.snap = NoRow, !.at = "failed"]
      [] r.kind = "reset" /\ r.goal # "Reset Failed" -> Aim(r, "Reset Failed")
      [] OTHER -> NoReq

-----------------------------------------------------------------------------
(* The story service.                                                      *)

(* A request reaches the service; a split is gated by the status, a reset  *)
(* is new or resumes the one of its id.                                    *)
Send(t, k, s, o) ==
    /\ req[t] = NoReq
    /\ events < MaxEvents /\ events' = events + 1
    /\ k = "split" => row[s].status = "In Progress"
    /\ k = "reset" => \/ ops[o] = NoOp
                      \/ ops[o].body = "reset" /\ ops[o].story = s
    /\ req' = [req EXCEPT ![t] = [NoReq EXCEPT !.kind = k, !.story = s, !.op = o,
                    !.at = IF k \in {"exit", "split"} THEN "fence" ELSE "read",
                    !.goal = Target(k)]]
    /\ UNCHANGED <<row, ops, run, locks, failed, crashes>>

get_story(t) ==
    /\ req[t].at = "read"
    /\ req' = [req EXCEPT ![t].snap = row[req[t].story],
                          ![t].at = IF req[t].kind \in Guarded \union {"exit", "split"}
                                    THEN "claim" ELSE "save"]
    /\ UNCHANGED <<row, ops, run, locks, bounds>>

(* _reject_if_spec_frozen: while the story has an active run, a patch of a *)
(* load-bearing field (the mode is one, the title is not) is refused.      *)
SpecFrozen(r) == r.kind = "patch_mode" /\ regime[r.story]

(* The spec freeze, then the guard's claim.  A row that is there already   *)
(* (claimed, committed or failed, of this operation or of another) answers *)
(* the request: in flight, replay, mismatch or conflict.                   *)
ClaimOp(t) ==
    LET r == req[t]
    IN  /\ r.at = "claim"
        /\ \/ /\ ~SpecFrozen(r) /\ ops[r.op] = NoOp
              /\ ops' = [ops EXCEPT ![r.op] = [body |-> r.kind, story |-> r.story,
                                               status |-> "claimed"]]
              /\ Goto(t, "save")
           \/ /\ SpecFrozen(r) \/ ops[r.op] # NoOp
              /\ Answer(t) /\ UNCHANGED ops
        /\ UNCHANGED <<row, run, locks, bounds>>

(* StoryRepository.save: the whole row, whatever it holds by now.          *)
Save(t) ==
    LET r == req[t]
    IN  /\ r.at = "save"
        /\ \/ /\ check_transition(r)
              /\ row' = IF Unsaved(r) THEN row ELSE [row EXCEPT ![r.story] = Changed(r)]
              /\ req' = [req EXCEPT ![t] = Written(r)]
           \/ /\ ~check_transition(r)
              /\ req' = [req EXCEPT ![t] = Refused(r)] /\ UNCHANGED row
        /\ UNCHANGED <<ops, run, locks, bounds>>

(* _run_claimed: a failure that is no outcome gives the op_id back, unless *)
(* somebody else ended the operation.                                      *)
ReleaseOp(t) ==
    LET r == req[t]
    IN  /\ r.at = "save" /\ r.kind \in Guarded
        /\ ops' = [ops EXCEPT ![r.op] = IF @.status = "claimed" THEN NoOp ELSE @]
        /\ Answer(t)
        /\ UNCHANGED <<row, run, locks, bounds>>

(* finalize of the result or of the domain error; the caller whose claim   *)
(* was ended meanwhile is told so.                                         *)
FinalizeOp(t) ==
    LET r == req[t]
    IN  /\ r.at = "finalize"
        /\ ops' = [ops EXCEPT ![r.op].status = IF @ = "claimed" THEN "committed" ELSE @]
        /\ Answer(t)
        /\ UNCHANGED <<row, run, locks, bounds>>

-----------------------------------------------------------------------------
(* Exit, split and reset.                                                  *)

Own(r, body) == ops[r.op].body = body /\ ops[r.op].story = r.story

(* StoryExitService._acquire_claim: the exit of a bound run claims exit_id.*)
AcquireExitClaim(t) ==
    LET r == req[t]
        done == Own(r, "exit_fence") /\ ops[r.op].status = "committed"
    IN  /\ At(t, "exit", "fence")
        /\ \/ /\ ops[r.op] = NoOp /\ regime[r.story]
              /\ ops' = [ops EXCEPT ![r.op] = [body |-> "exit_fence", story |-> r.story,
                                               status |-> "claimed"]]
              /\ Goto(t, "teardown")
           \/ done /\ Goto(t, "teardown") /\ UNCHANGED ops
           \/ /\ ~done /\ ~(ops[r.op] = NoOp /\ regime[r.story])
              /\ Answer(t) /\ UNCHANGED ops
        /\ UNCHANGED <<row, run, locks, bounds>>

(* _commit_teardown: one transaction ends ownership and the operation.     *)
CommitTeardown(t) ==
    LET r == req[t]
        live == ops[r.op].status = "claimed" /\ regime[r.story]
    IN  /\ At(t, "exit", "teardown")
        /\ \/ /\ live
              /\ ops' = [ops EXCEPT ![r.op].status = "committed"]
              /\ regime' = [regime EXCEPT ![r.story] = FALSE]
              /\ Goto(t, "read")
           \/ ops[r.op].status = "committed" /\ Goto(t, "read") /\ UNCHANGED <<ops, regime>>
           \/ /\ ~live /\ ops[r.op].status # "committed"
              /\ Answer(t) /\ UNCHANGED <<ops, regime>>
        /\ UNCHANGED <<row, ctx, setup, closure, locks, bounds>>

(* StorySplitService._commit_terminal_transition: the committed fence of   *)
(* split_id, which a later call of the same plan resumes.                  *)
CommitSplitFence(t) ==
    LET r == req[t]
    IN  /\ At(t, "split", "fence")
        /\ \/ /\ ops[r.op] = NoOp \/ Own(r, "split_fence")
              /\ ops' = [ops EXCEPT ![r.op] = [body |-> "split_fence", story |-> r.story,
                                               status |-> "committed"]]
              /\ regime' = [regime EXCEPT ![r.story] = FALSE]
              /\ Goto(t, "read")
           \/ /\ ops[r.op] # NoOp /\ ~Own(r, "split_fence")
              /\ Answer(t) /\ UNCHANGED <<ops, regime>>
        /\ UNCHANGED <<row, ctx, setup, closure, locks, bounds>>

(* StoryResetService._acquire_fence.                                       *)
AcquireResetFence(t) ==
    LET r == req[t]
    IN  /\ At(t, "reset", "fence")
        /\ \/ /\ ops[r.op] = NoOp \/ Own(r, "reset")
              /\ ops' = IF ops[r.op] # NoOp THEN ops
                        ELSE [ops EXCEPT ![r.op] = [body |-> "reset", story |-> r.story,
                                                    status |-> "claimed"]]
              /\ Goto(t, "purge")
           \/ /\ ops[r.op] # NoOp /\ ~Own(r, "reset")
              /\ req' = [req EXCEPT ![t] = Aim(r, "Reset Failed")] /\ UNCHANGED ops
        /\ UNCHANGED <<row, run, locks, bounds>>

(* quiesce_inflight ends the open operations of the story; disowning the   *)
(* run commits the fence, which must still be claimed; then the runtime    *)
(* rows are purged.  Nothing in it touches the mode lock.  A step that     *)
(* fails, before or after disowning, ends in _mark_failed.                 *)
Quiesced(s, mine) ==
    [o \in Ops |-> IF ops[o].story = s /\ ops[o].status = "claimed" /\ o # mine
                   THEN [ops[o] EXCEPT !.status = "failed"] ELSE ops[o]]

PurgeRun(t) ==
    LET r == req[t]
        s == r.story
        disown == regime[s] /\ ops[r.op].status = "claimed"
    IN  /\ At(t, "reset", "purge")
        /\ \/ /\ disown
              /\ ops' = [Quiesced(s, r.op) EXCEPT ![r.op].status = "committed"]
              /\ regime' = [regime EXCEPT ![s] = FALSE]
           \/ ops' = Quiesced(s, r.op) /\ UNCHANGED regime
        /\ \/ /\ ~regime'[s]
              /\ setup' = [setup EXCEPT ![s] = "purged"]
              /\ closure' = [closure EXCEPT ![s] = "purged"]
              /\ req' = [req EXCEPT ![t] = Aim(r, "In Progress")]
           \/ /\ req' = [req EXCEPT ![t] = Aim(r, "Reset Failed")]
              /\ UNCHANGED <<setup, closure>>
        /\ UNCHANGED <<row, ctx, locks, bounds>>

(* FenceAdapter.release: a fence that was ended by somebody else stays.    *)
ReleaseResetFence(t) ==
    /\ At(t, "reset", "release")
    /\ ops' = [ops EXCEPT ![req[t].op].status = IF @ = "claimed" THEN "committed" ELSE @]
    /\ Answer(t)
    /\ UNCHANGED <<row, run, locks, bounds>>

-----------------------------------------------------------------------------
(* The mode lock: one transaction each, under the project's advisory lock. *)

HeldModes == {holder[s] : s \in Stories} \ {"none"}

(* Mutant: a story only looks at its own holder row.                       *)
AcquireUnchecked(s, mode) ==
    /\ holder[s] \in {"none", mode}
    /\ holder' = [holder EXCEPT ![s] = mode]

acquire(s, mode) ==
    /\ holder[s] \in {"none", mode}
    /\ HeldModes \subseteq {mode}
    /\ holder' = [holder EXCEPT ![s] = mode]

release(s) == holder' = [holder EXCEPT ![s] = "none"]

(* A statement on the holder row or a write of the marker file raises.     *)
LockStepFails(s) ==
    /\ events < MaxEvents /\ events' = events + 1
    /\ failed' = failed \union {s}
    /\ UNCHANGED crashes

-----------------------------------------------------------------------------
(* Setup.                                                                  *)

StartSetup(t, s) ==
    /\ req[t] = NoReq /\ ~InPipeline(s)
    /\ \/ setup[s] = "none"
       \/ setup[s] = "paused" /\ regime[s]
    /\ req' = [req EXCEPT ![t] = [NoReq EXCEPT !.kind = "setup", !.story = s, !.at = "preflight"]]
    /\ UNCHANGED <<row, ops, run, locks, bounds>>

(* The phase result is saved and the start committed with the ownership.   *)
SetupReturns(t, status) ==
    /\ setup' = [setup EXCEPT ![req[t].story] = status]
    /\ regime' = [regime EXCEPT ![req[t].story] = TRUE]
    /\ Answer(t)

(* Mutant: a refused preflight gives the mode lock back as well.           *)
PreflightCompensates(t) ==
    LET s == req[t].story
        ok == row[s].status = "Approved" /\ HeldModes \subseteq {row[s].mode}
    IN  /\ At(t, "setup", "preflight")
        /\ Goto(t, IF ok THEN "enrich" ELSE "compensate")
        /\ UNCHANGED <<row, ops, run, locks, bounds>>

(* Checks 3 and 10 of the preflight; the other checks fail with Enrich.    *)
Preflight(t) ==
    LET s == req[t].story
        ok == row[s].status = "Approved" /\ HeldModes \subseteq {row[s].mode}
    IN  /\ At(t, "setup", "preflight")
        /\ \/ ok /\ Goto(t, "enrich") /\ UNCHANGED <<setup, regime>>
           \/ ~ok /\ SetupReturns(t, "failed")
        /\ UNCHANGED <<row, ops, ctx, closure, locks, bounds>>

(* The context is built from the story and saved; the edge's reports are   *)
(* awaited, or a later step fails.                                         *)
Enrich(t) ==
    /\ At(t, "setup", "enrich")
    /\ ctx' = [ctx EXCEPT ![req[t].story] = row[req[t].story].mode]
    /\ \/ Goto(t, "acquire") /\ UNCHANGED <<setup, regime>>
       \/ SetupReturns(t, "paused")
       \/ SetupReturns(t, "failed")
    /\ UNCHANGED <<row, ops, closure, locks, bounds>>

(* _acquire_mode_lock: holder and marker must agree before the holder row  *)
(* is taken; they are the story's own and only its pipeline writes them.   *)
AcquireModeLock(t) ==
    LET s == req[t].story
    IN  /\ At(t, "setup", "acquire")
        /\ \/ /\ marker[s] = holder[s]
              /\ acquire(s, ctx[s])
              /\ req' = [req EXCEPT ![t].fresh = holder[s] = "none", ![t].goal = "In Progress",
                                    ![t].at = IF marker[s] = "none" THEN "marker" ELSE "read"]
              /\ UNCHANGED <<setup, regime>>
           \/ /\ \/ marker[s] # holder[s]
                 \/ holder[s] \notin {"none", ctx[s]}
                 \/ ~ (HeldModes \subseteq {ctx[s]})
              /\ SetupReturns(t, "failed") /\ UNCHANGED holder
        /\ UNCHANGED <<row, ops, ctx, closure, marker, bounds>>

(* record_mode_lock_acquired; begin_progress follows.  A marker that cannot *)
(* be written fails the setup, and nothing gives the holder row back.       *)
WriteMarker(t) ==
    LET s == req[t].story
    IN  /\ At(t, "setup", "marker")
        /\ \/ /\ marker' = [marker EXCEPT ![s] = ctx[s]]
              /\ Goto(t, "read") /\ UNCHANGED bounds
           \/ LockStepFails(s) /\ Goto(t, "failed") /\ UNCHANGED marker
        /\ UNCHANGED <<row, ops, run, holder>>

(* _compensate_mode_lock: a release that fails is logged, and the marker is *)
(* cleared all the same.                                                    *)
Compensate(t) ==
    LET s == req[t].story
    IN  /\ At(t, "setup", "compensate")
        /\ \/ release(s) /\ UNCHANGED bounds
           \/ LockStepFails(s) /\ UNCHANGED holder
        /\ Goto(t, "clear")
        /\ UNCHANGED <<row, ops, run, marker>>

(* clear_mode_lock_marker; a file that cannot be removed fails a setup that *)
(* fails already, and is a warning of a closure.                            *)
ClearMarker(t) ==
    LET s == req[t].story
    IN  /\ req[t].at = "clear"
        /\ \/ marker' = [marker EXCEPT ![s] = "none"] /\ UNCHANGED bounds
           \/ LockStepFails(s) /\ UNCHANGED marker
        /\ Goto(t, IF req[t].kind = "setup" THEN "failed" ELSE "return")
        /\ UNCHANGED <<row, ops, run, holder>>

EndSetup(t) ==
    /\ \/ At(t, "setup", "return") /\ SetupReturns(t, "completed")
       \/ At(t, "setup", "failed") /\ SetupReturns(t, "failed")
    /\ UNCHANGED <<row, ops, ctx, closure, locks, bounds>>

-----------------------------------------------------------------------------
(* Closure, from the close of the story on.                                *)

StartClosure(t, s) ==
    /\ req[t] = NoReq /\ ~InPipeline(s)
    /\ setup[s] = "completed" /\ closure[s] = "none" /\ regime[s]
    /\ closure' = [closure EXCEPT ![s] = "running"]
    /\ req' = [req EXCEPT ![t] = [NoReq EXCEPT !.kind = "closure", !.story = s, !.at = "read",
                                               !.goal = "Done"]]
    /\ UNCHANGED <<row, ops, regime, ctx, setup, locks, bounds>>

(* _persist(story_closed=True); metrics and postflight follow.             *)
CheckpointClosed(t) ==
    /\ At(t, "closure", "checkpoint")
    /\ closure' = [closure EXCEPT ![req[t].story] = "closed"]
    /\ Goto(t, "release")
    /\ UNCHANGED <<row, ops, regime, ctx, setup, locks, bounds>>

(* ProductiveModeLockReleasePort.release: a holder whose marker is missing *)
(* or different is left alone with a warning, and so are both when the run *)
(* of the story or the statement fails.  Closure completes with any.       *)
ReleaseModeLock(t) ==
    LET s == req[t].story
    IN  /\ At(t, "closure", "release")
        /\ \/ /\ holder[s] # "none" /\ marker[s] = holder[s]
              /\ release(s) /\ Goto(t, "clear") /\ UNCHANGED bounds
           \/ /\ holder[s] = "none" \/ marker[s] # holder[s]
              /\ Goto(t, "return") /\ UNCHANGED <<holder, bounds>>
           \/ LockStepFails(s) /\ Goto(t, "return") /\ UNCHANGED holder
        /\ UNCHANGED <<row, ops, run, marker>>

(* The result is saved.  closure_complete, which the control plane commits  *)
(* for the session afterwards, ends the session's binding and leaves the    *)
(* ownership record of the run active: it changes nothing that is kept here.*)
EndClosure(t) ==
    /\ \/ /\ At(t, "closure", "return")
          /\ closure' = [closure EXCEPT ![req[t].story] = "completed"]
       \/ /\ At(t, "closure", "failed")
          /\ closure' = [closure EXCEPT ![req[t].story] = "failed"]
    /\ Answer(t)
    /\ UNCHANGED <<row, ops, regime, ctx, setup, locks, bounds>>

-----------------------------------------------------------------------------
(* The process dies with its requests; the next one ends their operations  *)
(* and claims before it serves (startup_reconcile).                        *)
Crash ==
    /\ events < MaxEvents /\ events' = events + 1
    /\ \E t \in Threads : req[t] # NoReq
    /\ crashes' = crashes + 1
    /\ req' = [t \in Threads |-> NoReq]
    /\ ops' = [o \in Ops |-> IF ops[o].status = "claimed"
                             THEN [ops[o] EXCEPT !.status = "failed"] ELSE ops[o]]
    /\ UNCHANGED <<row, run, locks, failed>>

Init ==
    /\ row \in [Stories -> [status : Created, mode : Modes]]
    /\ ops = [o \in Ops |-> NoOp]
    /\ regime = [s \in Stories |-> FALSE]
    /\ holder = [s \in Stories |-> "none"]
    /\ marker = [s \in Stories |-> "none"]
    /\ ctx = [s \in Stories |-> "none"]
    /\ setup = [s \in Stories |-> "none"]
    /\ closure = [s \in Stories |-> "none"]
    /\ req = [t \in Threads |-> NoReq]
    /\ failed = {} /\ events = 0 /\ crashes = 0

Step(t) ==
    \/ get_story(t) \/ ClaimOp(t) \/ Save(t) \/ ReleaseOp(t) \/ FinalizeOp(t)
    \/ AcquireExitClaim(t) \/ CommitTeardown(t) \/ CommitSplitFence(t)
    \/ AcquireResetFence(t) \/ PurgeRun(t) \/ ReleaseResetFence(t)
    \/ Preflight(t) \/ Enrich(t) \/ AcquireModeLock(t) \/ WriteMarker(t)
    \/ Compensate(t) \/ ClearMarker(t) \/ EndSetup(t)
    \/ CheckpointClosed(t) \/ ReleaseModeLock(t) \/ EndClosure(t)

Next ==
    \/ \E t \in Threads : Step(t)
    \/ \E t \in Threads, k \in Kinds \ {"setup", "closure"}, s \in Stories, o \in Ops :
           Send(t, k, s, o)
    \/ \E t \in Threads, s \in Stories : StartSetup(t, s) \/ StartClosure(t, s)
    \/ Crash

Spec == Init /\ [][Next]_vars

-----------------------------------------------------------------------------
(* Types and every position a request can be at.                           *)
TypeOK ==
    /\ row \in [Stories -> Rows]
    /\ \A o \in Ops : ops[o].status \in {"none", "claimed", "committed", "failed"}
    /\ regime \in [Stories -> BOOLEAN]
    /\ holder \in [Stories -> Modes \union {"none"}]
    /\ marker \in [Stories -> Modes \union {"none"}]
    /\ ctx \in [Stories -> Modes \union {"none"}]
    /\ setup \in [Stories -> {"none", "paused", "failed", "completed", "purged"}]
    /\ closure \in [Stories -> {"none", "running", "closed", "failed", "completed", "purged"}]
    /\ \A t \in Threads : /\ req[t].kind \in AllKinds \union {"none"}
                          /\ req[t].snap \in Rows \union {NoRow}
    /\ failed \subseteq Stories
    /\ events \in 0..MaxEvents /\ crashes \in 0..events

InRun(s) == setup[s] = "completed" /\ closure[s] \in {"none", "running", "failed"}

(* Fast and standard stories exclude one another (mode_lock_repository,    *)
(* Preflight check 10): two stories between the end of setup and the close *)
(* have been set up in the same mode, whatever was patched, rejected or    *)
(* crashed while either was being set up.                                  *)
ModesExcluded == \A s1, s2 \in Stories : InRun(s1) /\ InRun(s2) => ctx[s1] = ctx[s2]

(* A story that is In Progress, or fenced by a reset, holds the mode lock  *)
(* until its closure has closed it or the reset has purged its run:        *)
(* acquire comes before begin_progress, and neither a refused begin, nor a *)
(* stale field update, nor a crash, exit or split drops the holder of a    *)
(* story that did begin.                                                   *)
InProgressIsLocked ==
    \A s \in Stories :
        /\ row[s].status \in {"In Progress", "Resetting", "Reset Failed"}
        /\ setup[s] # "purged"
        => holder[s] # "none" \/ closure[s] \in {"closed", "completed"}

(* While no process has died, the lock of a story none of whose steps on   *)
(* it has failed has the life of the run: a holder belongs to a setup that *)
(* is past the acquire or to a run that is not closed, and the marker file *)
(* says what the holder row says unless it is about to be written or       *)
(* cleared.  So nothing but a failing step of its own story, or a crash,   *)
(* leaves a holder behind, whatever begins are refused and requests race.  *)
LockFollowsRun ==
    crashes = 0 => \A s \in Stories \ failed :
        /\ holder[s] # "none" =>
              \/ setup[s] \in {"completed", "purged"} /\ closure[s] # "completed"
              \/ \E t \in Threads : req[t].kind = "setup" /\ req[t].story = s
        /\ marker[s] # holder[s] =>
              \E t \in Threads : req[t].story = s /\ req[t].at \in {"marker", "clear"}

(* A story whose closure has completed has given its lock back (violated:  *)
(* see the README).                                                        *)
ClosedStoryIsUnlocked ==
    crashes = 0 => \A s \in Stories : closure[s] = "completed" => holder[s] = "none"

(* An operation that has ended a run as exit or split cancels its story:   *)
(* once no request works on it, the story is not In Progress any more.     *)
EndedIsCancelled ==
    \A o \in Ops :
        /\ ops[o].body \in {"exit_fence", "split_fence"} /\ ops[o].status = "committed"
        /\ \A t \in Threads : req[t].op # o
        => row[ops[o].story].status # "In Progress"

(* The status of a story changes only along the transition table, or by    *)
(* the administrative cancel of exit and split.                            *)
LegalTransitions ==
    [][\A s \in Stories : row'[s].status # row[s].status =>
          \/ <<row[s].status, row'[s].status>> \in AllowedTransitions
          \/ row[s].status = "In Progress" /\ row'[s].status = "Cancelled"]_vars

=============================================================================
