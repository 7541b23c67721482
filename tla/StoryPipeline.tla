--------------------------- MODULE StoryPipeline ---------------------------
(***************************************************************************)
(* One story's way through the pipeline: the phase dispatcher, the engine  *)
(* that runs one phase per dispatch, and the four phase handlers.          *)
(*                                                                         *)
(* Everything an attempt leaves behind is written in separate database     *)
(* transactions: the flow entry, the checkpoints of closure, the attempt   *)
(* record with the phase state, the snapshot, the flow entry again and the *)
(* node ledger.  The process may crash between any two of them, and a      *)
(* blocking freeze may be entered at any time.  The claims of              *)
(* OperationLedger admit one dispatch of a story at a time; the next one   *)
(* builds a new engine, which knows only what the database holds.          *)
(*                                                                         *)
(* What the handlers compute (reviews, builds, reports of the edge) is a   *)
(* free choice among the results their code can return.  The retry,        *)
(* override and execution policies and the preconditions of the engine are *)
(* left out: none of the four workflow definitions sets one.               *)
(***************************************************************************)
EXTENDS Naturals, Sequences, FiniteSets, SequencesExt

CONSTANTS
    Kinds,           \* kinds of stories of the instance, a subset of AllKinds
    MaxDispatches,   \* bound on dispatches that reach the engine
    MaxCrashes,      \* bound on crashes
    MaxFreezes       \* bound on governance freezes

(* implementation and bugfix stories by the route of their context, and    *)
(* the stories that produce no code (concept, research)                    *)
AllKinds == {"explore", "execute", "fast", "paper"}

ASSUME StoryPipelineAssumption ==
    /\ Kinds \subseteq AllKinds
    /\ MaxDispatches \in Nat /\ MaxCrashes \in Nat /\ MaxFreezes \in Nat

VARIABLES
    kind,        \* story type and route of the story context
    closureOk,   \* closure_allowed of the story context
    state,       \* the phase_states row of the story
    attempts,    \* attempts rows, by run, phase and number
    snapshots,   \* phases with a COMPLETED row in phase_snapshots
    flow,        \* the flow_executions row
    nodes,       \* node_execution_ledger, by phase
    merged,      \* the edge merged the candidate into main
    done,        \* the story service holds the story as Done
    frozen,      \* a blocking freeze of the story is active
    admitted,    \* the run holds the active ownership record
    job,         \* the dispatch that is running
    reply,       \* the answer to the last dispatch
    dispatches, crashes, freezes

rows == <<state, attempts, snapshots, flow, nodes>>
effects == <<merged, done, closureOk>>
bounds == <<dispatches, crashes, freezes>>
vars == <<kind, rows, effects, frozen, admitted, job, reply, bounds>>

Phases == {"setup", "exploration", "implementation", "closure"}
Triggers == {"edge_report_received", "edge_deadline_elapsed", "design_approved",
             "design_rejected", "challenge_resolved", "no_trigger"}
Checkpoints == {"integrity_passed", "story_branch_pushed", "merge_done",
                "story_closed", "metrics_written", "postflight_done"}

NoState == [phase |-> "none", status |-> "NONE", gate |-> "none", progress |-> {}]
NoFlow == [run |-> 0, status |-> "NONE", node |-> "none"]
NoJob == [engine |-> 0, phase |-> "none", at |-> "idle", start |-> NoState,
          resumed |-> FALSE, progress |-> {}, result |-> NoState]
NoReply == [phase |-> "none", status |-> "none", attempt |-> FALSE]

(* An answer of the dispatcher without the id of an attempt.               *)
NoAttempt(phase, status) == [phase |-> phase, status |-> status, attempt |-> FALSE]

-----------------------------------------------------------------------------
(* The workflow definitions.                                               *)

IsCode(k) == k # "paper"

(* Outgoing edges of a phase in the order of their definition, each with   *)
(* the value of its guard for the story and the persisted phase state.     *)
get_transitions_from(k, s) ==
    CASE s.phase = "setup" /\ IsCode(k) ->
            << <<"exploration", k = "explore">>, <<"implementation", k # "explore">> >>
      [] s.phase = "setup" /\ ~IsCode(k) -> << <<"implementation", TRUE>> >>
      [] s.phase = "exploration" ->
            << <<"implementation", s.status = "COMPLETED" /\ s.gate = "APPROVED">> >>
      [] s.phase = "implementation" ->
            << <<"closure", IsCode(k) => s.status = "COMPLETED">> >>
      [] OTHER -> << >>

(* Triggers that resume a phase PAUSED for a report of the edge.  The      *)
(* design review and challenge points of exploration have other reasons,   *)
(* which no handler pauses with; closure has no yield point.               *)
EdgeTriggers(phase) ==
    CASE phase = "setup" -> {"edge_report_received"}
      [] phase = "implementation" -> {"edge_report_received", "edge_deadline_elapsed"}
      [] OTHER -> {}

(* The phases whose snapshots closure asks for.                            *)
prior_phases(k) ==
    CASE k \in {"explore", "execute"} -> {"setup", "exploration", "implementation"}
      [] OTHER -> {"setup", "implementation"}

(* The phases a story of this kind is routed through (routing_rules).      *)
get_phases_for_story(k) ==
    IF k = "explore" THEN <<"setup", "exploration", "implementation", "closure">>
                     ELSE <<"setup", "implementation", "closure">>

-----------------------------------------------------------------------------
(* The dispatcher.                                                         *)

first_passing_edge(k, s) ==
    LET edges == get_transitions_from(k, s)
        passing == {i \in DOMAIN edges : edges[i][2]}
    IN  IF passing = {} THEN "none"
        ELSE edges[CHOOSE i \in passing : \A j \in passing : i <= j][1]

(* Mutant: a phase whose predecessor has not completed is entered as well. *)
StateAdmitsAnyPredecessor(phase) ==
    \/ state = NoState
    \/ state.phase = phase /\ state.status = "PAUSED"
    \/ state.phase # phase /\ first_passing_edge(kind, [state EXCEPT !.status = "COMPLETED"]) = phase

(* Mutant: a phase may be started again whatever came of it.               *)
StateAdmitsRestart(phase) ==
    \/ state = NoState
    \/ state.phase = phase
    \/ state.status = "COMPLETED" /\ first_passing_edge(kind, state) = phase

(* _state_reentry_rejection: a phase that has run is only resumed, and     *)
(* another one is entered along the edge the engine would take.            *)
StateAdmits(phase) ==
    \/ state = NoState
    \/ state.phase = phase /\ state.status = "PAUSED"
    \/ /\ state.phase # phase
       /\ state.status = "COMPLETED"
       /\ first_passing_edge(kind, state) = phase

IsResume(phase) == state.phase = phase /\ state.status = "PAUSED"

(* What stands in the way of a dispatch before the engine is called.  The  *)
(* pre-start guard, which only a fresh run meets, may reject as well.      *)
Rejected(phase, trigger) ==
    \/ ~admitted /\ phase # "setup"
    \/ ~StateAdmits(phase)
    \/ IsResume(phase) /\ trigger = "no_trigger"

Dispatch(phase, trigger) ==
    /\ job = NoJob
    /\ \/ /\ Rejected(phase, trigger) \/ ~admitted
          /\ reply' = NoAttempt(phase, "rejected")
          /\ UNCHANGED <<flow, job, dispatches>>
       \/ (* resume_phase: the trigger belongs to no yield point.  The engine *)
          (* says "failed" without an attempt, and leaves the phase PAUSED.  *)
          /\ ~Rejected(phase, trigger) /\ IsResume(phase)
          /\ trigger \notin EdgeTriggers(phase)
          /\ reply' = NoAttempt(phase, "failed")
          /\ UNCHANGED <<flow, job, dispatches>>
       \/ /\ ~Rejected(phase, trigger)
          /\ IsResume(phase) => trigger \in EdgeTriggers(phase)
          /\ dispatches < MaxDispatches
          /\ dispatches' = dispatches + 1
          /\ LET start == IF state.phase = phase THEN state
                          ELSE [NoState EXCEPT !.phase = phase, !.status = "PENDING"]
             IN  job' = [NoJob EXCEPT !.engine = dispatches + 1, !.phase = phase, !.at = "handler",
                                      !.start = start, !.resumed = IsResume(phase),
                                      !.progress = start.progress]
          /\ flow' = IF IsResume(phase) THEN flow
                     ELSE [run |-> IF flow = NoFlow THEN dispatches + 1 ELSE flow.run,
                           status |-> "IN_PROGRESS", node |-> phase]
          /\ reply' = NoReply
    /\ UNCHANGED <<kind, state, attempts, snapshots, nodes, effects, frozen, admitted,
                   crashes, freezes>>

-----------------------------------------------------------------------------
(* What a handler returns: the phase state to persist with its status.     *)
(* "updated_state" carries what the handler wants kept; a result without   *)
(* one makes the engine build on the state it started from.                *)

Keep(status) == [job.start EXCEPT !.status = status]

ExplorationResults ==
    {[job.start EXCEPT !.status = s, !.gate = "PENDING"] : s \in {"IN_PROGRESS", "ESCALATED", "FAILED"}}
    \cup {[job.start EXCEPT !.status = "ESCALATED", !.gate = "REJECTED"],
          [job.start EXCEPT !.status = "FAILED", !.gate = "APPROVED"],
          [job.start EXCEPT !.status = "COMPLETED", !.gate = "APPROVED"]}

HandlerResults(phase) ==
    CASE phase = "setup" -> {Keep(s) : s \in {"FAILED", "COMPLETED"}}
                            \cup (IF IsCode(kind) THEN {Keep("PAUSED")} ELSE {})
      [] phase = "exploration" -> ExplorationResults
      [] phase = "implementation" ->
            {Keep(s) : s \in {"PAUSED", "IN_PROGRESS", "ESCALATED", "FAILED", "COMPLETED"}}

(* The follow-up flags that exploration and implementation write into the  *)
(* story context themselves, before the engine persists their result.      *)
FollowUp(r) ==
    closureOk' = CASE r.phase = "exploration" /\ r.gate = "APPROVED" /\ r.status = "COMPLETED" -> "no"
                   [] r.phase = "implementation" /\ r.status = "COMPLETED" /\ IsCode(kind) -> "yes"
                   [] OTHER -> closureOk

Return(r) == job' = [job EXCEPT !.at = "save", !.result = r]

(* on_enter and on_resume of setup, exploration and implementation.        *)
HandlerReturns ==
    /\ job.at = "handler" /\ job.phase # "closure"
    /\ \E r \in HandlerResults(job.phase) : Return(r) /\ FollowUp(r)
    /\ UNCHANGED <<kind, rows, merged, done, frozen, admitted, reply, bounds>>

(* _handle_handler_exception: FAILED, built on the state at the start.     *)
HandlerRaises ==
    /\ job.at \in {"handler", "closure", "checkpoint"}
    /\ Return(Keep("FAILED"))
    /\ UNCHANGED <<kind, rows, effects, frozen, admitted, reply, bounds>>

-----------------------------------------------------------------------------
(* The closure handler.  Its checkpoints are written to the phase state    *)
(* while it runs.                                                          *)

ClosureState(progress, status) ==
    [phase |-> "closure", status |-> status, gate |-> "none", progress |-> progress]

persist(progress) ==
    /\ state' = ClosureState(progress, "IN_PROGRESS")
    /\ job' = [job EXCEPT !.at = "closure", !.progress = progress]

escalated ==
    /\ state' = ClosureState(job.progress, "ESCALATED")
    /\ Return(ClosureState(job.progress, "ESCALATED"))

(* The first step that the recorded progress leaves open.                  *)
OpenStep ==
    LET p == job.progress
    IN  IF "merge_done" \notin p
        THEN IF ~IsCode(kind) THEN "no_merge"
             ELSE IF "story_branch_pushed" \notin p THEN "prepare"
             ELSE IF "integrity_passed" \notin p THEN "verify"
             ELSE "execute"
        ELSE IF "story_closed" \notin p THEN "close"
        ELSE IF "metrics_written" \notin p THEN "metrics"
        ELSE IF "postflight_done" \notin p THEN "postflight"
        ELSE "report"

At(step) == job.at = "closure" /\ OpenStep = step

closureFrame == UNCHANGED <<kind, attempts, snapshots, flow, nodes, closureOk, frozen,
                            admitted, reply, bounds>>

(* The checks before the sequence: terminality of the implementation and,  *)
(* on entry, the snapshots of the earlier phases; then wiring and the      *)
(* preconditions of an integration story.                                  *)
ClosureEnters ==
    /\ job.at = "handler" /\ job.phase = "closure"
    /\ LET blocked == IsCode(kind) /\ closureOk = "no"
           missing == ~job.resumed /\ ~(prior_phases(kind) \subseteq snapshots)
       IN  \/ IsCode(kind) /\ escalated
           \/ ~blocked /\ Return(Keep("FAILED")) /\ UNCHANGED state
           \/ /\ ~blocked /\ ~missing
              /\ job' = [job EXCEPT !.at = "closure"]
              /\ UNCHANGED state
    /\ UNCHANGED <<merged, done>> /\ closureFrame

(* Finding resolution, telemetry evidence, closure-entry barrier, the      *)
(* candidate reported by the edge.                                         *)
PrepareEdgeMerge ==
    /\ At("prepare")
    /\ escalated \/ persist(job.progress \cup {"story_branch_pushed"})
    /\ UNCHANGED <<merged, done>> /\ closureFrame

(* Build and test of the candidate and, unless fast, the integrity gate.   *)
VerifyEdgeMerge ==
    /\ At("verify")
    /\ escalated \/ persist(job.progress \cup {"integrity_passed"})
    /\ UNCHANGED <<merged, done>> /\ closureFrame

(* merge_local: open at the edge, refused, or reported as merged.          *)
ExecuteEdgeMerge ==
    /\ At("execute")
    /\ \/ Return(Keep("PAUSED")) /\ UNCHANGED <<state, merged>>
       \/ escalated /\ UNCHANGED merged
       \/ persist(job.progress \cup {"merge_done"}) /\ merged' = TRUE
    /\ UNCHANGED done /\ closureFrame

(* A story without code has nothing to merge.                              *)
SkipMerge ==
    /\ At("no_merge")
    /\ persist(job.progress \cup {"integrity_passed", "story_branch_pushed", "merge_done"})
    /\ UNCHANGED <<merged, done>> /\ closureFrame

(* Mutant: the story is completed before the merge is known.               *)
CloseStoryEarly ==
    /\ job.at = "closure" /\ "story_closed" \notin job.progress
    /\ done' = TRUE
    /\ job' = [job EXCEPT !.at = "checkpoint"]
    /\ UNCHANGED <<state, merged>> /\ closureFrame

(* complete_story and, in a second transaction, its checkpoint.            *)
CloseStory ==
    /\ At("close")
    /\ \/ Return(Keep("FAILED")) /\ UNCHANGED done
       \/ done' = TRUE /\ job' = [job EXCEPT !.at = "checkpoint"]
    /\ UNCHANGED <<state, merged>> /\ closureFrame

CheckpointClosed ==
    /\ job.at = "checkpoint"
    /\ persist(job.progress \cup {"story_closed"})
    /\ UNCHANGED <<merged, done>> /\ closureFrame

WriteMetrics ==
    /\ At("metrics")
    /\ \/ Return(Keep("FAILED")) /\ UNCHANGED state
       \/ persist(job.progress \cup {"metrics_written"})
    /\ UNCHANGED <<merged, done>> /\ closureFrame

(* Finalization, release of the mode lock and the flush of the counters    *)
(* only produce warnings.                                                  *)
Postflight ==
    /\ At("postflight")
    /\ persist(job.progress \cup {"postflight_done"})
    /\ UNCHANGED <<merged, done>> /\ closureFrame

WriteReport ==
    /\ At("report")
    /\ Return(ClosureState(job.progress, "COMPLETED"))
    /\ UNCHANGED <<state, merged, done>> /\ closureFrame

ClosureSteps ==
    \/ ClosureEnters \/ PrepareEdgeMerge \/ VerifyEdgeMerge \/ ExecuteEdgeMerge \/ SkipMerge
    \/ CloseStory \/ CheckpointClosed \/ WriteMetrics \/ Postflight \/ WriteReport

-----------------------------------------------------------------------------
(* The engine persists the result.                                         *)

Outcome(status) == IF status \in {"PAUSED", "IN_PROGRESS"} THEN "YIELDED" ELSE status

resolve_run_id == IF flow = NoFlow THEN job.engine ELSE flow.run

(* The number of the attempt counts the rows of the run id that the engine *)
(* made up for itself, while the rows are stored under the run of the flow. *)
AttemptNumber ==
    1 + Cardinality({k \in DOMAIN attempts : k[1] = job.engine /\ k[2] = job.phase})

Upsert(f, k, v) == [x \in DOMAIN f \cup {k} |-> IF x = k THEN v ELSE f[x]]

(* Mutant: the flow entry is written before the attempt.                   *)
SavePhaseCompletionLate ==
    /\ job.at = "save"
    /\ flow' = [run |-> resolve_run_id, status |-> Outcome(job.result.status), node |-> job.phase]
    /\ job' = [job EXCEPT !.at = "late"]
    /\ UNCHANGED <<kind, state, attempts, snapshots, nodes, effects, frozen, admitted, reply, bounds>>

(* Mutant: a refused write does not end the attempt.                       *)
SavePhaseCompletionSwallows ==
    /\ job.at = "save"
    /\ IF frozen
       THEN UNCHANGED <<attempts, state>>
       ELSE /\ attempts' = Upsert(attempts, <<resolve_run_id, job.phase, AttemptNumber>>,
                                  Outcome(job.result.status))
            /\ state' = job.result
    /\ job' = [job EXCEPT !.at = IF job.result.status = "COMPLETED" THEN "snapshot" ELSE "flow"]
    /\ UNCHANGED <<kind, snapshots, flow, nodes, effects, frozen, admitted, reply, bounds>>

(* save_phase_completion_rows: attempt and phase state in one transaction, *)
(* which an active freeze refuses.  The error ends the dispatch.           *)
SavePhaseCompletion ==
    /\ job.at = "save"
    /\ \/ /\ frozen
          /\ job' = NoJob
          /\ reply' = NoAttempt(job.phase, "error")
          /\ UNCHANGED <<attempts, state>>
       \/ /\ ~frozen
          /\ attempts' = Upsert(attempts, <<resolve_run_id, job.phase, AttemptNumber>>,
                                Outcome(job.result.status))
          /\ state' = job.result
          /\ job' = [job EXCEPT !.at = IF job.result.status = "COMPLETED" THEN "snapshot" ELSE "flow"]
          /\ UNCHANGED reply
    /\ UNCHANGED <<kind, snapshots, flow, nodes, effects, frozen, admitted, bounds>>

SavePhaseSnapshot ==
    /\ job.at = "snapshot"
    /\ snapshots' = snapshots \cup {job.phase}
    /\ job' = [job EXCEPT !.at = "flow"]
    /\ UNCHANGED <<kind, state, attempts, flow, nodes, effects, frozen, admitted, reply, bounds>>

RecordFlowExecution ==
    /\ job.at = "flow"
    /\ flow' = [run |-> resolve_run_id, status |-> Outcome(job.result.status), node |-> job.phase]
    /\ job' = [job EXCEPT !.at = "node"]
    /\ UNCHANGED <<kind, state, attempts, snapshots, nodes, effects, frozen, admitted, reply, bounds>>

EngineStatus(status) ==
    CASE status = "COMPLETED" -> "phase_completed"
      [] status \in {"PAUSED", "IN_PROGRESS"} -> "yielded"
      [] status = "ESCALATED" -> "escalated"
      [] OTHER -> "failed"

(* record_node_outcome; then the engine returns and the control plane      *)
(* commits the operation, which makes the run the admitted one.            *)
RecordNodeOutcome ==
    /\ job.at = "node"
    /\ nodes' = [nodes EXCEPT ![job.phase] =
                    [count |-> @.count + 1,
                     success |-> @.success + (IF job.result.status = "COMPLETED" THEN 1 ELSE 0)]]
    /\ reply' = [phase |-> job.phase, status |-> EngineStatus(job.result.status), attempt |-> TRUE]
    /\ admitted' = TRUE
    /\ job' = NoJob
    /\ UNCHANGED <<kind, state, attempts, snapshots, flow, effects, frozen, bounds>>

-----------------------------------------------------------------------------
(* The surroundings.                                                       *)

Crash ==
    /\ job # NoJob
    /\ crashes < MaxCrashes
    /\ crashes' = crashes + 1
    /\ job' = NoJob
    /\ reply' = NoReply
    /\ UNCHANGED <<kind, rows, effects, frozen, admitted, dispatches, freezes>>

Freeze ==
    /\ ~frozen /\ freezes < MaxFreezes
    /\ frozen' = TRUE /\ freezes' = freezes + 1
    /\ UNCHANGED <<kind, rows, effects, admitted, job, reply, dispatches, crashes>>

Thaw ==
    /\ frozen /\ frozen' = FALSE
    /\ UNCHANGED <<kind, rows, effects, admitted, job, reply, bounds>>

Init ==
    /\ kind \in Kinds
    /\ closureOk = "unset"
    /\ state = NoState /\ attempts = << >> /\ snapshots = {}
    /\ flow = NoFlow
    /\ nodes = [p \in Phases |-> [count |-> 0, success |-> 0]]
    /\ merged = FALSE /\ done = FALSE /\ frozen = FALSE /\ admitted = FALSE
    /\ job = NoJob /\ reply = NoReply
    /\ dispatches = 0 /\ crashes = 0 /\ freezes = 0

EngineSteps ==
    \/ HandlerReturns \/ HandlerRaises \/ ClosureSteps
    \/ SavePhaseCompletion \/ SavePhaseSnapshot \/ RecordFlowExecution \/ RecordNodeOutcome

Next ==
    \/ \E phase \in Phases, trigger \in Triggers : Dispatch(phase, trigger)
    \/ EngineSteps
    \/ Crash \/ Freeze \/ Thaw

Spec == Init /\ [][Next]_vars

-----------------------------------------------------------------------------
(* Properties.                                                             *)

Statuses == {"NONE", "PENDING", "IN_PROGRESS", "PAUSED", "COMPLETED", "FAILED", "ESCALATED"}
StateType == [phase : Phases \cup {"none"}, status : Statuses,
              gate : {"none", "PENDING", "APPROVED", "REJECTED"}, progress : SUBSET Checkpoints]
Outcomes == {"COMPLETED", "YIELDED", "FAILED", "ESCALATED"}

(* The types of the rows of the pipeline tables and of the dispatch.       *)
TypeOK ==
    /\ kind \in Kinds /\ closureOk \in {"unset", "no", "yes"}
    /\ state \in StateType
    /\ \A k \in DOMAIN attempts : k[2] \in Phases /\ attempts[k] \in Outcomes
    /\ snapshots \subseteq Phases
    /\ flow.status \in Outcomes \cup {"NONE", "IN_PROGRESS"}
    /\ \A p \in Phases : nodes[p].success <= nodes[p].count
    /\ {merged, done, frozen, admitted} \subseteq BOOLEAN
    /\ job.start \in StateType /\ job.result \in StateType
    /\ job.at \in {"idle", "handler", "closure", "checkpoint", "save", "snapshot", "flow", "node"}

Recorded(phase, outcome) == \E k \in DOMAIN attempts : k[2] = phase /\ attempts[k] = outcome

(* Phases that come before p on the route of the story.                    *)
Before(p) ==
    LET route == get_phases_for_story(kind)
    IN  {route[i] : i \in {j \in DOMAIN route : \E n \in DOMAIN route : j < n /\ route[n] = p}}

(* No phase is persisted or executed before every earlier phase of the     *)
(* story's own route has a COMPLETED attempt, and exploration only for a   *)
(* story routed through it, whatever crashes and rejected calls came       *)
(* between (dispatch.py, _enforce_transition).                             *)
RouteFollowed ==
    \A p \in {state.phase, job.phase} \ {"none"} :
        /\ p \in ToSet(get_phases_for_story(kind))
        /\ \A q \in Before(p) : Recorded(q, "COMPLETED")

(* Crash safety of the write order: a flow entry that says how a phase     *)
(* ended, or a snapshot, is never found without the attempt record that    *)
(* ended so (result_handling.py, "AttemptRecord FIRST").                   *)
LedgersBackedByAttempt ==
    /\ flow.status \in {"COMPLETED", "FAILED", "ESCALATED"} => Recorded(flow.node, flow.status)
    /\ \A p \in snapshots : Recorded(p, "COMPLETED")

(* Attempt numbers repeat, so an upsert may hit an older row; the record   *)
(* of a completed phase is nevertheless never overwritten                  *)
(* (runtime_state.py, generate_attempt_id; save_phase_completion_rows).    *)
CompletedIsFinal ==
    [][\A k \in DOMAIN attempts :
          attempts[k] = "COMPLETED" => k \in DOMAIN attempts' /\ attempts'[k] = "COMPLETED"]_vars

(* A story is Done only when its implementation has passed and, if it      *)
(* produces code, its candidate was merged (closure/phase.py,              *)
(* _run_sequence).                                                         *)
DoneIsEarned == done => Recorded("implementation", "COMPLETED") /\ (IsCode(kind) => merged)

(* What the caller was told of an attempt is what the database says of its *)
(* phase, also when a freeze refused a write in between; and one that was  *)
(* told that a phase has failed without an attempt finds it where it was,  *)
(* still PAUSED for a resume (engine.py, run_phase and resume_phase).      *)
ReplyIsDurable ==
    /\ reply.attempt =>
          /\ state.phase = reply.phase
          /\ EngineStatus(state.status) = reply.status
    /\ reply.status = "failed" /\ ~reply.attempt =>
          state.phase = reply.phase /\ state.status = "PAUSED"

(* What the caller was told of a phase is what the database says of it     *)
(* (violated: see the README).                                             *)
ToldAsRecorded ==
    reply.status = "failed" => state.phase = reply.phase /\ state.status = "FAILED"

(* What result_handling.py and closure/phase.py say of a yielded phase:    *)
(* the caller can invoke it again and the work goes on.                    *)
YieldedCanContinue ==
    job = NoJob /\ reply.status = "yielded" =>
        \E t \in Triggers :
            /\ ~Rejected(state.phase, t)
            /\ IsResume(state.phase) => t \in EdgeTriggers(state.phase)

(* Closure asks for the snapshots of the phases the story was routed       *)
(* through (process/language/definitions.py, _build_bugfix_workflow).      *)
RouteSatisfiesClosure ==
    job.phase = "closure" /\ job.at = "handler" => prior_phases(kind) \subseteq snapshots

(* A checkpoint that was written is kept (closure/phase.py, _persist and   *)
(* on_resume).                                                             *)
CheckpointsKept ==
    [][state.phase = "closure" => state.progress \subseteq state'.progress]_vars

=============================================================================
