# Formal models of the AgentKit control plane

AgentKit runs stories (units of work for coding agents) through a phase
pipeline. Clients on developer machines only send requests and apply what they
are answered; every decision and all durable state are in one backend process
per database, the control plane. This directory holds TLA+ models of the parts
of it in which several threads, processes and machines meet: what the code does,
properties of it that TLC checks on small instances, and theorems that TLAPS
proves for all instances.

Paths below are relative to `src/src/agentkit/backend/`.

## 1. The system

### 1.1 Parts and how they interact

| part | code | state it keeps | operations | interacts with |
|---|---|---|---|---|
| operation ledger | `control_plane/runtime/_claims.py`, `_admission_start_phase.py`, `_service_resume.py`, `_admission_phase_mutation.py`, `_service_phase_mutation.py`, `_service_closure.py`, `_operation_records.py`; `state_backend/postgres_store/_control_plane_rows.py`, `_mutation_commit_rows.py` | table `control_plane_operations`: one row per op_id (status, owner token, fencing epoch, incarnation, claimed_at, body hash, stored answer) | start, resume, complete, fail a phase; close a run; replay | object claims, dispatcher, run ownership |
| object claims | `control_plane/object_claims.py`, `postgres_store/_ownership_rows.py` | table `object_mutation_claims`: one row per story | acquire, release by op_id | every mutating request |
| administration | `control_plane/runtime/_admin.py` | none of its own | abort a claimed operation, resolve a repair, clear a reconcile obligation | ledger, object claims |
| startup reconciliation | `control_plane/startup_reconcile.py`, `instance_identity.py` | `backend_instance_identity` (instance, incarnation) | boot, finalize orphaned operations, free orphaned claims | ledger, object claims |
| writer lease | `control_plane/writer_lease.py`, `state_backend/store/control_plane_writer_lease.py`, `postgres_store/_writer_lease_runtime.py` | a session-level advisory lock, count of accepted requests | acquire, assert, quiesce, release | the HTTP server, boot |
| dispatcher | `control_plane/dispatch.py` | none of its own | first-call gate, transition check, run or resume a phase | pipeline engine, ledger |
| run ownership | `control_plane/ownership*.py`, `disown.py`, `recovery.py`, `runtime/_ownership_transfer*.py`, `_run_gates.py`, `_recovery.py`, `postgres_store/_takeover_rows.py`, `_ownership_rows.py` | `run_ownership_records` (owner session, epoch, status), session bindings, takeover challenges, approvals and transfer records | admit, fence at commit, request / approve / deny / confirm a takeover, recover, disown | ledger (in the same transactions), push barrier, edge |
| edge commands | `control_plane/edge_commands.py`, `runtime/_edge_commands.py` | `edge_command_records` (open, acked, done, superseded) | commission, list and ack, report a result, supersede | the Project Edge on the client machine |
| push barrier | `control_plane/push_sync.py`, `push_barrier_lifecycle.py`, `push_verification.py` | push freshness, barrier verdicts | evaluate, verify, expire | edge commands, ledger, closure |
| pipeline engine | `pipeline_engine/`, `phase_state_store/` | `flow_executions`, `phase_states`, attempts | run, resume, yield, override a phase | phase handlers |
| phase handlers | `governance/setup_preflight_gate`, `exploration/`, `implementation/`, `closure/` | artifacts, worktrees, merge state | setup, explore, implement, close (multi-repository saga) | verify system, git |
| verify system | `verify_system/` | QA cycle state, findings, verdicts | layered checks, policy, remediation rounds | implementation |
| governance | `governance/` | locks, freezes, guard counters, hook decisions | hooks, guards, integrity gate, conflict freeze | control plane, edge |
| story life cycle | `story_context_manager/`, `story_creation/`, `story_exit/`, `story_reset/`, `story_split/` | stories, their status, reset and split records | create, approve, exit, reset, split | run ownership (disown) |
| execution planning | `execution_planning/` | plans, dependency graph, budgets | readiness, admission | dispatcher |
| telemetry, KPIs, failure corpus | `telemetry/`, `kpi_analytics/`, `failure_corpus/` | event log, fact tables, incidents, patterns | record, project, refresh, promote | everything, read-mostly |
| installer, skills, prompts, configuration | `installer/`, `skills/`, `prompt_runtime/`, `config/`, `project_management/` | files and registrations of a project | checkpoints, bindings | operators |
| state backend | `state_backend/` | the database schema and its drivers | rows and transactions | everything |
| HTTP, auth, CLI, frontend | `control_plane_http/`, `auth/`, `cli/`, `../frontend` | sessions | routing, tokens, tenant scope | control plane |

A mutating request goes through the parts in this order: HTTP server thread
(accepted under the writer lease), replay check on the op_id, repair and freeze
lock, op_id claim, story claim, run admission, dispatcher and pipeline engine
(which commit transactions of their own), finalize (ledger row, ownership
fence, binding, locks and events in one transaction), release of the story
claim. Every arrow is a separate transaction, so threads, administrators and a
crash can come in between any two.

### 1.2 What is hard

* Concurrency: thread per request, no in-memory lock; everything is decided by
  conditional SQL statements.
* Failure: the engine commits before the ledger does; a crash leaves claims and
  partial writes; a release statement can fail on its own.
* Delivery: the frontend aborts a request after 12 s and may send it again with
  the same op_id while the first delivery still runs.
* Ordering: an administrator aborts what an executor is about to finalize; a
  takeover lands between admission and commit; an edge answers a command that
  was superseded.
* Time: no claim and no ownership ends by a timeout, so progress depends on
  refusals (409) and on the startup reconciliation.

### 1.3 What makes each part correct

* Ledger and claims: one application per op_id; one executor per story; an
  abandoned operation is never committed; partial writes are never recorded as
  clean failures; no claim is leaked; a restart ends every old claim; every
  request is answered.
* Run ownership: one active owner per story; the epoch grows with each transfer;
  nothing is committed under an epoch that is no longer current; a takeover is
  confirmed at most once and only on what was shown to the human.
* Edge commands: a command that ended keeps its outcome; only the owner's session
  answers; of the commands of one boundary and repository at most one is open.
* Push barrier: a verdict passes only on an edge report and a server read that
  agree, made in its own boundary and ownership epoch; no verdict stays pending
  while its commands can end.
* Writer lease: nothing is committed without the lock; an atomic operation and its
  effect exist together or not at all; a serving process has the latest
  incarnation; a stop waits for what it accepted; a lost session ends the process.
* Pipeline, dispatcher, handlers: phases in the order of the story's route; what
  the other ledgers and the client say is backed by an attempt record; a
  completed phase stays completed; a story is Done only after its merge.
* Story life cycle and mode lock: fast and standard stories are never worked on at
  the same time; a story that is In Progress holds the lock of its mode; lock,
  marker and run agree; a status changes only along its table.

## 2. Modules

| module | models | status |
|---|---|---|
| `OperationLedger`, `MCOperationLedger` | operation ledger, object claims, administration, startup reconciliation, and the calls into the dispatcher and the engine | done |
| `IdempotentLedger` | abstract specification: an op_id is unused, running, or has one outcome, and a client told of a success is told the truth; `OperationLedger` restricted to start and resume implements it | done |
| `RunOwnership`, `MCRunOwnership` | admission, the commit fence, takeover from request to reconciliation, recovery, freezes, exit, reset and split | done |
| `PushBarrier`, `MCPushBarrier` | edge commands of a push boundary, the edge that executes them, freshness and verdicts, the boundary check, the commit hook | done |
| `WriterLease`, `MCWriterLease` | advisory lock, startup, requests of idempotent routes, stop, loss of the session, self-test workers | done |
| `StoryPipeline`, `MCStoryPipeline` | dispatcher, phase engine, results of the handlers, the closure sequence, crash between the writes, freeze | done |
| `StoryLifecycle`, `MCStoryLifecycle` | story status, idempotent story mutations, mode lock and its marker, setup, closure, exit, split and reset as far as they touch these | done |
| `OperationLedgerProofs` | the inductive invariant of `OperationLedger` and what follows from it | done |
| `OperationLedgerRefinement` | what clients of the ledger see: durable answers, no leaked claim, the refinement of `IdempotentLedger` | done |
| `RunOwnershipProofs`, `PushBarrierProofs`, `WriterLeaseProofs`, `StoryPipelineProofs`, `StoryLifecycleProofs` | the safety and action properties of these modules | done |
| `FencedRuns` | `OperationLedger` and `RunOwnership` composed: what is left open in the first as a refusal comes from the second | planned |

The modules of the components are parameterised by CONSTANTS whose assumptions
are named (`LedgerAssumption`, `OwnershipAssumption`, `PushBarrierAssumption`,
`WriterLeaseAssumption`, `StoryPipelineAssumption`, `StoryLifecycleAssumption`),
have one action per transaction or call to the outside, and use no recursive
operator. The assumptions say which constants are numbers, which sets are finite
or disjoint and which values are distinct; bounds may be any number, except
that a challenge may be issued at least once (`MaxIssue`), without which no
request could be made at all. The cases of a CASE expression exclude one another,
so that every definition has one meaning. Operators introduced by a comment that starts with "Mutant" are wrong
variants of the definition that follows them; no action uses them. They show
that a property notices the mistake they make.

How the models fit together: `WriterLease` shows what `OperationLedger` assumes of
processes, that only one serves and that a later one starts with a later
incarnation; `OperationLedger` shows what the others assume of requests, that one
execution per story is under way; `RunOwnership` gives the owner and the epoch that
`PushBarrier` fences with; `StoryPipeline` is what happens inside one engine call of
`OperationLedger`, and its setup and closure appear again in `StoryLifecycle`, where
stories meet each other.

## 3. How the modules correspond to the code

`PROJECT.json` ("map") gives the lines of every definition.

### 3.1 OperationLedger

| variable | code |
|---|---|
| `row` | `control_plane_operations` by op_id: `status`, `by` = claimed_by, `epoch` = operation_epoch, `inc` = instance_incarnation, `at` = claimed_at, `hash` = request_body_hash |
| `obj` | `object_mutation_claims` by story |
| `writes` | rows the engine has written for the story, counted; `claimed_at` is measured in it |
| `pc`, `op`, `kind`, `reply` | the thread of one delivery of a request |
| `adm` | an administrator's call between its transactions |
| `mode`, `incarnation` | the process: serving, down, reconciling; its incarnation |
| `faults` | bound on failing release statements |
| `applied`, `wrote` | history, read by properties only |

A step is one database transaction. `AcquireClaim` merges the insert, the load
that follows a lost insert and the one retry, since each of them looks at the
same row and the first success decides. What other parts refuse (freeze, fence,
push barrier, phase preconditions) is a nondeterministic refusal, so the model
has every behaviour of the code and some that a refusal would exclude. The
operations without a story, which take no claim and commit in one transaction,
are left out. The contents of answers are reduced to their kind.

### 3.2 RunOwnership

| variable | code |
|---|---|
| `rec` | `run_ownership_records` by run |
| `bind` | `session_run_bindings`: one row per session |
| `tk` | a takeover request with its operation row, its approval and its challenge; `basis` is what the challenge shows, `age` how far time has passed its expiry dates |
| `transfers`, `open` | `takeover_transfer_records`, and those without `reconciled_at` |
| `freeze` | `governance_freeze_records` by story (`reconcile_repair` is the ledger's repair and not repeated) |
| `claim` | `object_mutation_claims` by story |
| `closed` | runs with a committed exit, reset, split or closure operation |
| `th` | server threads: what a call has read and not yet used |
| `touched` | history: pending challenges whose run has changed since |

What a thread reads before it has the story claim (`Gate`, `Admit`,
`ReconcileAdmit`) is a step of its own, because everything can change until the
commit. What it reads under the claim and checks again in its transaction is one
step with the acquisition of the claim (`StartUnderClaim`, `RequestTakeover`,
`ConfirmRead`), and the release of the claim belongs to the last transaction;
calls that are one transaction under the claim (work, closure, deny, recovery,
administrative clear) are one step. Exit, reset and conflict freezes take no
claim and can happen between any two steps. Refusals, collisions, exceptions and
crashes are `GiveUp`, which writes nothing. The order of decisions in
`ConfirmPlan` is that of `_confirm_ownership_takeover_under_claim`. The confirm
compares the basis with the story's active run and not with the challenge's run,
and so does the model.

Left out: fast-mode stories (no binding and no ownership record), resume (fenced
like start), push evidence of a takeover (a missing head is a refusal), the
commands sent to the edge, the split of a story without an active run. A
request's reason is taken to be non-blank.

### 3.3 IdempotentLedger and the refinement

`OperationLedger` instantiates it with `outcome` = `OutcomeOf` (claimed is running,
committed is applied, failed is refused, aborted and repair are abandoned, a
repaired row is resolved) and `told` = the op_id whose success a thread has
answered. Claim, release, finalize, abort and resolve are its steps; engine
writes, story claims, epochs, crashes and boots are stutters. The property holds
for start and resume; complete, fail and closure commit without a claim.

### 3.4 PushBarrier

| variable | code |
|---|---|
| `owner`, `oepoch` | the active `run_ownership_records` row |
| `local`, `seen`, `remote` | worktree head, the remote head it descends from, the server's story ref |
| `hooks` | commits whose hook has not reached the backend |
| `verdict` | `push_barrier_verdicts`: status, boundary epoch, expected head, ownership epoch |
| `chain` | `edge_command_records` of `sync_push`, by boundary epoch, in the order of the retry chain |
| `fresh` | `push_freshness_records` |
| `edge`, `submit`, `claim` | the edge's loop, the handler of its result, the story claim that handler holds |
| `req` | boundary requests: what a request has read and what it still has to do |
| `onServer` | history: heads the server's ref has had |

Heads are numbers in the order of their creation; a push is accepted if the
server's head is the one the worktree descends from. The result handler reads the
verdict, reads the server and writes the whole row (`SubmitLoad`,
`SubmitServerRead`, `SubmitWrite`); the boundary request binds (`BindLoad`,
`BindWrite`), commissions repository by repository, lists and reads the server
once more (`CheckServer`). Commissioning and results are taken one statement at a
time because only results hold the claim. Commissioning reads the retry chain and
derives the id of its next link (`NextCommandId`), and inserts that link with ON
CONFLICT DO NOTHING in a later statement (`InsertCommand`); where it finds an open
command that has timed out (`CommissionTimeout`), it writes the verdict
(`BlockTimedOut`) and then supersedes the command it found, by its id
(`SupersedeCommand`). The id of a link is derived from the command before it and
from that command's result, which never changes once it is there, so a link is
named by its place in the chain. The walk along a chain is one step: the commands
it passes have ended and stay as they are, and its last load decides. `Fails` are server reads without an
answer, exceptions and deaths, bounded by `MaxFailures`. The two kinds of boundary
share all code and are one here; commands for worktrees and merges share the
queue and are left out.

### 3.5 WriterLease

| variable | code |
|---|---|
| `lock`, `session` | the advisory lock and each process's reserved session |
| `incarnation`, `identity` | `backend_instance_identity`, and the identity bound to the lease |
| `row`, `applied` | ledger rows, and the effects committed for each op_id |
| `main`, `loss`, `stopping` | main thread from boot to exit, the recorded reason of a loss, the stop event of the self-tests |
| `pc`, `on`, `op` | handler threads |
| `worker` | threads of the self-tests |
| `stray` | history: processes that wrote without holding the lock |

`Usable` and `Writes` are the point of the module: while a lease is registered,
every statement borrows its session, and after `unregister` it borrows a pool
connection that no lock guards. A dead session makes the borrow fail and not the
process stop; that is the monitor's work. Atomic operations commit effect and row
in one transaction, plain ones in two, self-tests by a worker after the answer.

### 3.6 StoryPipeline

| variable | code |
|---|---|
| `kind`, `closureOk` | story type and route, `closure_allowed` of the story context |
| `state`, `attempts` | `phase_states` with gate status and closure progress, attempt records |
| `snapshots`, `flow`, `nodes` | `phase_snapshots`, `flow_executions`, `node_execution_ledger` |
| `merged`, `done` | what closure has done outside: the merge at the edge, the story's status |
| `job`, `reply` | the dispatch under way and the answer to the last |
| `frozen`, `admitted` | a freeze that refuses engine writes, the run's ownership record |

`Dispatch` has the whole admission (first call, re-entry, transition with its
guards, trigger of a resume) as one step, because it reads one row under the
story claim. `reply` has the status that was answered and whether the answer names
an attempt: a resume whose trigger belongs to no yield point is answered "failed"
without one (`NoAttempt`), and its phase stays PAUSED. The writes of a result are four transactions in the order attempt
and state, snapshot, flow, node. Closure's steps follow `_run_sequence`, each with
its checkpoint; `PrepareEdgeMerge`, `VerifyEdgeMerge` and `ExecuteEdgeMerge` may
pause, fail or escalate. What handlers compute is a choice among the results
their code returns. No workflow definition uses retry, override or execution
policies or preconditions, and they are left out. An attempt's identifier
counts attempts of the id the engine makes up, so numbers repeat.

### 3.7 StoryLifecycle

| variable | code |
|---|---|
| `row` | `stories`: status and mode |
| `ops` | `control_plane_operations` of the story mutations and of the fences of exit, split and reset |
| `regime` | the story has an active ownership record |
| `holder`, `marker` | `project_mode_lock_holders`, and the file that says setup has taken the lock |
| `ctx`, `setup`, `closure` | the mode in the run's story context, the phase states of setup and closure |
| `req` | requests: the copy of the story they have read, the position, whether this setup took the lock |

A request reads the story, checks the transition against what it has read and
saves the whole row; between the first and the last step anything may happen.
Setup reads the other mode's stories, saves the context with the mode it reads
then, takes the lock, writes the marker and begins progress; a refusal undoes the
first two if this setup made them. A step on holder row or marker can fail
(`LockStepFails`): a marker that cannot be written fails the setup with its holder
row in place, a release that fails in the compensation is logged and the marker
cleared all the same, and one that fails in closure is a warning and closure
completes. `failed` records the stories this has happened to. A split runs each
of its steps under the story claim and a freeze, which are not modelled, nor are
its failed row and its lineage; it therefore meets setups and closures here that
the code would keep away. Likewise an exit may end a run whose closure has
completed. What `closure_complete` does for the session afterwards is in
`RunOwnership`; the ownership record stays active, so `regime` stays as it is. A story has one run, so the run id that reset
takes from `flow_executions` and the one of the ownership record are the same
here. Left out: creation of stories, the check for archived projects, fields other
than status, mode and one harmless one.

## 4. Runs

Passing runs set `CHECK_DEADLOCK FALSE`, except `push_barrier` and `push_race`: requests,
takeovers, versions, boots and dispatches are bounded, so an instance comes to a
stop once they are used up. In the two a boundary can always be asked for
again and deadlock is checked.

| run | instance | states | shows |
|---|---|---|---|
| `ledger_claiming` | 2 deliveries, 2 op_ids, 1 administrator, start and resume, 3 incarnations, 2 writes, 1 fault | 1.2 M | an op_id is applied at most once, an abandoned operation never commits, dispatch is serialized, a restart leaves no orphan and hides no partial write; the refinement of `IdempotentLedger` |
| `ledger_mixed` | 3 deliveries, 2 op_ids, 1 administrator, start and complete/fail, 2 incarnations, 1 write | 1.2 M | no leaked claim, an answered success stays recorded, the inductive invariant, with kinds that follow different protocols |
| `ledger_liveness` | 2 deliveries of 1 op_id, 1 administrator, all kinds, 2 incarnations, 1 write, 1 fault; fairness, no symmetry | 117 k | every request is answered or dies with its process; after a crash the instance serves again without old claims |
| `ownership_takeover` | 1 run, 2 agents and a human, 2 threads, 2 takeovers, the first issued up to twice, versions to 4 | 2.0 M | epochs fence, a transfer is agreed, confirmed as shown and never made under a freeze, challenge, request and approval end together, no second takeover in a row by an agent |
| `ownership_ends` | 2 runs of a story, an agent and a human, 2 threads, 1 takeover, versions to 2 | 2.0 M | recovery, exit, reset and split keep record and bindings in agreement; the epoch counts transfers; a run that is over stays over |
| `push_barrier` | 2 sessions, 1 repository, 1 requester, retry chains of 2, 2 boundary epochs, any 2 of a commit, a takeover and a failure; fairness | 0.85 M | verdicts rest on evidence of their own epoch and on heads the server had, commands end once and by their owner, a pending verdict resolves |
| `push_race` | 2 sessions, 1 repository, 2 requesters, retry chains of 2, 1 boundary epoch, any 2 of a commit, a takeover and a failure | 1.1 M | requests that race on a retry chain open one command, at its end |
| `writer_lease` | 2 processes, 2 requests, one operation of each kind, 2 boots, 1 fault | 0.50 M | no write without the lock, atomicity, latest incarnation, drained before unlock, loss stops the process |
| `pipeline` | the four kinds of stories, 6 dispatches, 1 crash, 1 freeze | 0.12 M | route, backing of the ledgers, final completion, earned Done, durable reply |
| `lifecycle` | 2 stories, 2 threads, any 2 of a rejection, a mode change, an exit, a split, a reset, a crash and a failing step on the lock besides setups and closures | 1.5 M | modes are excluded, a story in progress is locked, lock and marker follow the run of a story none of whose lock steps failed |

Bounds of the ledger: two deliveries are the smallest number that can race on an
op_id and three mix two kinds with a retry; two incarnations give one crash, three
a crash during the reconciliation of an earlier one; one write is enough to make
an operation partial, two to tell the first from a later one. One story suffices:
claims, rows and records of different stories are touched together only by
recovery, for which `ownership_recovery_binding.cfg` has two. Two threads are the
most that can stand between reads and commits in a relevant way: one holds the
claim, the other has read before it. In `ownership_takeover` the second
takeover is there for the barrier against repeats; the constraint
`SecondTakeoverAlone` leaves out its meetings with work, closure, freezes, denials,
reconciliations and reissues, which the first has all of.

Bounds of the push barrier: one repository, because rows and chains of different
repositories meet only in the conjunction over them; a chain of two has a link
that needs its predecessor ended; two epochs let a result of the first meet the
second; a takeover and a commit, or a failure with either, are every pair of
disturbances of one round. Two requesters are the least that can race on a chain
(`push_race`); there one epoch suffices, since chains of different epochs are
different rows, and the other properties of the module do not look at the chain's
length. Of the writer lease: a second process and a second boot
are needed for an overlap, a third would repeat it; two requests can wait for one
another's op_id. Of the pipeline: six dispatches run the longest route of four
phases and leave two for repetitions, resumes and illegal calls. Of the life
cycle: two stories are needed to exclude one another, two threads for a read to
be stale, and two events between their steps.

The type invariants of `StoryPipeline` and `StoryLifecycle` are proved (section 5)
and hold on the same instances (add `INVARIANT TypeOK` to the configuration); the
two runs spend their time on the other properties.

Symmetry is over requests, op_ids, threads and stories where no definition tells
them apart. It is used with invariants, action properties and the refinement, all
of them safety properties that treat the permuted values alike, and not with
liveness.

### 4.1 Disagreements

Two runs state what comments of the code say and what the code does not keep; the
findings in `PROJECT.json` quote the lines.

| run | what happens |
|---|---|
| `pipeline_yield` | a phase left IN_PROGRESS by a worker spawn or a remediation round, or a closure paused for its merge, is answered "yielded", and every further dispatch of it is rejected |
| `lifecycle_exit` | an exit commits its fence under its exit_id and then asks the story service to cancel under the same op_id; the service finds that row with another body and refuses, and the story stays In Progress without a run |

More configurations violate a property each and are kept for running by hand
(`tlc -config <name>.cfg <module>`); they show limits of what can be claimed of
the code, and mark where the properties of the passing runs end.

| configuration | module | what happens |
|---|---|---|
| `ledger_abort_probe.cfg` | `MCOperationLedger` | the executor writes between the administrator's probe and the abort: 'aborted' with partial writes |
| `ledger_duplicate_commit.cfg` | `MCOperationLedger` | two deliveries of one complete/fail/closure both commit |
| `ownership_gate_race.cfg` | `MCRunOwnership` | a takeover between gate and admission lets work be committed with the reconcile obligation open |
| `ownership_stale_reconcile.cfg` | `MCRunOwnership` | a session that lost the run after admission still clears or contests its former obligation |
| `ownership_recovery_binding.cfg` | `MCRunOwnership` | recovery revokes the binding of the owner's session to another story's run |
| `ownership_other_run.cfg` | `MCRunOwnership` | owner, epoch and binding version repeat after recovery and closure, and a challenge of the superseded run is confirmed on its successor |
| `push_late_result.cfg` | `MCPushBarrier` | a result handler that read the row before a commit superseded it writes it back as passed |
| `push_hang.cfg` | `MCPushBarrier` | a retry chain that is used up under a row that is still pending leaves neither a command nor a timeout to resolve it |
| `lease_double_apply.cfg` | `MCWriterLease` | finalizing a plain route raises after its effect committed, the claim is released, and the retry applies it again |
| `pipeline_told_failed.cfg` | `MCStoryPipeline` | a resume with a trigger of no yield point is answered "failed" while the phase is PAUSED: `start_phase` commits the answer as an operation, `resume_phase` returns it without storing it |
| `pipeline_route.cfg` | `MCStoryPipeline` | closure asks a story that was routed past exploration for exploration's snapshot |
| `pipeline_checkpoints.cfg` | `MCStoryPipeline` | a closure that pauses or fails saves the copy of the state it started from over the checkpoints it has written |
| `lifecycle_leak.cfg` | `MCStoryLifecycle` | a release that fails in closure is a warning, and the closed story keeps the lock |
| `lifecycle_transitions.cfg` | `MCStoryLifecycle` | a field update or an approval that read the story earlier writes the old status back |

Facts of the same kind that the models show without a configuration: the repair
lock is read once, by the same early gate as the reconcile obligation; closure
leaves the ownership record active (`CommitClosure` of `RunOwnership`); a story
that was reset is In Progress again and no transition leads to a second setup;
exit, split, reset and a crash leave the mode lock's holder row, which only a
closure or a setup that undoes its own acquire deletes; a release that fails in
either leaves it too; a crash between holder row and marker makes every later setup of
the story fail.

### 4.2 Fairness

`FairSpec` asks that a thread that has a step to make makes it, that an
administrator's call once begun goes on, and that a process that is down is
booted, reconciles and serves. The server gives each request its own thread and
no step waits for a lock, so a runnable thread runs; the instance is supervised.
Nothing is asked of clients or administrators: no request has to be sent, none
has to be sent again, no abort has to happen. Faults and crashes are never
required and are bounded. This is the fairness of `OperationLedger`. In the other
modules:

* `PushBarrier`: the steps of a requester, which include asking again for a
  boundary that was refused, and the timeout of a command that requests find open
  again and again (strong fairness: commissioning is open only within a request).
  Nothing is assumed of edges, commits or owners, so a harness that never polls
  again is covered. That a refused caller repeats its request is the one
  assumption about a client; without it nobody looks at the clock.
* `WriterLease`: the main thread, handler threads and workers run, the monitor
  probes the session again and again, and its finding ends the serving. Operator
  stops, requests and faults are not required.
* `StoryPipeline` and `StoryLifecycle` have no liveness property.

## 5. Proofs

Every safety invariant, every type invariant and every action property that a
passing run checks is a theorem, for every value of the constants that the
module's assumption allows; so is the refinement of `IdempotentLedger`. Two
theorems of the ledger and the refinement need `Kinds \subseteq ClaimingKinds`
besides, and `ConfirmedIsShown` needs `"recover" \notin Calls`; both assumptions
are necessary, as said below. All theorems have the same form: an inductive
invariant that is stronger than the property, a step per action, and a last step
that combines them in temporal logic. The paragraphs below name the invariants
and say what they are needed for.

### 5.1 OperationLedgerProofs

From `LedgerAssumption` alone: `TypeCorrect`, `LedgerInvariant`, `NoOrphans`,
`ReconciliationIsSound`, `Serialization`; and from `Kinds \subseteq
ClaimingKinds` in addition: `StartsApplyOnce`, `LateExecutorIsFenced`. The
additional assumption is necessary: `ledger_duplicate_commit.cfg` shows that
complete, fail and closure do not have these two properties.

`SerializedDispatch` speaks of threads that dispatch, and to show that a second
one cannot enter one has to know that the first still holds its story. The
inductive invariant `LedgerInv` is the conjunction of

* `StoppedUnlessServing`: no thread is live and no administrator busy unless the
  process serves; a crash takes them all with it;
* `StampedByNow`: no row and no story claim carries an incarnation later than the
  current one, so boot's comparison finds every old claim;
* `KindsOfSteps`: only start and resume ever stand at the steps that claim or
  run the engine;
* `ClaimEndsTerminal`: a thread past its claim owns its row, or finds it
  terminal; hence nobody else can claim the op_id meanwhile, and a late
  finalize fails;
* `WritesSinceClaim`: the claim's time stamp lies before every write made under
  it; this makes the partial-write probe exact;
* `StoryClaimHeld`: an op_id that is still in its owner's hands holds its story
  claim exactly while the owner is between acquiring and releasing it; release
  by op_id alone is sound because of it;
* `AdminReleasesTerminal`: an administrator about to delete a story claim has
  made its op_id terminal, so it never takes the claim of a live owner;
* `NoOrphanWhileServing` and `FailedMeansNoWrites` themselves.

There is a lemma per conjunct with a step per action. `Serialization` follows
from `StoryClaimHeld` and `ClaimEndsTerminal`: two owners on one story would
both be named by its one claim row, hence be the same op_id, hence the same
thread. `StartsApplyOnce` and `LateExecutorIsFenced` follow from `RowStep`, what
one step may do to one row.

### 5.2 OperationLedgerRefinement

* `AnswersAreDurable`: a row that records a success never records anything else
  (`SuccessStays`), and a thread leaves with a successful answer only behind such
  a row (`AnswerInv`).
* `NothingLeaks`: as long as no release statement failed, a claimed row is in its
  owner's hands (`RowsHeld`) and the claim of a story belongs to a live thread that
  will release it (`StoriesHeld`). Both need that a claimed row still has the epoch
  that the owner's compare-and-set asks for (`ClaimedEpoch`), so that a finalize by
  the owner cannot miss it, and that a process which reconciles meets only stamps
  of earlier incarnations (`OldStamps`), so that it leaves none behind.
* `StartsImplementLedger`: under `Kinds \subseteq ClaimingKinds`, the initial state
  maps to the initial state of `IdempotentLedger` and every step to one of its
  steps or a stutter: claim, release, finalize, abort and resolve to its steps,
  engine writes, story claims, epochs, crashes and boots to stutters. `Hidden` and
  `Shown` say when a step does not change, or changes only at one op_id, what the
  abstract ledger sees; `ToldOnce` what an answer adds to it. Outside the
  assumption it is false: the other kinds commit without a claim.

### 5.3 RunOwnershipProofs

The inductive invariant `OwnershipInv` is the conjunction of

* `Shapes`: tables, requests and threads have their types, and threads what they
  need in hand at each step;
* `OwnerInv`: a story has one active run, and an active binding belongs to its
  owner;
* `HandInv`: a thread that works on a takeover request holds the claim of the
  request's story and finds the rows that its next transaction expects. No
  transaction of a takeover checks the claim again; this is why it need not;
* `EpochInv`: the epoch a thread remembers is not later than the run's, and where
  it is equal, the owner is the session it was admitted for;
* `DecisionInv`: what a confirm has decided under the claim and still finds: as
  long as the challenge is pending there is no freeze of the story, the approval
  is what it read, and the basis is not ahead of the run's epoch;
* `TransferInv`: every epoch after the first is in the transfer records and none
  of them lies ahead;
* `EndTogether` itself.

`ThreadMoves` says what a step does to a thread it does not belong to: the thread
keeps its state and its claim, or ends; with `Goes`, what a step may do to a
request, and `RecordGoes`, what it may do to a record, it replaces most of the
comparison of each action with each thread's position.

`OneOwner` and `EpochFences` are parts of the invariant or close to one.
`OwnershipHistory` and `TransferIsAgreed` are read off a single step under it. The
absence of a freeze in `TransferIsAgreed` is the interesting case: the confirming
transaction does not read the freezes, and a conflict freeze takes no claim. It
holds because entering a freeze ends the story's pending challenges in the same
transaction, so that the confirm finds its challenge gone (`DecisionInv`).
`NoPingPong` needs `TransferInv`: a run that came to its owner by takeover is
recognised by its epoch being in the records.

`ConfirmedIsShown` is proved for instances in which no run is recovered. Its
invariant `ShownInv` says that a run that is over was closed by a committed
operation, that the owner of a run that is not closed has its binding to it, that
the epoch and the binding version of a pending challenge's basis lie behind
(`BasisInv`), strictly once something was committed on the run (`TouchedInv`), and
that a confirm works on the challenge's own run (`ConfirmInv`). With recovery none
of this holds: it ends a run without closing it, and `ownership_other_run.cfg`
shows a challenge confirmed on the successor of the run it was made for.

### 5.4 PushBarrierProofs

The inductive invariant `BarrierInv` is the conjunction of `Shapes` (types, what
is in hand at each step, that a request has rows for what it bound, and that the
place in a chain it remembers is right behind ended commands or taken by now,
`PlacesHold`), `EdgeInv`
(what an edge has queued is a command of its session, and a push it reports
happened), and `SubmitInv` (the command a result handler works on has ended with
the reported outcome, and the row it read has the command's epochs). A command
once ended never changes and the server's history only grows (`ChainsGoOn`,
`GitStep`), so evidence once good stays good.

* `PassRestsOnCommand` and `OnlyPushedHeadsPass`: every writer of a verdict
  (`VerdictWriters`) either keeps a passed row, or writes one that a completed
  command of the row's own two epochs has earned (`WriteIsEarned`), through the
  unlocked read, the server read and the write of the whole row.
* `OneCommandIsOpen`: every writer of a chain (`ChainWriters`) appends a command
  behind ended ones or ends one. That an insert still finds ended commands only,
  however long ago its request has read them, is `PlacesHold` with the conflict
  clause: if the place is free, the chain is the one that was read.
* `ResultsStand`: from `ChainWriters` too; only `SubmitCommit` gives a command a
  result, and only for the session that owns the run.

### 5.5 WriterLeaseProofs

`LeaseShape` says that an open session and the lock are the same thing
(`SessionHoldsLock`), that the identity bound to the lock's holder is the latest
(`IdentityIsLatest`), that a request that may still write keeps its process from
unlocking (`OpenRequestsAreServed`) and that a worker outlives the drain only
after a recorded loss (`WorkersAreKept`). `FencedWrites`, `AtomicEffects` and
`DrainsBeforeUnlock` follow step by step. `LatestBoot` needs in addition that no
claim is dated after the last boot (`ClaimsAreDated`).

### 5.6 StoryPipelineProofs

The proofs speak of routes as sets (`Route`, `Prior`) and of attempts as a log of
outcomes by phase (`Log`), because attempt numbers repeat; that an upsert loses
no completed record is a lemma (`UpsertKeepsLog`), which holds because a phase
that has completed is never executed again. `PipelineInv` is the conjunction of
`RowShapes`, `StateOnRoute` (what is persisted lies on the route, everything before
it has completed and nothing behind it), `JobOnRoute` (a dispatch executes the
persisted phase or one whose predecessors have completed, and has not completed it
before it says so) and `FlowIsLast` (behind a failed or escalated flow nothing is
dispatched). `FollowsRoute` and `CompletedStays` follow from it; `AttemptFirst`,
`AnswersAreDurable` (of attempts, and of the "failed" that a resume answers
without one) and `DoneBehindMerge` need small invariants of their own beside
it (`LedgersInv`, `ReplyInv`, `DoneInv`; the last one because a merge recorded
anywhere, in the state, the running job or its copies, is one that was made).

### 5.7 StoryLifecycleProofs

`LockInv` says that one request at a time takes a story through setup or closure,
that the holder rows are of one mode, and for every story: if it has begun, or a
request could still write that it has, its holder row is there or its run was
closed or purged (`Begun`, `Kept`); setup holds the lock in the mode of the context
from acquire on, and if it took the row itself nobody can say that the story has
begun, so that undoing it is safe (`SetupHolds`); closure and a completed setup
agree (`ClosureHolds`, `RunHolds`). `Begun` counts the copies that requests have
read: a stale save is the way a status comes back. `ModesExclude` and
`BegunStoriesAreLocked` follow. `LockHasTheLifeOfTheRun` adds `LockFree`, which
holds while no process has died, of every story whose own lock steps have
succeeded: the holder row belongs to a setup or a run that is not over, and the
marker differs from it only while a request is about to write or clear it. The
exception is necessary (`lifecycle_leak.cfg`); the theorem says that it does not
reach beyond the story.

### 5.8 Only model-checked

* The four liveness properties `EveryRequestEnds`, `CrashIsRecovered`,
  `PendingResolves` and `LossStopsProcess`: they rest on fairness, which the prover
  does not handle.
* `ConfirmedAsShown` with recovery among the calls, and the two ledger properties
  and the refinement for kinds that take no claim, are false in general.
* The disagreements of section 4.1: counterexamples, found by TLC.

## 6. What is not modelled

`PROJECT.json` lists every part with a reason. In short: decision functions over
one event (hooks, guards, gates, layered checks), clients of external services,
file-system and installation work, analytics and telemetry, and single-row
operations without concurrency of their own. They are most of the repository's
lines; the models cover the code in which actors meet. Wall-clock anomalies (a
clock set back, equal time stamps) are not modelled: `at`, `age` and the timeouts
are what the comparisons mean under a monotone clock.

At the edges of what is modelled:

* a story's engine run and its control-plane run are one; the code keeps two ids
  and looks one of them up in `flow_executions`;
* the contents of a merge (several repositories, git, build) are a result that
  may pause, fail or escalate;
* of setup's preflight only the check of the mode lock is more than a possible
  refusal;
* creation of stories and the check for archived projects;
* the composition of `PushBarrier` with `RunOwnership`: a takeover is one step in the
  first.

## 7. Plan

1. `FencedRuns`: `OperationLedger` and `RunOwnership` composed, so that the
   refusals left open in the first come from the second, with the theorem that a
   committed operation of a story was committed by the story's owner under its
   epoch.
2. What `PushBarrier` takes for granted of a takeover, that owner and epoch change
   in one step and the epoch by one, from `OwnershipHistory`: both modules shown to
   refine a small specification of an owner with an epoch.
3. The processes of `OperationLedger` as those of `WriterLease`: that one process
   serves and that boots number themselves is an assumption in the first and a
   theorem about the second (`LatestBoot`).
4. More of the phase handlers in `StoryPipeline`: the remediation rounds of the
   implementation phase and the review of the exploration phase, which are
   results chosen by a nondeterministic handler now.
