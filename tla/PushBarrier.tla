---------------------------- MODULE PushBarrier ----------------------------
(***************************************************************************)
(* The push barrier of one boundary of one story run and the edge-command  *)
(* queue behind it.  A boundary request binds one verdict row per          *)
(* participating repo, commissions sync_push commands, and reads the       *)
(* verdicts back; the Project Edge of the owning session executes the      *)
(* commands in its worktree and posts the results; a result resolves the   *)
(* verdict it is bound to after the backend's own read of the server ref;  *)
(* the commit hook supersedes verdicts.  Every action is one database      *)
(* statement, one transaction or one git command: the code keeps no lock   *)
(* across them except the story's object claim of the result handler.      *)
(*                                                                         *)
(* Heads are numbers in the order of their creation, 0 is "no head".  A    *)
(* command is named by its repo, its boundary epoch and its place in the   *)
(* retry chain of that epoch, which is what its deterministic id encodes.  *)
(***************************************************************************)
EXTENDS Integers, Sequences, FiniteSets

CONSTANTS
    Sessions,       \* harness sessions, each with its own worktrees
    Repos,          \* participating_repos of the story
    Requesters,     \* concurrent callers of the barrier
    None,           \* no session, no row, no command
    MaxRetryChain,  \* _MAX_SYNC_PUSH_RETRY_CHAIN, 64 in the code
    MaxCommits,     \* bound on local commits
    MaxTransfers,   \* bound on ownership transfers
    MaxEpoch,       \* bound on boundary epochs
    MaxFailures,    \* bound on crashes and on calls that fail on the way
    MaxDisturbances \* bound on commits, transfers and failures together

ASSUME PushBarrierAssumption ==
    /\ Sessions # {} /\ Repos # {} /\ IsFiniteSet(Repos)
    /\ None \notin Sessions \cup Repos
    /\ MaxRetryChain \in Nat \ {0} /\ MaxEpoch \in Nat \ {0}
    /\ MaxCommits \in Nat /\ MaxTransfers \in Nat /\ MaxFailures \in Nat
    /\ MaxDisturbances \in Nat

VARIABLES
    owner,      \* owner_session_id of the active run_ownership_records row
    oepoch,     \* its ownership_epoch
    local,      \* local[s][r]: HEAD of the worktree of session s in repo r,
                \* NoHead while the session has none
    seen,       \* seen[s][r]: remote head that worktree descends from
    remote,     \* remote[r]: head of refs/heads/story/{id} on the server
    onServer,   \* history: every head the server ref has had
    commits,    \* number of heads created so far
    hooks,      \* commits whose increment_commit event is not stored yet
    verdict,    \* push_barrier_verdicts of this boundary, one row per repo
    chain,      \* edge_command_records: the sync_push commands per epoch
    fresh,      \* last_pushed_head_sha of each repo's push_freshness_records row
    edge,       \* the edge loop of each session
    submit,     \* the result handler working for each session's edge
    claim,      \* holder of the story's object claim, or None
    req,        \* the boundary requests
    failures    \* crashes and failed calls so far

gitVars == <<local, seen, remote, onServer, commits, hooks>>
rowVars == <<verdict, chain, fresh>>
vars == <<owner, oepoch, gitVars, rowVars, edge, submit, claim, req, failures>>

NoHead == 0
Heads == 1 .. (MaxCommits + 1)
Statuses == {"pending", "passed", "blocked_backlog", "superseded"}
OpenStatuses == {"created", "delivered"}
Outcomes == {"pushed", "behind_remote", "command_error"}

Verdicts == [status : Statuses, bepoch : 1 .. MaxEpoch,
             head : Heads \cup {NoHead}, oepoch : Nat]

Commands == [status : OpenStatuses \cup {"completed", "failed", "superseded"},
             session : Sessions, oepoch : Nat,
             outcome : Outcomes \cup {None}, head : Heads \cup {NoHead}]

Reports == [repo : Repos, bepoch : 1 .. MaxEpoch, index : Nat,
            outcome : Outcomes, head : Heads \cup {NoHead}]

\* A crash or a call that fails on the way (an unreachable server, a remote
\* that does not answer, a failed statement) uses one unit of the budget.
Disturbable == (commits - 1) + (oepoch - 1) + failures < MaxDisturbances

Fails == Disturbable /\ failures < MaxFailures /\ failures' = failures + 1

EdgeIdle == [pc |-> "idle", todo |-> << >>, reports |-> << >>, head |-> NoHead]
SubmitIdle == [pc |-> "idle", epoch |-> 0, report |-> None, copy |-> None, server |-> NoHead]
RequestIdle == [pc |-> "idle", todo |-> {}, repo |-> None, copy |-> [r \in Repos |-> None],
                owner |-> None, oepoch |-> 0, index |-> 0]

Init ==
    /\ owner = CHOOSE s \in Sessions : TRUE
    /\ oepoch = 1
    /\ local = [s \in Sessions |-> [r \in Repos |-> IF s = owner THEN 1 ELSE NoHead]]
    /\ seen = local
    /\ remote = [r \in Repos |-> 1]
    /\ onServer = [r \in Repos |-> {1}]
    /\ commits = 1
    /\ hooks = {}
    /\ verdict = [r \in Repos |-> None]
    /\ chain = [r \in Repos |-> [e \in 1 .. MaxEpoch |-> << >>]]
    /\ fresh = [r \in Repos |-> NoHead]
    /\ edge = [s \in Sessions |-> EdgeIdle]
    /\ submit = [s \in Sessions |-> SubmitIdle]
    /\ claim = None
    /\ req = [q \in Requesters |-> RequestIdle]
    /\ failures = 0

-----------------------------------------------------------------------------
(* The worktree, the commit hook, and ownership.                           *)

\* A worker commits in the worktree of the session that runs it; the hook
\* process posts the increment_commit event later.
LocalCommit(s, r) ==
    /\ local[s][r] # NoHead
    /\ commits <= MaxCommits /\ Disturbable
    /\ commits' = commits + 1
    /\ local' = [local EXCEPT ![s][r] = commits + 1]
    /\ hooks' = hooks \cup {[repo |-> r, head |-> commits + 1]}
    /\ UNCHANGED <<owner, oepoch, seen, remote, onServer, rowVars, edge, submit,
                   claim, req, failures>>

\* _invalidate_push_barriers_for_registered_commit: one UPDATE over the live
\* rows; a hook that could not name the repo supersedes the rows of all repos.
\* (The expected head a superseded row carries is never read: the next binding
\* and the next result overwrite it.)
RegisterCommit(h, repoKnown) ==
    LET live == {r \in Repos : /\ repoKnown => r = h.repo
                               /\ verdict[r] # None
                               /\ verdict[r].status \in {"pending", "passed"}}
    IN  /\ h \in hooks
        /\ \A r \in live : verdict[r].bepoch < MaxEpoch
        /\ hooks' = hooks \ {h}
        /\ verdict' = [r \in Repos |->
              IF r \in live
              THEN [verdict[r] EXCEPT !.status = "superseded", !.bepoch = @ + 1,
                                      !.head = NoHead]
              ELSE verdict[r]]
        /\ UNCHANGED <<owner, oepoch, local, seen, remote, onServer, commits, chain,
                       fresh, edge, submit, claim, req, failures>>

\* A confirmed takeover: a new session owns the run under the next epoch and
\* its worktrees are reconciled to the server heads (RunOwnership has the
\* steps).  Rows and commands of this boundary are left as they are.
Takeover(s) ==
    /\ s # owner
    /\ oepoch <= MaxTransfers /\ Disturbable
    /\ owner' = s
    /\ oepoch' = oepoch + 1
    /\ local' = [local EXCEPT ![s] = remote]
    /\ seen' = [seen EXCEPT ![s] = remote]
    /\ UNCHANGED <<remote, onServer, commits, hooks, rowVars, edge, submit, claim,
                   req, failures>>

-----------------------------------------------------------------------------
(* The Project Edge: process_open_commands and execute_sync_push.          *)

IsOpen(c) == c.status \in OpenStatuses

\* Commands of session s that its GET returns, oldest epoch first.
OpenFor(s) ==
    {k \in [repo : Repos, bepoch : 1 .. MaxEpoch, index : 1 .. MaxRetryChain] :
        /\ k.index <= Len(chain[k.repo][k.bepoch])
        /\ chain[k.repo][k.bepoch][k.index].session = s
        /\ IsOpen(chain[k.repo][k.bepoch][k.index])}

\* list_and_ack_open_commands: the fetch stamps delivery and returns every
\* open command of the session; the loop keeps them in fetch order.
EdgeFetch(s) ==
    /\ edge[s].pc = "idle"
    /\ \E order \in [1 .. Cardinality(OpenFor(s)) -> OpenFor(s)] :
          /\ \A i, j \in DOMAIN order : i < j => order[i] # order[j]
          /\ \A i, j \in DOMAIN order : i < j => order[i].bepoch <= order[j].bepoch
          /\ edge' = IF order = << >> THEN edge
                     ELSE [edge EXCEPT ![s] = [EdgeIdle EXCEPT !.pc = "gate", !.todo = order]]
    /\ chain' = [r \in Repos |-> [e \in 1 .. MaxEpoch |-> [i \in DOMAIN chain[r][e] |->
          IF chain[r][e][i].session = s /\ chain[r][e][i].status = "created"
          THEN [chain[r][e][i] EXCEPT !.status = "delivered"] ELSE chain[r][e][i]]]]
    /\ UNCHANGED <<owner, oepoch, gitVars, verdict, fresh, submit, claim,
                   req, failures>>

\* Append the report of the command in execution and go on to the next one.
Reported(e, outcome, head) ==
    [e EXCEPT !.reports = Append(@, [repo |-> Head(e.todo).repo, bepoch |-> Head(e.todo).bepoch,
                                     index |-> Head(e.todo).index,
                                     outcome |-> outcome, head |-> head]),
              !.todo = Tail(@), !.head = NoHead,
              !.pc = IF Len(e.todo) = 1 THEN "report" ELSE "gate"]

\* confirm_push_ownership and decide_push_gate, then rev-parse HEAD.  An edge
\* that is offline, no longer the owner or without the service identity
\* reports a backlog; an unreadable payload is a command error.
EdgeGate(s) ==
    LET r == Head(edge[s].todo).repo
    IN  /\ edge[s].pc = "gate"
        /\ \/ /\ owner = s
              /\ edge' = [edge EXCEPT ![s].pc = "push", ![s].head = local[s][r]]
              /\ UNCHANGED failures
           \/ /\ owner # s
              /\ edge' = [edge EXCEPT ![s] = Reported(@, "behind_remote", NoHead)]
              /\ UNCHANGED failures
           \/ /\ Fails
              /\ \E outcome \in {"behind_remote", "command_error"} :
                    edge' = [edge EXCEPT ![s] = Reported(@, outcome, NoHead)]
        /\ UNCHANGED <<owner, oepoch, gitVars, rowVars, submit, claim, req>>

\* _push_official_ref: git push of exactly the head that was read; the server
\* accepts a fast-forward only, and the push may fail on the way.
PushAccepted(s, r) == remote[r] = seen[s][r]

\* Mutant: the exit status of git push is not looked at.
PushReportUnchecked(accepted, moved) == IF moved THEN "behind_remote" ELSE "pushed"

PushReport(accepted, moved) == IF accepted /\ ~moved THEN "pushed" ELSE "behind_remote"

\* The push and the re-read of HEAD after it: a worktree that moved since the
\* head was read is a backlog even when the push got through.
EdgePush(s) ==
    LET r == Head(edge[s].todo).repo
        h == edge[s].head
        moved == local[s][r] # h
    IN  /\ edge[s].pc = "push"
        /\ \/ /\ PushAccepted(s, r)
              /\ remote' = [remote EXCEPT ![r] = h]
              /\ onServer' = [q \in Repos |-> onServer[q] \cup {remote'[q]}]
              /\ seen' = [seen EXCEPT ![s][r] = h]
              /\ edge' = [edge EXCEPT ![s] = Reported(@, PushReport(TRUE, moved), h)]
              /\ UNCHANGED failures
           \/ /\ IF PushAccepted(s, r) THEN Fails ELSE UNCHANGED failures
              /\ edge' = [edge EXCEPT ![s] = Reported(@, PushReport(FALSE, moved), h)]
              /\ UNCHANGED <<seen, remote, onServer>>
        /\ UNCHANGED <<owner, oepoch, local, commits, hooks, rowVars, submit, claim, req>>

\* The edge process dies; what it pushed stays, what it had to report is lost,
\* and its open commands are fetched and executed again.
EdgeDies(s) ==
    /\ edge[s].pc # "idle"
    /\ Fails
    /\ edge' = [edge EXCEPT ![s] = EdgeIdle]
    /\ UNCHANGED <<owner, oepoch, gitVars, rowVars, submit, claim, req>>

-----------------------------------------------------------------------------
(* POST .../commands/{id}/result: submit_command_result.                   *)

Cmd(k) == chain[k.repo][k.bepoch][k.index]

\* The edge has the answer to its first report and turns to the next one.
Answer(e) ==
    IF Len(e.reports) = 1 THEN EdgeIdle
    ELSE [e EXCEPT !.reports = Tail(@), !.pc = "report"]

\* Checks before the claim: a command with a result is answered as resolved, a
\* session that does not own the run is rejected, and so is a report that meets
\* another holder of the story's object claim.  Nothing is written.
SubmitRejected(s) ==
    /\ edge[s].pc = "report"
    /\ \/ Cmd(Head(edge[s].reports)).status \in {"completed", "failed"}
       \/ owner # s
       \/ claim # None
    /\ edge' = [edge EXCEPT ![s] = Answer(@)]
    /\ UNCHANGED <<owner, oepoch, gitVars, rowVars, submit, claim, req, failures>>

\* Admission: the epoch of the active record is kept for the commit, and the
\* story's object claim is taken.
SubmitAdmitted(s) ==
    /\ edge[s].pc = "report"
    /\ Cmd(Head(edge[s].reports)).status \notin {"completed", "failed"}
    /\ owner = s
    /\ claim = None
    /\ claim' = s
    /\ submit' = [submit EXCEPT ![s] =
          [SubmitIdle EXCEPT !.pc = "commit", !.epoch = oepoch, !.report = Head(edge[s].reports)]]
    /\ edge' = [edge EXCEPT ![s].pc = "waiting"]
    /\ UNCHANGED <<owner, oepoch, gitVars, rowVars, req, failures>>

\* The handler is done: the claim is released and the edge, if it still
\* waits, is answered.
Finish(s) ==
    /\ claim' = None
    /\ submit' = [submit EXCEPT ![s] = SubmitIdle]
    /\ edge' = IF edge[s].pc = "waiting" THEN [edge EXCEPT ![s] = Answer(@)] ELSE edge

\* Mutant: the fence of the transaction is gone, admission decided before.
CommitAdmittedNoFence(s) == IsOpen(Cmd(submit[s].report))

\* The ownership fence and the status CAS of the commit transaction.
CommitAdmitted(s) ==
    /\ owner = s
    /\ oepoch = submit[s].epoch
    /\ IsOpen(Cmd(submit[s].report))

\* commit_edge_command_result: operation row, fence and CAS in one transaction.
SubmitCommit(s) ==
    LET k == submit[s].report
    IN  /\ submit[s].pc = "commit"
        /\ \/ /\ CommitAdmitted(s)
              /\ chain' = [chain EXCEPT ![k.repo][k.bepoch][k.index] =
                    [@ EXCEPT !.status = IF k.outcome = "command_error" THEN "failed" ELSE "completed",
                              !.outcome = k.outcome, !.head = k.head]]
              /\ submit' = [submit EXCEPT ![s].pc = "load"]
              /\ UNCHANGED <<claim, edge>>
           \/ /\ ~CommitAdmitted(s)
              /\ Finish(s)
              /\ UNCHANGED chain
        /\ UNCHANGED <<owner, oepoch, gitVars, verdict, fresh, req, failures>>

\* project_push_freshness: a push moves the pushed head, anything else keeps it
\* (the backlog flag and the sync point of the row only repeat the result).
Freshness(previous, k) == IF k.outcome = "pushed" THEN k.head ELSE previous

\* Mutant: a result of an earlier boundary epoch resolves the row.
IsFencedAnyEpoch(current, k) ==
    \/ current.status # "pending"
    \/ current.oepoch # Cmd(k).oepoch

\* _push_barrier_result_is_fenced: a late result must not resolve this row.
IsFenced(current, k) ==
    \/ current.status # "pending"
    \/ current.bepoch # k.bepoch
    \/ current.oepoch # Cmd(k).oepoch

\* The freshness row is written, then _resolve_push_barrier_from_result reads
\* the verdict row it may resolve ...
SubmitLoad(s) ==
    LET k == submit[s].report
        current == verdict[k.repo]
    IN  /\ submit[s].pc = "load"
        /\ fresh' = [fresh EXCEPT ![k.repo] = Freshness(@, k)]
        /\ \/ /\ current = None \/ IsFenced(current, k)
              /\ Finish(s)
           \/ /\ current # None
              /\ ~IsFenced(current, k)
              /\ submit' = [submit EXCEPT ![s].copy = current,
                    ![s].pc = IF k.outcome = "command_error" THEN "write" ELSE "read"]
              /\ UNCHANGED <<claim, edge>>
        /\ UNCHANGED <<owner, oepoch, gitVars, verdict, chain, req, failures>>

\* ... reads the server ref, which may not resolve ...
SubmitServerRead(s) ==
    /\ submit[s].pc = "read"
    /\ \E h \in {remote[submit[s].report.repo], NoHead} :
          /\ submit' = [submit EXCEPT ![s].server = h, ![s].pc = "write"]
          /\ IF h = NoHead THEN Fails ELSE UNCHANGED failures
    /\ UNCHANGED <<owner, oepoch, gitVars, rowVars, edge, claim, req>>

\* evaluate_repo_push: the edge report and the server read must agree.
Verified(k, server) ==
    /\ k.outcome = "pushed"
    /\ k.head # NoHead
    /\ server # NoHead
    /\ server = k.head

\* ... and writes the whole row back, whatever happened to it meanwhile.
SubmitWrite(s) ==
    LET k == submit[s].report
    IN  /\ submit[s].pc = "write"
        /\ verdict' = [verdict EXCEPT ![k.repo] =
              [submit[s].copy EXCEPT
                 !.head = k.head,
                 !.status = IF Verified(k, submit[s].server) THEN "passed" ELSE "blocked_backlog"]]
        /\ Finish(s)
        /\ UNCHANGED <<owner, oepoch, gitVars, chain, fresh, req, failures>>

-----------------------------------------------------------------------------
(* The boundary request: _push_barrier_block.                              *)

\* A caller asks for the boundary; the active record is read once for the
\* binding.
RequestBarrier(q) ==
    /\ req[q].pc = "idle"
    /\ req' = [req EXCEPT ![q] = [RequestIdle EXCEPT !.pc = "bind", !.todo = Repos,
                                                     !.oepoch = oepoch]]
    /\ UNCHANGED <<owner, oepoch, gitVars, rowVars, edge, submit, claim, failures>>

\* next_boundary_binding: a live row stands, a superseded one becomes pending
\* in its epoch, a blocked one in the next.
NextBinding(current, epoch) ==
    IF current = None
    THEN [status |-> "pending", bepoch |-> 1, head |-> NoHead, oepoch |-> epoch]
    ELSE IF current.status \in {"pending", "passed"} THEN current
    ELSE IF current.status = "superseded"
    THEN [current EXCEPT !.status = "pending", !.oepoch = epoch]
    ELSE [current EXCEPT !.status = "pending", !.oepoch = epoch,
                         !.bepoch = @ + 1, !.head = NoHead]

BindLoad(q, r) ==
    LET next == NextBinding(verdict[r], req[q].oepoch)
    IN  /\ req[q].pc = "bind"
        /\ r \in req[q].todo
        /\ next.bepoch <= MaxEpoch
        /\ req' = [req EXCEPT ![q].copy[r] = next, ![q].todo = @ \ {r},
              ![q].repo = IF next # verdict[r] THEN r ELSE None,
              ![q].pc = IF next # verdict[r] THEN "bindwrite"
                        ELSE IF req[q].todo = {r} THEN "active" ELSE "bind"]
        /\ UNCHANGED <<owner, oepoch, gitVars, rowVars, edge, submit, claim, failures>>

BindWrite(q) ==
    LET r == req[q].repo
    IN  /\ req[q].pc = "bindwrite"
        /\ verdict' = [verdict EXCEPT ![r] = req[q].copy[r]]
        /\ req' = [req EXCEPT ![q].pc = IF req[q].todo = {} THEN "active" ELSE "bind", ![q].repo = None]
        /\ UNCHANGED <<owner, oepoch, gitVars, chain, fresh, edge, submit, claim, failures>>

\* _commission_sync_push_best_effort reads the active record again.
ReadActive(q) ==
    /\ req[q].pc = "active"
    /\ req' = [req EXCEPT ![q].pc = "commission", ![q].owner = owner, ![q].oepoch = oepoch,
          ![q].todo = {r \in Repos : req[q].copy[r].status # "passed"}]
    /\ UNCHANGED <<owner, oepoch, gitVars, rowVars, edge, submit, claim, failures>>

\* Mutant: the retry chain has no bound.
MayCommissionUnbounded(commands) == \A i \in DOMAIN commands : ~IsOpen(commands[i])

\* next_sync_push_command_id finds an id when every command of the chain is
\* terminal and the chain is not exhausted.
MayCommission(commands) ==
    /\ Len(commands) < MaxRetryChain
    /\ \A i \in DOMAIN commands : ~IsOpen(commands[i])

\* The walk over the chain loads one command at a time; the commands it passes
\* are terminal and stay as they are, so its answer is decided by the chain at
\* the last load.  The id it derives from the last command is the place after
\* that command, and is kept for the insert.
NextCommandId(q, r) ==
    LET commands == chain[r][req[q].copy[r].bepoch]
    IN  /\ req[q].pc = "commission"
        /\ r \in req[q].todo
        /\ MayCommission(commands)
        /\ req' = [req EXCEPT ![q].pc = "insert", ![q].todo = @ \ {r}, ![q].repo = r,
                              ![q].index = Len(commands) + 1]
        /\ UNCHANGED <<owner, oepoch, gitVars, rowVars, edge, submit, claim, failures>>

\* Mutant: a retry gets an id of its own instead of the derived one.
NoConflictFreshId(commands, index) == TRUE

\* ON CONFLICT (command_id) DO NOTHING: the row is written if no command has
\* the derived id yet.
NoConflict(commands, index) == Len(commands) < index

\* The loop goes on to the next repo.
NextRepo(a) == [a EXCEPT !.pc = "commission", !.repo = None, !.index = 0]

\* commission_edge_command_record, a statement of its own: another request may
\* have taken the place since, and its command may have ended already.
InsertCommand(q) ==
    LET r == req[q].repo
        e == req[q].copy[r].bepoch
    IN  /\ req[q].pc = "insert"
        /\ chain' = IF NoConflict(chain[r][e], req[q].index)
                    THEN [chain EXCEPT ![r][e] = Append(@,
                            [status |-> "created", session |-> req[q].owner,
                             oepoch |-> req[q].oepoch, outcome |-> None, head |-> NoHead])]
                    ELSE chain
        /\ req' = [req EXCEPT ![q] = NextRepo(@)]
        /\ UNCHANGED <<owner, oepoch, gitVars, verdict, fresh, edge, submit, claim, failures>>

\* Without an id, open_sync_push_command walks the chain a second time (what it
\* finds, or that it finds nothing, decides; the first walk read nothing else).
\* There is nothing open, or a command that has not timed out: wait.
CommissionWait(q, r) ==
    /\ req[q].pc = "commission"
    /\ r \in req[q].todo
    /\ ~MayCommission(chain[r][req[q].copy[r].bepoch])
    /\ req' = [req EXCEPT ![q].todo = @ \ {r}]
    /\ UNCHANGED <<owner, oepoch, gitVars, rowVars, edge, submit, claim, failures>>

\* Mutant: a lost command of a dead edge is waited for.
CommissionTimeoutNever(q, r) == FALSE /\ UNCHANGED vars

\* Or the open command it reads has timed out: its id is kept.
CommissionTimeout(q, r) ==
    LET commands == chain[r][req[q].copy[r].bepoch]
    IN  /\ req[q].pc = "commission"
        /\ r \in req[q].todo
        /\ \E i \in DOMAIN commands :
              /\ IsOpen(commands[i])
              /\ req' = [req EXCEPT ![q].pc = "timeout", ![q].todo = @ \ {r}, ![q].repo = r,
                                    ![q].index = i]
        /\ UNCHANGED <<owner, oepoch, gitVars, rowVars, edge, submit, claim, failures>>

\* block_timed_out_open_command: the copy read at the binding is written back
\* as blocked, whatever happened to the row and to the command since ...
BlockTimedOut(q) ==
    LET r == req[q].repo
    IN  /\ req[q].pc = "timeout"
        /\ verdict' = [verdict EXCEPT ![r] =
              [req[q].copy[r] EXCEPT !.status = "blocked_backlog", !.head = NoHead]]
        /\ req' = [req EXCEPT ![q].pc = "supersede"]
        /\ UNCHANGED <<owner, oepoch, gitVars, chain, fresh, edge, submit, claim, failures>>

\* ... and the command that was found is superseded, if it is still open.
SupersedeCommand(q) ==
    LET r == req[q].repo
        e == req[q].copy[r].bepoch
        i == req[q].index
    IN  /\ req[q].pc = "supersede"
        /\ chain' = IF IsOpen(chain[r][e][i])
                    THEN [chain EXCEPT ![r][e][i].status = "superseded"] ELSE chain
        /\ req' = [req EXCEPT ![q] = NextRepo(@)]
        /\ UNCHANGED <<owner, oepoch, gitVars, verdict, fresh, edge, submit, claim, failures>>

\* Commissioning is best effort: a failing statement leaves the rest of the
\* loop undone.
CommissionFails(q) ==
    /\ \/ req[q].pc = "commission" /\ req[q].todo # {}
       \/ req[q].pc \in {"insert", "timeout", "supersede"}
    /\ Fails
    /\ req' = [req EXCEPT ![q] = [NextRepo(@) EXCEPT !.todo = {}]]
    /\ UNCHANGED <<owner, oepoch, gitVars, rowVars, edge, submit, claim>>

\* A request with no row left to look at is answered: the boundary is open if
\* every row has passed and been confirmed, and push_barrier_unverified else.
\* The answer is the caller's; no step of the backend depends on it.
Listed ==
    LET passed == {r \in Repos : verdict[r].status = "passed"}
    IN  IF passed = {} THEN RequestIdle
        ELSE [RequestIdle EXCEPT !.pc = "check", !.copy = verdict, !.todo = passed]

Checked(a, r) == IF a.todo = {r} THEN RequestIdle ELSE [a EXCEPT !.todo = @ \ {r}]

\* The rows are listed again; a row that has not passed blocks the boundary.
ListVerdicts(q) ==
    /\ req[q].pc = "commission"
    /\ req[q].todo = {}
    /\ req' = [req EXCEPT ![q] = Listed]
    /\ UNCHANGED <<owner, oepoch, gitVars, rowVars, edge, submit, claim, failures>>

StillConfirmed(row, server) == row.head # NoHead /\ server = row.head

\* _aggregate_repo_verdict: the server ref is read once more for a passed row;
\* a ref that moved or does not resolve turns the row into a backlog.
CheckServer(q, r) ==
    /\ req[q].pc = "check"
    /\ r \in req[q].todo
    /\ \E server \in {remote[r], NoHead} :
          /\ IF server = NoHead THEN Fails ELSE UNCHANGED failures
          /\ IF StillConfirmed(req[q].copy[r], server)
             THEN UNCHANGED verdict
             ELSE verdict' = [verdict EXCEPT ![r] = [req[q].copy[r] EXCEPT !.status = "blocked_backlog"]]
          /\ req' = [req EXCEPT ![q] = Checked(@, r)]
    /\ UNCHANGED <<owner, oepoch, gitVars, chain, fresh, edge, submit, claim>>

-----------------------------------------------------------------------------
\* The backend process dies with its handlers; startup reconciliation
\* releases the claims of the previous incarnation, waiting edges get an error.
BackendCrash ==
    /\ Fails
    /\ submit' = [s \in Sessions |-> SubmitIdle]
    /\ claim' = None
    /\ req' = [q \in Requesters |-> RequestIdle]
    /\ edge' = [s \in Sessions |-> IF edge[s].pc = "waiting" THEN EdgeIdle ELSE edge[s]]
    /\ UNCHANGED <<owner, oepoch, gitVars, rowVars>>

EdgeStep(s) ==
    \/ EdgeFetch(s) \/ EdgeGate(s) \/ EdgePush(s)
    \/ SubmitRejected(s) \/ SubmitAdmitted(s)

SubmitStep(s) ==
    \/ SubmitCommit(s) \/ SubmitLoad(s)
    \/ SubmitServerRead(s) \/ SubmitWrite(s)

RequestStep(q) ==
    \/ RequestBarrier(q) \/ BindWrite(q) \/ ReadActive(q)
    \/ InsertCommand(q) \/ BlockTimedOut(q) \/ SupersedeCommand(q)
    \/ ListVerdicts(q)
    \/ \E r \in Repos : \/ BindLoad(q, r) \/ NextCommandId(q, r) \/ CommissionWait(q, r)
                        \/ CommissionTimeout(q, r) \/ CheckServer(q, r)

Next ==
    \/ \E s \in Sessions, r \in Repos : LocalCommit(s, r)
    \/ \E h \in hooks, repoKnown \in BOOLEAN : RegisterCommit(h, repoKnown)
    \/ \E s \in Sessions : Takeover(s) \/ EdgeDies(s) \/ EdgeStep(s) \/ SubmitStep(s)
    \/ \E q \in Requesters : RequestStep(q) \/ CommissionFails(q)
    \/ BackendCrash

Spec == Init /\ [][Next]_vars

\* A caller whose boundary was refused asks again, its request runs to its end,
\* and a command that stays open is found timed out.  Nothing is assumed of the edges:
\* a harness may never poll again.
Fairness ==
    /\ \A q \in Requesters : WF_vars(RequestStep(q))
    /\ \A r \in Repos : SF_vars(\E q \in Requesters : CommissionTimeout(q, r))

FairSpec == Spec /\ Fairness

-----------------------------------------------------------------------------
(* Properties.                                                             *)

\* Every row has the shape the tables and handlers give it.
TypeOK ==
    /\ owner \in Sessions /\ oepoch \in 1 .. (MaxTransfers + 1)
    /\ local \in [Sessions -> [Repos -> Heads \cup {NoHead}]]
    /\ seen \in [Sessions -> [Repos -> Heads \cup {NoHead}]]
    /\ remote \in [Repos -> Heads] /\ commits \in Heads
    /\ onServer \in [Repos -> SUBSET Heads]
    /\ hooks \subseteq [repo : Repos, head : Heads]
    /\ \A r \in Repos : /\ verdict[r] \in Verdicts \cup {None}
                        /\ \A e \in 1 .. MaxEpoch : /\ Len(chain[r][e]) <= MaxRetryChain
                                                    /\ \A i \in DOMAIN chain[r][e] : chain[r][e][i] \in Commands
                        /\ fresh[r] \in Heads \cup {NoHead}
    /\ claim \in Sessions \cup {None}
    /\ failures \in 0 .. MaxFailures

\* A verdict passes and a freshness row shows a pushed head only for a head the
\* server ref really had: evaluate_repo_push and project_push_freshness.
PushedOnly ==
    \A r \in Repos :
        /\ verdict[r] # None /\ verdict[r].status = "passed" => verdict[r].head \in onServer[r]
        /\ fresh[r] # NoHead => fresh[r] \in onServer[r]

\* A passed row rests on a completed sync_push command of its own boundary and
\* ownership epoch that reported exactly its head: the result fence.
PassHasEvidence ==
    \A r \in Repos :
        verdict[r] # None /\ verdict[r].status = "passed" =>
            \E i \in DOMAIN chain[r][verdict[r].bepoch] :
                LET c == chain[r][verdict[r].bepoch][i]
                IN  /\ c.status = "completed" /\ c.outcome = "pushed"
                    /\ c.head = verdict[r].head /\ c.oepoch = verdict[r].oepoch

\* At most one command of a sync point is open, and it is the last of its retry
\* chain, although requests read the chain in one statement and insert in a
\* later one: the id is derived from the command it follows, and the insert
\* does nothing on a conflict.
OneOpenCommand ==
    \A r \in Repos, e \in 1 .. MaxEpoch : \A i \in DOMAIN chain[r][e] :
        IsOpen(chain[r][e][i]) => i = Len(chain[r][e])

\* A command that has ended keeps its outcome, whoever answers it later, and an
\* open one gets its result only from the session that owns the run at that
\* moment: the status CAS and the ownership fence of the commit, which the
\* admission before it does not replace.
ResultsAreFenced ==
    [][\A r \in Repos, e \in 1 .. MaxEpoch : \A i \in DOMAIN chain[r][e] :
          /\ ~IsOpen(chain[r][e][i]) => chain'[r][e][i] = chain[r][e][i]
          /\ IsOpen(chain[r][e][i]) /\ chain'[r][e][i].status \in {"completed", "failed"}
                => chain[r][e][i].session = owner]_vars

Pending(r) == verdict[r] # None /\ verdict[r].status = "pending"
Exhausted(r) ==
    LET commands == chain[r][verdict[r].bepoch]
    IN  Len(commands) = MaxRetryChain /\ \A i \in DOMAIN commands : ~IsOpen(commands[i])

\* A pending row is resolved or superseded, whatever edges, commits, transfers
\* and crashes do, unless every command of its retry chain was answered
\* without resolving it: the timeout needs a command that is still open.
PendingResolves ==
    \A r \in Repos : Pending(r) ~> (~Pending(r) \/ Exhausted(r))

\* A row that is pending is resolved or superseded in the end, whoever owns
\* the run by then (violated: see the README).
NoEndlessHang ==
    \A r \in Repos : Pending(r) ~> ~Pending(r)

\* A row that a commit has moved to the next boundary epoch does not pass for
\* the one before: no result of a superseded epoch makes the boundary passable
\* (violated: see the README).
NoRetroactivePass ==
    [][\A r \in Repos :
          verdict[r] # None /\ verdict'[r].status = "passed"
              => verdict'[r].bepoch >= verdict[r].bepoch]_vars

=============================================================================
