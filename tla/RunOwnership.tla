---------------------------- MODULE RunOwnership ----------------------------
(***************************************************************************)
(* Who owns a story run, and how ownership moves: run_ownership_records,   *)
(* session_run_bindings, takeover challenges with their approvals and      *)
(* request operations, transfer records with their reconcile obligation,   *)
(* and the story freezes that cut across all of them.                      *)
(*                                                                         *)
(* A step is one database transaction of a server thread, together with    *)
(* the reads that the thread makes just before it under the story claim;   *)
(* the transaction checks again what it read.  What a thread reads before  *)
(* it holds the claim is a step of its own.  A refusal, an exception and   *)
(* the end of the process are GiveUp.                                      *)
(***************************************************************************)
EXTENDS Naturals, FiniteSets

CONSTANTS Runs, Stories,
          StoryOf,       \* the story of a run
          Sessions,
          NeedApproval,  \* sessions of interactive agents and orchestrators
          Privileged,    \* sessions of human_cli and admin_service principals
          Humans,        \* sessions of human_cli principals
          Threads,       \* server threads
          Takeovers,     \* takeover requests, used in increasing order
          Calls,         \* the calls that clients make in this instance
          None,          \* SQL NULL
          MaxVersion,    \* bound: binding versions
          MaxIssue       \* bound: challenges issued for one request

ASSUME OwnershipAssumption ==
  /\ StoryOf \in [Runs -> Stories]
  /\ Humans \subseteq Privileged
  /\ Privileged \subseteq Sessions
  /\ NeedApproval \subseteq Sessions \ Privileged
  /\ Takeovers \subseteq Nat \ {0}
  /\ None \notin Runs \cup Sessions \cup Threads
  /\ MaxVersion \in Nat /\ MaxIssue \in Nat \ {0}

VARIABLES
  rec,        \* run_ownership_records, by run
  bind,       \* session_run_bindings, by session
  tk,         \* takeover requests: operation, approval, challenge
  transfers,  \* takeover_transfer_records, as <<run, epoch>>
  open,       \* those with reconciled_at NULL
  freeze,     \* governance_freeze_records, by story
  claim,      \* object_mutation_claims, by story
  closed,     \* runs with a committed exit, reset, split or closure operation
  th,         \* the threads
  touched     \* history: pending challenges whose run changed since they were issued

tables == <<rec, bind, tk, transfers, open, freeze, closed>>
vars   == <<tables, claim, th, touched>>

------------------------------------------------------------------------------
INITIAL_OWNERSHIP_EPOCH == 1
MIN_BINDING_VERSION == 1

FreezeKinds == {"conflict", "split", "contested"}

NoRecord   == [status |-> "none", owner |-> None, epoch |-> 0]
NoBinding  == [status |-> "none", run |-> None, ver |-> 0]
NoBasis    == [owner |-> None, epoch |-> 0, ver |-> 0]
NoTakeover == [by |-> None, run |-> None, op |-> "none", appr |-> "none",
               chal |-> "none", basis |-> NoBasis, issue |-> 0, age |-> 0]
Idle       == [pc |-> "idle", call |-> None, ses |-> None, run |-> None,
               epoch |-> 0, k |-> 0, plan |-> None, appr |-> "none", ver |-> 0]

ActiveRuns(s) == {r \in Runs : StoryOf[r] = s /\ rec[r].status = "active"}

Owns(x, r) == rec[r].status = "active" /\ rec[r].owner = x

BoundTo(x, r) == bind[x].status = "active" /\ bind[x].run = r

(* An unreconciled transfer into the epoch that is active now. *)
Unreconciled(s) == \E r \in ActiveRuns(s) : <<r, rec[r].epoch>> \in open

(* The current basis of a run: owner, epoch, version of the owner's binding. *)
OwnershipBasis(r) ==
  IF rec[r].status = "active" /\ BoundTo(rec[r].owner, r)
    THEN [owner |-> rec[r].owner, epoch |-> rec[r].epoch,
          ver |-> bind[rec[r].owner].ver]
    ELSE NoBasis

BasisOfStory(s) == IF ActiveRuns(s) = {} THEN NoBasis
                   ELSE OwnershipBasis(CHOOSE r \in ActiveRuns(s) : TRUE)

NextBindingVersion(v) == IF v = 0 THEN MIN_BINDING_VERSION ELSE v + 1

(* A session's one binding row may be written for run r. *)
CanBind(x, r) == bind[x].status # "active" \/ bind[x].run = r

BindingFor(r, v) == [status |-> "active", run |-> r, ver |-> v]

Revoked(b) == [b EXCEPT !.status = "revoked"]

(* Mutant: only the session just disowned is barred. *)
NoRepeatBarrier(x, r) ==
  /\ \E k \in Takeovers : /\ tk[k].run = r /\ tk[k].chal = "confirmed"
                          /\ tk[k].basis.epoch + 1 = rec[r].epoch
                          /\ tk[k].basis.owner = x
  /\ x \notin Privileged

(* The second takeover in a row needs a privileged principal. *)
DisownedBarrier(x, r) ==
  <<r, rec[r].epoch>> \in transfers /\ x \notin Privileged

(* Pending challenges of r do not show the current state any more. *)
Touched(r) == touched \cup {k \in Takeovers : tk[k].run = r /\ tk[k].chal = "pending"}

Free(s) == claim[s] = None

(* Mutant: the story claim outlives its thread. *)
KeepClaims(t) == [s \in Stories |-> IF th[t] = Idle THEN None ELSE claim[s]]

Release(t) == [s \in Stories |-> IF claim[s] = t THEN None ELSE claim[s]]

Done(t) == th' = [th EXCEPT ![t] = Idle] /\ claim' = Release(t)

Init ==
  /\ rec = [r \in Runs |-> NoRecord]
  /\ bind = [x \in Sessions |-> NoBinding]
  /\ tk = [k \in Takeovers |-> NoTakeover]
  /\ transfers = {} /\ open = {}
  /\ freeze = [s \in Stories |-> {}]
  /\ claim = [s \in Stories |-> None]
  /\ closed = {}
  /\ th = [t \in Threads |-> Idle]
  /\ touched = {}

------------------------------------------------------------------------------
(* Start, complete/fail (work) and closure.  The gate looks at contested     *)
(* writes and the reconcile obligation, before admission and any claim.      *)

Gate(t, c, x, r) ==
  /\ c \in Calls \cap {"start", "work", "closure"} /\ th[t] = Idle
  /\ "contested" \notin freeze[StoryOf[r]]
  /\ ~Unreconciled(StoryOf[r])
  /\ th' = [th EXCEPT ![t] = [Idle EXCEPT !.pc = "admit", !.call = c,
                                          !.ses = x, !.run = r]]
  /\ UNCHANGED <<tables, claim, touched>>

(* Run admission of work and closure, also outside the claim: an active      *)
(* record of this run and session, no freeze; the epoch is remembered.       *)
Admit(t) ==
  /\ th[t].pc = "admit" /\ th[t].call \in {"work", "closure"}
  /\ freeze[StoryOf[th[t].run]] = {}
  /\ Owns(th[t].ses, th[t].run)
  /\ th' = [th EXCEPT ![t].pc = "commit", ![t].epoch = rec[th[t].run].epoch]
  /\ UNCHANGED <<tables, claim, touched>>

(* The ownership fence of the commit transactions. *)
OwnershipFence(t) ==
  /\ Owns(th[t].ses, th[t].run)
  /\ rec[th[t].run].epoch = th[t].epoch

(* The binding of the calling session is written anew, one version up. *)
Rebind(x, r) ==
  /\ CanBind(x, r)
  /\ NextBindingVersion(bind[x].ver) <= MaxVersion
  /\ bind' = [bind EXCEPT ![x] = BindingFor(r, NextBindingVersion(bind[x].ver))]

CommitWork(t) ==
  LET x == th[t].ses
      r == th[t].run IN
  /\ th[t].pc = "commit" /\ th[t].call = "work"
  /\ Free(StoryOf[r]) /\ freeze[StoryOf[r]] = {}
  /\ OwnershipFence(t)
  /\ Rebind(x, r)
  /\ touched' = Touched(r)
  /\ Done(t)
  /\ UNCHANGED <<rec, tk, transfers, open, freeze, closed>>

(* Closure deletes the caller's binding of this run; the ownership record    *)
(* stays active.                                                             *)
CommitClosure(t) ==
  LET x == th[t].ses
      r == th[t].run IN
  /\ th[t].pc = "commit" /\ th[t].call = "closure"
  /\ Free(StoryOf[r]) /\ freeze[StoryOf[r]] = {}
  /\ OwnershipFence(t)
  /\ bind[x].status = "none" \/ bind[x].run = r
  /\ bind' = [bind EXCEPT ![x] = NoBinding]
  /\ closed' = closed \cup {r}
  /\ touched' = Touched(r)
  /\ Done(t)
  /\ UNCHANGED <<rec, tk, transfers, open, freeze>>

(* Start is admitted under the claim: it mints a record (epoch 0 here) when  *)
(* the story has no active one, or enters a run that the session owns.       *)
StartUnderClaim(t) ==
  LET s == StoryOf[th[t].run] IN
  /\ th[t].pc = "admit" /\ th[t].call = "start"
  /\ Free(s) /\ freeze[s] = {}
  /\ ActiveRuns(s) = {} \/ Owns(th[t].ses, th[t].run)
  /\ claim' = [claim EXCEPT ![s] = t]
  /\ th' = [th EXCEPT ![t].pc = "finalize", ![t].epoch = rec[th[t].run].epoch,
                      ![t].plan = IF ActiveRuns(s) = {} THEN "mint" ELSE "enter"]
  /\ UNCHANGED <<tables, touched>>

(* Mutant: a terminal record of the run is revived. *)
InsertOverTerminal(r, x) ==
  /\ ActiveRuns(StoryOf[r]) = {}
  /\ rec' = [rec EXCEPT ![r] = [status |-> "active", owner |-> x,
                                epoch |-> INITIAL_OWNERSHIP_EPOCH]]

(* One record per run (primary key), one active record per story (partial    *)
(* unique index).                                                            *)
InsertOwnershipRecord(r, x) ==
  /\ rec[r] = NoRecord
  /\ ActiveRuns(StoryOf[r]) = {}
  /\ rec' = [rec EXCEPT ![r] = [status |-> "active", owner |-> x,
                                epoch |-> INITIAL_OWNERSHIP_EPOCH]]

(* Finalize does not ask for freezes once the phase itself is durable.       *)
FinalizeStart(t) ==
  LET x == th[t].ses
      r == th[t].run IN
  /\ th[t].pc = "finalize"
  /\ IF th[t].plan = "mint" THEN InsertOwnershipRecord(r, x)
     ELSE OwnershipFence(t) /\ UNCHANGED rec
  /\ Rebind(x, r)
  /\ touched' = Touched(r)
  /\ Done(t)
  /\ UNCHANGED <<tk, transfers, open, freeze, closed>>

(* A refusal, a collision, an exception or a crash (whose claim the next     *)
(* boot frees): the transaction under way writes nothing.                    *)
GiveUp(t) ==
  /\ th[t] # Idle
  /\ Done(t)
  /\ UNCHANGED <<tables, touched>>

------------------------------------------------------------------------------
(* Takeover: request.  Approval, operation and challenge are three           *)
(* transactions under the story claim; nothing here looks at freezes.        *)

RequestTakeover(t, k, x, r) ==
  LET owner == rec[r].owner IN
  /\ "request" \in Calls /\ th[t] = Idle
  /\ tk[k] = NoTakeover /\ \A j \in Takeovers : j < k => tk[j] # NoTakeover
  /\ Free(StoryOf[r]) /\ r \in ActiveRuns(StoryOf[r])
  /\ x # owner /\ bind[owner].status # "none"
  /\ ~DisownedBarrier(x, r)
  /\ tk' = [tk EXCEPT ![k] =
              [NoTakeover EXCEPT
                 !.by = x, !.run = r,
                 !.appr = IF x \in NeedApproval THEN "pending" ELSE "none",
                 !.basis = [owner |-> owner, epoch |-> rec[r].epoch,
                            ver |-> bind[owner].ver]]]
  /\ claim' = [claim EXCEPT ![StoryOf[r]] = t]
  /\ th' = [th EXCEPT ![t] = [Idle EXCEPT !.pc = "saveop", !.k = k]]
  /\ UNCHANGED <<rec, bind, transfers, open, freeze, closed, touched>>

SaveOperation(t) ==
  /\ th[t].pc = "saveop"
  /\ tk' = [tk EXCEPT ![th[t].k].op =
              IF tk[th[t].k].by \in NeedApproval THEN "pending" ELSE "offered"]
  /\ th' = [th EXCEPT ![t].pc = "challenge"]
  /\ UNCHANGED <<rec, bind, transfers, open, freeze, claim, closed, touched>>

InsertChallenge(t) ==
  /\ th[t].pc = "challenge"
  /\ tk' = [tk EXCEPT ![th[t].k].chal = "pending", ![th[t].k].issue = 1]
  /\ Done(t)
  /\ UNCHANGED <<rec, bind, transfers, open, freeze, closed, touched>>

(* Time: age 1 is past the challenge's expires_at (15 minutes), age 2 past   *)
(* that of the approval (2 hours); of two challenges as they were first      *)
(* issued the older one gets there first.                                    *)
TimePasses(k) ==
  /\ "confirm" \in Calls
  /\ tk[k].chal = "pending" /\ tk[k].age < 2
  /\ \A j \in Takeovers :
       (j < k /\ tk[j].chal = "pending" /\ tk[j].issue = 1) => tk[j].age > tk[k].age
  /\ tk' = [tk EXCEPT ![k].age = @ + 1]
  /\ UNCHANGED <<rec, bind, transfers, open, freeze, claim, closed, th, touched>>

------------------------------------------------------------------------------
(* Takeover: confirm, by a human.                                            *)

(* Lazy expiry of the approval. *)
ApprovalSeen(k) == IF tk[k].appr = "pending" /\ tk[k].age = 2 THEN "expired"
                   ELSE tk[k].appr

(* Mutant: a committed exit, reset, split or closure is not asked for. *)
NeverInvalidated(k) == k \notin Takeovers

HasInvalidatingTransition(k) == tk[k].run \in closed

(* The decision of a confirm, in the order of the code. *)
ConfirmPlan(k) ==
  LET r     == tk[k].run
      now   == BasisOfStory(StoryOf[r])
      seen  == ApprovalSeen(k)
      ready == seen \in {"pending", "approved"}
      late  == tk[k].age > 0 IN
  IF HasInvalidatingTransition(k) THEN "invalidate"
  ELSE IF late /\ ready
    THEN IF now # NoBasis /\ now.owner = tk[k].basis.owner
              /\ now.epoch = tk[k].basis.epoch
           THEN "reissue" ELSE "invalidate"
  ELSE IF now # tk[k].basis THEN "invalidate"
  ELSE IF seen = "expired" THEN "expireboth"
  ELSE IF late THEN "expire"
  ELSE IF \/ tk[k].by \in NeedApproval /\ ~ready
          \/ \E q \in ActiveRuns(StoryOf[r]) : DisownedBarrier(tk[k].by, q)
    THEN "refuse"
  ELSE "confirm"

(* The active run is the story's; it is not compared with the challenge's.   *)
ConfirmRead(t, k) ==
  LET s == StoryOf[tk[k].run]
      q == IF ActiveRuns(s) = {} THEN tk[k].run
           ELSE CHOOSE r \in ActiveRuns(s) : TRUE IN
  /\ "confirm" \in Calls /\ th[t] = Idle
  /\ tk[k].chal = "pending"
  /\ Free(s) /\ freeze[s] = {}
  /\ ConfirmPlan(k) # "refuse"
  /\ claim' = [claim EXCEPT ![s] = t]
  /\ th' = [th EXCEPT ![t] = [Idle EXCEPT !.pc = "decide", !.k = k,
                                          !.plan = ConfirmPlan(k),
                                          !.run = q,
                                          !.appr = ApprovalSeen(k),
                                          !.ver = OwnershipBasis(q).ver]]
  /\ UNCHANGED <<tables, touched>>

(* The request operation is still open: 'pending_human_approval', 'offered'. *)
OpenRequest(k) == tk[k].chal = "pending" /\ tk[k].op \in {"pending", "offered"}

TransferCAS(t) ==
  LET k == th[t].k IN
  /\ OpenRequest(k)
  /\ OwnershipBasis(th[t].run) = tk[k].basis
  /\ th[t].appr = "pending" => tk[k].appr = "pending"

(* The whole basis, read under the claim, must still hold. *)
ReissueCAS(t) ==
  LET k == th[t].k IN
  /\ tk[k].chal = "pending" /\ tk[k].appr \in {"pending", "approved"}
  /\ OwnershipBasis(tk[k].run) = [tk[k].basis EXCEPT !.ver = th[t].ver]

EndingCAS(t) ==
  LET k == th[t].k IN
  /\ OpenRequest(k)
  /\ (th[t].plan = "expireboth" \/ th[t].appr = "pending") => tk[k].appr = "pending"

(* Mutant: a takeover within the same epoch. *)
SameEpoch(k) == tk[k].basis.epoch

NextEpoch(k) == tk[k].basis.epoch + 1

(* The old owner's binding is revoked, the new owner's continues its version.*)
TransferBindings(k, r) ==
  bind' = [bind EXCEPT ![tk[k].basis.owner] = Revoked(@),
                       ![tk[k].by] = BindingFor(r, NextBindingVersion(tk[k].basis.ver))]

CommitTransfer(t) ==
  LET k == th[t].k
      r == th[t].run
      e == NextEpoch(k) IN
  /\ th[t].pc = "decide" /\ th[t].plan = "confirm"
  /\ TransferCAS(t)
  /\ CanBind(tk[k].by, r) /\ tk[k].basis.ver < MaxVersion
  /\ rec' = [rec EXCEPT ![r].owner = tk[k].by, ![r].epoch = e]
  /\ TransferBindings(k, r)
  /\ tk' = [tk EXCEPT ![k].op = "approved", ![k].chal = "confirmed",
                      ![k].appr = IF th[t].appr = "pending" THEN "approved" ELSE @]
  /\ transfers' = transfers \cup {<<r, e>>}
  /\ open' = open \cup {<<r, e>>}
  /\ touched' = Touched(r) \ {k}
  /\ Done(t)
  /\ UNCHANGED <<freeze, closed>>

(* A late challenge is replaced by a fresh one on the current basis, and its *)
(* approval counts as given.                                                 *)
CommitReissue(t) ==
  LET k == th[t].k IN
  /\ th[t].pc = "decide" /\ th[t].plan = "reissue"
  /\ ReissueCAS(t) /\ tk[k].issue < MaxIssue
  /\ tk' = [tk EXCEPT ![k].appr = "approved", ![k].age = 0, ![k].issue = @ + 1,
                      ![k].basis = OwnershipBasis(tk[k].run)]
  /\ touched' = touched \ {k}
  /\ Done(t)
  /\ UNCHANGED <<rec, bind, transfers, open, freeze, closed>>

(* Mutant: the approval is left to itself. *)
EndWithoutApproval(k, st, both) ==
  [tk EXCEPT ![k].op = st, ![k].chal = st]

(* Terminalize challenge and request operation, and the approval with them.  *)
EndTakeover(k, st, both) ==
  [tk EXCEPT ![k].op = st, ![k].chal = st,
             ![k].appr = IF both THEN st ELSE @]

(* The approval ends too where it was read as pending or as timed out.       *)
CommitEnding(t) ==
  LET k  == th[t].k
      st == IF th[t].plan = "invalidate" THEN "invalidated" ELSE "expired" IN
  /\ th[t].pc = "decide" /\ th[t].plan \in {"invalidate", "expire", "expireboth"}
  /\ EndingCAS(t)
  /\ tk' = EndTakeover(k, st, th[t].appr = "pending" \/ th[t].plan = "expireboth")
  /\ Done(t)
  /\ UNCHANGED <<rec, bind, transfers, open, freeze, closed, touched>>

(* The transaction lost its CAS: the thread looks again.                     *)
LoseFence(t) ==
  /\ th[t].pc = "decide"
  /\ CASE th[t].plan = "confirm" -> ~TransferCAS(t)
       [] th[t].plan = "reissue" -> ~ReissueCAS(t)
       [] OTHER -> ~EndingCAS(t)
  /\ th' = [th EXCEPT ![t].pc = "lost"]
  /\ UNCHANGED <<tables, claim, touched>>

(* ... and invalidates a challenge that is pending on a basis that is gone.  *)
ReconcileLoss(t) ==
  LET k == th[t].k IN
  /\ th[t].pc = "lost"
  /\ tk' = IF OpenRequest(k) /\ OwnershipBasis(tk[k].run) # tk[k].basis
             THEN EndTakeover(k, "invalidated", tk[k].appr = "pending")
             ELSE tk
  /\ Done(t)
  /\ UNCHANGED <<rec, bind, transfers, open, freeze, closed, touched>>

(* A human denies a pending approval. *)
Deny(k) ==
  /\ "deny" \in Calls
  /\ tk[k].appr = "pending" /\ tk[k].age < 2
  /\ tk[k].chal = "pending" /\ tk[k].op = "pending"
  /\ Free(StoryOf[tk[k].run])
  /\ tk' = EndTakeover(k, "denied", TRUE)
  /\ UNCHANGED <<rec, bind, transfers, open, freeze, claim, closed, th, touched>>

------------------------------------------------------------------------------
(* Recovery, by a human: a fresh run supersedes the active one.  The binding *)
(* that is revoked is whichever the superseded owner has.                    *)

Recoverable(r) ==
  /\ Free(StoryOf[r]) /\ freeze[StoryOf[r]] = {}
  /\ ~Unreconciled(StoryOf[r])

Recover(x, old, new) ==
  LET owner == rec[old].owner
      v     == NextBindingVersion(bind[x].ver) IN
  /\ "recover" \in Calls /\ x \in Humans
  /\ StoryOf[old] = StoryOf[new] /\ rec[new] = NoRecord
  /\ rec[old].status = "active" /\ Recoverable(old)
  /\ bind[owner].status = "active"
  /\ x = owner \/ CanBind(x, new)
  /\ v <= MaxVersion
  /\ rec' = [rec EXCEPT ![old].status = "transferred",
                        ![new] = [status |-> "active", owner |-> x,
                                  epoch |-> INITIAL_OWNERSHIP_EPOCH]]
  /\ bind' = [bind EXCEPT ![owner] = Revoked(@), ![x] = BindingFor(new, v)]
  /\ touched' = Touched(old)
  /\ UNCHANGED <<tk, transfers, open, freeze, claim, closed, th>>

------------------------------------------------------------------------------
(* Reconciling a transfer.  The new owner is admitted (a contested freeze     *)
(* does not stop it) before it takes the claim; nothing fences it later.     *)

ReconcileAdmit(t, x, r) ==
  /\ "reconcile" \in Calls /\ th[t] = Idle
  /\ freeze[StoryOf[r]] \subseteq {"contested"}
  /\ Owns(x, r)
  /\ th' = [th EXCEPT ![t] = [Idle EXCEPT !.pc = "reconcile", !.ses = x, !.run = r,
                                          !.epoch = rec[r].epoch]]
  /\ UNCHANGED <<tables, claim, touched>>

(* The transfer of the epoch is marked, the contested freeze deleted. *)
ClearObligation(r, e) ==
  /\ <<r, e>> \in open
  /\ open' = open \ {<<r, e>>}
  /\ freeze' = [freeze EXCEPT ![StoryOf[r]] = @ \ {"contested"}]

ReconcileClears(t) ==
  /\ th[t].pc = "reconcile" /\ Free(StoryOf[th[t].run])
  /\ ClearObligation(th[t].run, th[t].epoch)
  /\ Done(t)
  /\ UNCHANGED <<rec, bind, tk, transfers, closed, touched>>

(* Mutant: challenges survive the freeze. *)
FreezeKeepsChallenges(s, kind) ==
  /\ freeze' = [freeze EXCEPT ![s] = @ \cup {kind}]
  /\ UNCHANGED tk

(* Entering a freeze ends, in the same transaction, the pending challenges   *)
(* of the story with their operations, and every approval pending or given.  *)
EnterFreeze(s, kind) ==
  /\ freeze' = [freeze EXCEPT ![s] = @ \cup {kind}]
  /\ tk' = [k \in Takeovers |->
              IF tk[k] = NoTakeover \/ StoryOf[tk[k].run] # s THEN tk[k]
              ELSE LET hit == tk[k].chal = "pending" IN
                   [tk[k] EXCEPT
                      !.op = IF hit THEN "invalidated" ELSE @,
                      !.chal = IF hit THEN "invalidated" ELSE @,
                      !.appr = IF @ \in {"pending", "approved"}
                                 THEN "invalidated" ELSE @]]

ReconcileContests(t) ==
  /\ th[t].pc = "reconcile" /\ Free(StoryOf[th[t].run])
  /\ <<th[t].run, th[t].epoch>> \in open
  /\ EnterFreeze(StoryOf[th[t].run], "contested")
  /\ Done(t)
  /\ UNCHANGED <<rec, bind, transfers, open, closed, touched>>

AdminClear(r) ==
  /\ "adminclear" \in Calls /\ Free(StoryOf[r])
  /\ rec[r].status = "active"
  /\ ClearObligation(r, rec[r].epoch)
  /\ UNCHANGED <<rec, bind, tk, transfers, claim, closed, th, touched>>

(* The conflict freeze of the governance layer takes no claim. *)
ConflictFreeze(s) ==
  /\ "conflict" \in Calls /\ "conflict" \notin freeze[s]
  /\ EnterFreeze(s, "conflict")
  /\ UNCHANGED <<rec, bind, transfers, open, claim, closed, th, touched>>

ReleaseConflictFreeze(s) ==
  /\ "conflict" \in freeze[s]
  /\ freeze' = [freeze EXCEPT ![s] = @ \ {"conflict"}]
  /\ UNCHANGED <<rec, bind, tk, transfers, open, claim, closed, th, touched>>

------------------------------------------------------------------------------
(* The ends of a run.                                                        *)

(* Mutant: the run ends and the binding stays. *)
DisownLeavesBinding(x, r, status) ==
  /\ BoundTo(x, r) /\ rec[r].status = "active"
  /\ rec' = [rec EXCEPT ![r].status = status]
  /\ closed' = closed \cup {r}
  /\ touched' = Touched(r)
  /\ UNCHANGED bind

(* One transaction: operation committed, the active record made terminal,    *)
(* one exact active binding revoked.                                         *)
Disown(x, r, status) ==
  /\ BoundTo(x, r) /\ rec[r].status = "active"
  /\ rec' = [rec EXCEPT ![r].status = status]
  /\ bind' = [bind EXCEPT ![x] = Revoked(@)]
  /\ closed' = closed \cup {r}
  /\ touched' = Touched(r)

(* A human exits the story for the session that is bound; no claim.          *)
Exit(x) ==
  /\ "exit" \in Calls /\ bind[x].status = "active"
  /\ Disown(x, bind[x].run, "ended")
  /\ UNCHANGED <<tk, transfers, open, freeze, claim, th>>

(* Reset, whose run is resolved first, aborts the claimed operations of the   *)
(* story (only start has one) together with their story claim ...            *)
ResetQuiesce(t, r) ==
  LET aborted == {u \in Threads : th[u].pc = "finalize"
                                    /\ StoryOf[th[u].run] = StoryOf[r]} IN
  /\ "reset" \in Calls /\ th[t] = Idle
  /\ rec[r].status = "active"
  /\ th' = [u \in Threads |-> IF u = t THEN [Idle EXCEPT !.pc = "reset", !.run = r]
                              ELSE IF u \in aborted THEN Idle ELSE th[u]]
  /\ claim' = [s \in Stories |-> IF claim[s] \in aborted THEN None ELSE claim[s]]
  /\ UNCHANGED <<tables, touched>>

(* ... and then disowns whoever owns the run by now; no claim.               *)
Reset(t) ==
  LET r == th[t].run IN
  /\ th[t].pc = "reset"
  /\ rec[r].status = "active"
  /\ Disown(rec[r].owner, r, "reset")
  /\ Done(t)
  /\ UNCHANGED <<tk, transfers, open, freeze>>

(* The split saga: freeze, terminal transition, thaw.                        *)
SplitFreeze(s) ==
  /\ "split" \in Calls /\ Free(s) /\ "split" \notin freeze[s]
  /\ EnterFreeze(s, "split")
  /\ UNCHANGED <<rec, bind, transfers, open, claim, closed, th, touched>>

Split(r) ==
  /\ "split" \in freeze[StoryOf[r]] /\ Free(StoryOf[r])
  /\ rec[r].status = "active"
  /\ Disown(rec[r].owner, r, "split")
  /\ UNCHANGED <<tk, transfers, open, freeze, claim, th>>

SplitThaw(s) ==
  /\ "split" \in freeze[s] /\ ActiveRuns(s) = {}
  /\ freeze' = [freeze EXCEPT ![s] = @ \ {"split"}]
  /\ UNCHANGED <<rec, bind, tk, transfers, open, claim, closed, th, touched>>

------------------------------------------------------------------------------
ThreadStep(t) ==
  \/ Admit(t) \/ CommitWork(t) \/ CommitClosure(t)
  \/ StartUnderClaim(t) \/ FinalizeStart(t)
  \/ SaveOperation(t) \/ InsertChallenge(t)
  \/ CommitTransfer(t) \/ CommitReissue(t) \/ CommitEnding(t)
  \/ LoseFence(t) \/ ReconcileLoss(t)
  \/ ReconcileClears(t) \/ ReconcileContests(t) \/ Reset(t)
  \/ GiveUp(t)

Call(t) ==
  \/ \E x \in Sessions, r \in Runs :
       \/ \E c \in {"start", "work", "closure"} : Gate(t, c, x, r)
       \/ \E k \in Takeovers : RequestTakeover(t, k, x, r)
       \/ ReconcileAdmit(t, x, r)
  \/ \E k \in Takeovers : ConfirmRead(t, k)
  \/ \E r \in Runs : ResetQuiesce(t, r)

Next ==
  \/ \E t \in Threads : Call(t) \/ ThreadStep(t)
  \/ \E k \in Takeovers : TimePasses(k) \/ Deny(k)
  \/ \E x \in Sessions : \/ Exit(x)
                         \/ \E r1, r2 \in Runs : Recover(x, r1, r2)
  \/ \E r \in Runs : AdminClear(r) \/ Split(r)
  \/ \E s \in Stories : \/ ConflictFreeze(s) \/ ReleaseConflictFreeze(s)
                        \/ SplitFreeze(s) \/ SplitThaw(s)

Spec == Init /\ [][Next]_vars
------------------------------------------------------------------------------
(* Properties.                                                               *)

Outcomes == {"denied", "expired", "invalidated"}

TakeoverType ==
  [by : Sessions \cup {None}, run : Runs \cup {None},
   op : {"none", "pending", "offered", "approved"} \cup Outcomes,
   appr : {"none", "pending", "approved"} \cup Outcomes,
   chal : {"none", "pending", "confirmed"} \cup Outcomes,
   basis : [owner : Sessions \cup {None}, epoch : Nat, ver : 0..MaxVersion],
   issue : 0..MaxIssue, age : 0..2]

ThreadType ==
  [pc : {"idle", "admit", "commit", "finalize", "saveop", "challenge",
         "decide", "lost", "reconcile", "reset"},
   call : {None, "start", "work", "closure"},
   ses : Sessions \cup {None}, run : Runs \cup {None},
   epoch : Nat, k : Takeovers \cup {0},
   plan : {None, "mint", "enter", "confirm", "reissue", "invalidate", "expire",
           "expireboth"},
   appr : {"none", "pending", "approved"} \cup Outcomes, ver : 0..MaxVersion]

(* Type correctness; a story claim is held by a thread that is under way.    *)
TypeOK ==
  /\ rec \in [Runs -> [status : {"none", "active", "transferred", "ended",
                                "reset", "split"},
                      owner : Sessions \cup {None}, epoch : Nat]]
  /\ bind \in [Sessions -> [status : {"none", "active", "revoked"},
                            run : Runs \cup {None}, ver : 0..MaxVersion]]
  /\ tk \in [Takeovers -> TakeoverType]
  /\ open \subseteq transfers
  /\ \A z \in transfers : z[1] \in Runs /\ z[2] \in Nat
  /\ freeze \in [Stories -> SUBSET FreezeKinds]
  /\ claim \in [Stories -> Threads \cup {None}]
  /\ \A s \in Stories : claim[s] # None => th[claim[s]] # Idle
  /\ closed \subseteq Runs /\ touched \subseteq Takeovers
  /\ th \in [Threads -> ThreadType]

(* One owner: a story has at most one active run, and a session whose        *)
(* binding is active owns the run it is bound to.  Takeover, recovery, exit,  *)
(* reset and split each write the record and the bindings in a transaction.  *)
OneOwner ==
  /\ \A s \in Stories : Cardinality(ActiveRuns(s)) <= 1
  /\ \A x \in Sessions : bind[x].status = "active" => Owns(x, bind[x].run)

(* The epoch is a fencing token: as long as the epoch that an admitted call   *)
(* has read is still current, its session is still the owner.                *)
EpochFences ==
  \A t \in Threads :
    ( /\ th[t].pc \in {"commit", "reconcile"}
      /\ rec[th[t].run].epoch = th[t].epoch ) => rec[th[t].run].owner = th[t].ses

(* A run that is over is never taken up again, and the epoch of a run only    *)
(* grows, by one with each change of owner.                                  *)
OwnershipHistory ==
  [][\A r \in Runs :
       /\ rec[r].status \notin {"none", "active"} => rec'[r] = rec[r]
       /\ rec[r].status = "active" =>
            IF rec'[r].owner = rec[r].owner THEN rec'[r].epoch = rec[r].epoch
            ELSE rec'[r].epoch = rec[r].epoch + 1]_vars

(* An active run changes its owner only in favour of a session whose          *)
(* challenge was pending and named the present owner and epoch, with a        *)
(* human's approval where the principal needs one, and never while the story *)
(* is frozen, whenever the freeze was entered.                               *)
TransferIsAgreed ==
  [][\A r \in Runs :
       (rec[r].status = "active" /\ rec'[r].owner # rec[r].owner) =>
         /\ freeze[StoryOf[r]] = {}
         /\ \E k \in Takeovers :
              /\ tk[k].chal = "pending" /\ tk'[k].chal = "confirmed"
              /\ tk[k].by = rec'[r].owner
              /\ tk[k].basis.owner = rec[r].owner /\ tk[k].basis.epoch = rec[r].epoch
              /\ tk[k].by \in NeedApproval => tk'[k].appr = "approved"]_vars

(* What the human confirms is what the challenge shows: nothing was committed *)
(* on the run, and its ownership did not change, since it was issued.        *)
ConfirmedAsShown ==
  [][\A k \in Takeovers :
       (tk[k].chal = "pending" /\ tk'[k].chal = "confirmed") => k \notin touched]_vars

(* No ping-pong: a run that came to its owner by takeover is taken over again *)
(* only by a privileged principal.                                           *)
NoPingPong ==
  \A k \in Takeovers :
    (tk[k].chal = "confirmed" /\ tk[k].basis.epoch > INITIAL_OWNERSHIP_EPOCH)
      => tk[k].by \in Privileged

(* Challenge, request operation and approval come to their end together: no   *)
(* request is left open for a challenge that ended, or ends in another way,   *)
(* and an approval stays pending only if it timed out or the request broke    *)
(* off before its challenge.                                                 *)
EndTogether ==
  \A k \in Takeovers :
    /\ tk[k].chal = "pending" => tk[k].op \in {"pending", "offered"}
    /\ tk[k].chal = "confirmed" => tk[k].op = "approved"
    /\ tk[k].chal \in Outcomes => tk[k].op = tk[k].chal
    /\ tk[k].appr = "pending" =>
         \/ tk[k].chal \in {"none", "pending"}
         \/ tk[k].chal = "invalidated" /\ tk[k].age = 2

(* A reconcile obligation comes first: no phase of a run is completed or      *)
(* failed while the transfer to its present owner is unreconciled.           *)
ReconcileBeforeWork ==
  [][\A t \in Threads :
       (th[t].pc = "commit" /\ th[t].call = "work" /\ bind' # bind /\ th'[t] = Idle)
         => ~Unreconciled(StoryOf[th[t].run])]_vars

(* Every mutating path is fenced by the current epoch, reconciliation too:    *)
(* only the present owner clears or contests an obligation.                  *)
ReconcileByOwner ==
  [][\A t \in Threads :
       (th[t].pc = "reconcile" /\ th'[t] = Idle /\ <<open, freeze>>' # <<open, freeze>>)
         => Owns(th[t].ses, th[t].run) /\ rec[th[t].run].epoch = th[t].epoch]_vars

(* A session is taken off a run only together with a change of that run's     *)
(* own ownership record (or by its own closure, which deletes the binding).  *)
RevokedWithItsRun ==
  [][\A x \in Sessions :
       ( /\ bind[x].status = "active" /\ bind'[x] # NoBinding
         /\ bind'[x].status = "revoked" \/ bind'[x].run # bind[x].run )
         => rec'[bind[x].run] # rec[bind[x].run]]_vars
==============================================================================
