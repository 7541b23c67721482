-------------------------- MODULE RunOwnershipProofs -------------------------
(***************************************************************************)
(* Proofs about RunOwnership, for any runs, stories, sessions, threads and *)
(* takeover requests, and any bound of versions and reissues.              *)
(***************************************************************************)
EXTENDS RunOwnership, FiniteSetTheorems, TLAPS

------------------------------------------------------------------------------
(* The shapes of all tables and threads; TypeOK is a part of them.            *)

Records == [status : {"none", "active", "transferred", "ended", "reset", "split"},
            owner : Sessions \cup {None}, epoch : Nat]

Bindings == [status : {"none", "active", "revoked"},
             run : Runs \cup {None}, ver : 0..MaxVersion]

(* A record names its owner, an active binding its run.                      *)
RecordShape(a) ==
  /\ a.status = "none" => a = NoRecord
  /\ a.status # "none" => a.owner \in Sessions /\ a.epoch >= 1

Tables ==
  /\ rec \in [Runs -> Records] /\ \A r \in Runs : RecordShape(rec[r])
  /\ bind \in [Sessions -> Bindings]
  /\ \A x \in Sessions : bind[x].status = "active" => bind[x].run \in Runs
  /\ open \subseteq transfers
  /\ \A z \in transfers : z[1] \in Runs /\ z[2] \in Nat
  /\ freeze \in [Stories -> SUBSET FreezeKinds]
  /\ closed \subseteq Runs /\ touched \subseteq Takeovers

(* A request names its session, its run and the owner it is directed at.     *)
RequestShape(a) ==
  \/ a = NoTakeover
  \/ /\ a.by \in Sessions /\ a.run \in Runs
     /\ a.basis.owner \in Sessions /\ a.by # a.basis.owner

Requests ==
  /\ tk \in [Takeovers -> TakeoverType]
  /\ \A k \in Takeovers : RequestShape(tk[k])

Plans == {"confirm", "reissue", "invalidate", "expire", "expireboth"}

(* The steps of a thread that works on a takeover request. *)
TakeoverSteps == {"saveop", "challenge", "decide", "lost"}

ThreadShape(h) ==
  /\ h.pc = "idle" => h = Idle
  /\ h.pc \in {"admit", "commit", "finalize", "reconcile"} => h.ses \in Sessions /\ h.run \in Runs
  /\ h.pc = "reset" => h.run \in Runs
  /\ h.pc \in TakeoverSteps => h.k \in Takeovers
  /\ h.pc = "decide" => h.run \in Runs /\ h.plan \in Plans

ThreadTypes ==
  /\ th \in [Threads -> ThreadType]
  /\ \A t \in Threads : ThreadShape(th[t])

ClaimTypes ==
  /\ claim \in [Stories -> Threads \cup {None}]
  /\ \A s \in Stories : claim[s] # None => th[claim[s]].pc # "idle"

Shapes == Tables /\ Requests /\ ThreadTypes /\ ClaimTypes

------------------------------------------------------------------------------
(* One owner, and the bindings that go with it.                              *)

OneActive == \A p, r \in Runs :
  rec[p].status = "active" /\ rec[r].status = "active" /\ StoryOf[p] = StoryOf[r] => p = r

BindingOwns == \A x \in Sessions : bind[x].status = "active" => Owns(x, bind[x].run)

OwnerInv == OneActive /\ BindingOwns

------------------------------------------------------------------------------
(* What a thread has in hand.                                                *)

(* A thread that works on a request holds the claim of the story.            *)
ClaimHeld(t) == th[t].pc \in TakeoverSteps =>
  tk[th[t].k] # NoTakeover /\ claim[StoryOf[tk[th[t].k].run]] = t

(* The order of the transactions of one request. *)
RequestOrder(t) ==
  /\ th[t].pc \in {"saveop", "challenge"} => tk[th[t].k].chal = "none"
  /\ th[t].pc = "challenge" => tk[th[t].k].op \in {"pending", "offered"}
  /\ th[t].pc \in {"decide", "lost"} => tk[th[t].k].chal # "none"

HandInv == \A t \in Threads : ClaimHeld(t) /\ RequestOrder(t)

(* The epoch a thread remembers was that of its run under its session.        *)
EpochKept(t) == th[t].pc \in {"commit", "reconcile"} =>
  /\ rec[th[t].run].status # "none" /\ th[t].epoch <= rec[th[t].run].epoch
  /\ rec[th[t].run].epoch = th[t].epoch => rec[th[t].run].owner = th[t].ses

EpochInv == \A t \in Threads : EpochKept(t)

(* What a confirm has decided on and still finds, as long as the challenge is *)
(* pending: no freeze, the same approval, the epoch and the barrier it read.  *)
DecisionHolds(t) ==
  LET h == th[t]
      a == tk[th[t].k] IN
  h.pc = "decide" =>
    /\ StoryOf[h.run] = StoryOf[a.run]
    /\ a.chal = "pending" => freeze[StoryOf[a.run]] = {}
    /\ a.appr = "pending" =>
         h.appr = "pending" \/ h.plan = "expireboth" \/ (h.plan = "invalidate" /\ a.age = 2)
    /\ h.plan = "confirm" =>
         /\ a.by \in NeedApproval => h.appr \in {"pending", "approved"}
         /\ h.appr = "approved" /\ a.chal = "pending" => a.appr = "approved"
         /\ a.basis.epoch <= rec[h.run].epoch
         /\ <<h.run, a.basis.epoch>> \notin transfers \/ a.by \in Privileged

DecisionInv == \A t \in Threads : DecisionHolds(t)

(* Epochs after the first were reached by takeover, and a takeover reaches    *)
(* none that is still to come.                                               *)
TransferInv ==
  /\ \A r \in Runs : rec[r].status # "none" /\ rec[r].epoch > INITIAL_OWNERSHIP_EPOCH
                       => <<r, rec[r].epoch>> \in transfers
  /\ \A z \in transfers : z[2] <= rec[z[1]].epoch

------------------------------------------------------------------------------
(* Type correctness: the tables.                                             *)

LEMMA BindingWritten ==
  ASSUME Tables, NEW x \in Sessions, NEW b \in Bindings, b.status = "active" => b.run \in Runs,
         bind' = [bind EXCEPT ![x] = b]
  PROVE  /\ bind' \in [Sessions -> Bindings]
         /\ \A y \in Sessions : bind'[y].status = "active" => bind'[y].run \in Runs
         /\ bind'[x] = b /\ \A y \in Sessions : y # x => bind'[y] = bind[y]
BY DEF Tables

LEMMA Rebound ==
  ASSUME Tables, NEW x \in Sessions, NEW r \in Runs, Rebind(x, r)
  PROVE  /\ bind' \in [Sessions -> Bindings]
         /\ \A y \in Sessions : bind'[y].status = "active" => bind'[y].run \in Runs
         /\ bind'[x].status = "active" /\ bind'[x].run = r
         /\ \A y \in Sessions : y # x => bind'[y] = bind[y]
<1>1. PICK b : b = BindingFor(r, NextBindingVersion(bind[x].ver))
  OBVIOUS
<1>2. NextBindingVersion(bind[x].ver) \in 0..MaxVersion
  BY OwnershipAssumption DEF Rebind, NextBindingVersion, MIN_BINDING_VERSION, Tables, Bindings
<1>3. b \in Bindings /\ b.status = "active" /\ b.run = r
  BY <1>1, <1>2 DEF BindingFor, Bindings
<1>4. bind' = [bind EXCEPT ![x] = b]
  BY <1>1 DEF Rebind
<1> QED
  BY <1>3, <1>4, BindingWritten

LEMMA RecordWritten ==
  ASSUME Tables, NEW r \in Runs, NEW a \in Records, RecordShape(a), rec' = [rec EXCEPT ![r] = a]
  PROVE  /\ rec' \in [Runs -> Records] /\ \A p \in Runs : RecordShape(rec'[p])
         /\ rec'[r] = a /\ \A p \in Runs : p # r => rec'[p] = rec[p]
BY DEF Tables

(* The end of a run: record and binding are written together. *)
LEMMA Disowned ==
  ASSUME Tables, NEW x \in Sessions, NEW r \in Runs, NEW st \in {"ended", "reset", "split"},
         Disown(x, r, st)
  PROVE  /\ rec' \in [Runs -> Records] /\ \A p \in Runs : RecordShape(rec'[p])
         /\ rec[r].status = "active" /\ rec'[r].status = st
         /\ rec'[r].owner = rec[r].owner /\ rec'[r].epoch = rec[r].epoch
         /\ \A p \in Runs : p # r => rec'[p] = rec[p]
         /\ bind' \in [Sessions -> Bindings]
         /\ \A y \in Sessions : bind'[y].status = "active" => bind'[y].run \in Runs
         /\ bind[x].status = "active" /\ bind[x].run = r /\ bind'[x].status = "revoked"
         /\ \A y \in Sessions : y # x => bind'[y] = bind[y]
<1>1. PICK a : a = [rec[r] EXCEPT !.status = st]
  OBVIOUS
<1>2. rec[r] \in Records /\ RecordShape(rec[r]) /\ rec[r].status = "active"
  BY DEF Disown, Tables
<1>3. /\ a \in Records /\ a.status = st /\ a.owner = rec[r].owner /\ a.epoch = rec[r].epoch
  BY <1>1, <1>2 DEF Records
<1>4. RecordShape(a)
  BY <1>2, <1>3 DEF RecordShape
<1>5. rec' = [rec EXCEPT ![r] = a]
  BY <1>1 DEF Disown
<1>6. PICK b : b = Revoked(bind[x])
  OBVIOUS
<1>7. bind[x] \in Bindings /\ bind[x].status = "active" /\ bind[x].run = r
  BY DEF Disown, Tables, BoundTo
<1>8. b \in Bindings /\ b.status = "revoked"
  BY <1>6, <1>7 DEF Revoked, Bindings
<1>9. bind' = [bind EXCEPT ![x] = b]
  BY <1>6 DEF Disown
<1>10. /\ rec' \in [Runs -> Records] /\ \A p \in Runs : RecordShape(rec'[p])
       /\ rec'[r] = a /\ \A p \in Runs : p # r => rec'[p] = rec[p]
  BY <1>3, <1>4, <1>5, RecordWritten
<1>11. /\ bind' \in [Sessions -> Bindings]
       /\ \A y \in Sessions : bind'[y].status = "active" => bind'[y].run \in Runs
       /\ bind'[x] = b /\ \A y \in Sessions : y # x => bind'[y] = bind[y]
  BY <1>8, <1>9, BindingWritten
<1> QED
  BY <1>2, <1>3, <1>7, <1>8, <1>10, <1>11

(* A start inserts the first record of a run.                                *)
LEMMA Inserted ==
  ASSUME Tables, NEW x \in Sessions, NEW r \in Runs, InsertOwnershipRecord(r, x)
  PROVE  /\ rec' \in [Runs -> Records] /\ \A p \in Runs : RecordShape(rec'[p])
         /\ rec[r] = NoRecord
         /\ rec'[r].status = "active" /\ rec'[r].owner = x /\ rec'[r].epoch = INITIAL_OWNERSHIP_EPOCH
         /\ \A p \in Runs : p # r => rec'[p] = rec[p]
         /\ \A p \in Runs : StoryOf[p] = StoryOf[r] => rec[p].status # "active"
<1>1. PICK a : a = [status |-> "active", owner |-> x, epoch |-> INITIAL_OWNERSHIP_EPOCH]
  OBVIOUS
<1>2. a \in Records /\ RecordShape(a)
  BY <1>1 DEF Records, RecordShape, INITIAL_OWNERSHIP_EPOCH
<1>3. rec' = [rec EXCEPT ![r] = a] /\ rec[r] = NoRecord /\ ActiveRuns(StoryOf[r]) = {}
  BY <1>1 DEF InsertOwnershipRecord
<1>4. \A p \in Runs : StoryOf[p] = StoryOf[r] => rec[p].status # "active"
  BY <1>3 DEF ActiveRuns
<1> QED
  BY <1>1, <1>2, <1>3, <1>4, RecordWritten

(* What a basis read from the tables says. *)
LEMMA BasisIsCurrent ==
  ASSUME Tables, NEW r \in Runs
  PROVE  /\ OwnershipBasis(r) \in [owner : Sessions \cup {None}, epoch : Nat, ver : 0..MaxVersion]
         /\ OwnershipBasis(r).owner \in Sessions =>
              /\ rec[r].status = "active" /\ OwnershipBasis(r).owner = rec[r].owner
              /\ OwnershipBasis(r).epoch = rec[r].epoch
              /\ BoundTo(rec[r].owner, r) /\ OwnershipBasis(r).ver = bind[rec[r].owner].ver
<1>1. CASE rec[r].status = "active" /\ BoundTo(rec[r].owner, r)
  <2>1. rec[r].owner \in Sessions /\ rec[r].epoch \in Nat
    BY <1>1 DEF Tables, Records, RecordShape
  <2>2. bind[rec[r].owner].ver \in 0..MaxVersion
    BY <2>1 DEF Tables, Bindings
  <2> QED
    BY <1>1, <2>1, <2>2 DEF OwnershipBasis
<1>2. CASE ~(rec[r].status = "active" /\ BoundTo(rec[r].owner, r))
  BY <1>2, OwnershipAssumption DEF OwnershipBasis, NoBasis
<1> QED
  BY <1>1, <1>2

(* A request in the hands of a thread. *)
LEMMA RequestInHand ==
  ASSUME Shapes, HandInv, NEW t \in Threads, th[t].pc \in TakeoverSteps
  PROVE  /\ th[t].k \in Takeovers /\ tk[th[t].k] \in TakeoverType /\ tk[th[t].k] # NoTakeover
         /\ tk[th[t].k].by \in Sessions /\ tk[th[t].k].run \in Runs
         /\ tk[th[t].k].basis.owner \in Sessions /\ tk[th[t].k].by # tk[th[t].k].basis.owner
         /\ claim[StoryOf[tk[th[t].k].run]] = t
<1>1. th[t].k \in Takeovers
  BY DEF Shapes, ThreadTypes, ThreadShape
<1> QED
  BY <1>1 DEF Shapes, Requests, RequestShape, HandInv, ClaimHeld

(* A transfer moves the run from the owner of the basis to the session of the *)
(* request, one epoch up, with both bindings.                                *)
LEMMA Transferred ==
  ASSUME Shapes, HandInv, NEW t \in Threads, CommitTransfer(t)
  PROVE  LET a == tk[th[t].k]
             r == th[t].run IN
         /\ r \in Runs /\ rec[r].status = "active"
         /\ a.basis = OwnershipBasis(r) /\ a.basis.owner = rec[r].owner /\ a.basis.epoch = rec[r].epoch
         /\ BoundTo(rec[r].owner, r) /\ a.basis.ver = bind[rec[r].owner].ver
         /\ a.chal = "pending" /\ (th[t].appr = "pending" => a.appr = "pending")
         /\ a.by \in Sessions /\ a.by # rec[r].owner /\ rec[r].owner \in Sessions
         /\ rec' \in [Runs -> Records] /\ \A p \in Runs : RecordShape(rec'[p])
         /\ rec'[r].status = "active" /\ rec'[r].owner = a.by /\ rec'[r].epoch = rec[r].epoch + 1
         /\ \A p \in Runs : p # r => rec'[p] = rec[p]
         /\ bind' \in [Sessions -> Bindings]
         /\ \A y \in Sessions : bind'[y].status = "active" => bind'[y].run \in Runs
         /\ bind'[a.by].status = "active" /\ bind'[a.by].run = r
         /\ bind'[rec[r].owner].status = "revoked"
         /\ \A y \in Sessions : y # a.by /\ y # rec[r].owner => bind'[y] = bind[y]
         /\ CanBind(a.by, r)
         /\ transfers' = transfers \cup {<<r, rec[r].epoch + 1>>}
         /\ open' = open \cup {<<r, rec[r].epoch + 1>>}
<1>1. th[t].pc = "decide" /\ th[t].pc \in TakeoverSteps
  BY DEF CommitTransfer, TakeoverSteps
<1>2. PICK k \in Takeovers : k = th[t].k
  BY <1>1, RequestInHand
<1>3. PICK r \in Runs : r = th[t].run
  BY <1>1 DEF Shapes, ThreadTypes, ThreadShape
<1>4. PICK a : a = tk[k]
  OBVIOUS
<1>5. a.by \in Sessions /\ a.basis.owner \in Sessions /\ a.by # a.basis.owner
      /\ a.basis \in [owner : Sessions \cup {None}, epoch : Nat, ver : 0..MaxVersion]
  BY <1>1, <1>2, <1>4, RequestInHand DEF TakeoverType
<1>6. a.basis = OwnershipBasis(r) /\ a.chal = "pending" /\ (th[t].appr = "pending" => a.appr = "pending")
  BY <1>2, <1>3, <1>4 DEF CommitTransfer, TransferCAS, OpenRequest
<1>7. /\ rec[r].status = "active" /\ a.basis.owner = rec[r].owner /\ a.basis.epoch = rec[r].epoch
      /\ BoundTo(rec[r].owner, r) /\ a.basis.ver = bind[rec[r].owner].ver
  BY <1>5, <1>6, BasisIsCurrent DEF Shapes
<1>8. rec' = [rec EXCEPT ![r].owner = a.by, ![r].epoch = a.basis.epoch + 1]
  BY <1>2, <1>3, <1>4 DEF CommitTransfer, NextEpoch
<1>9. PICK w : w = [rec[r] EXCEPT !.owner = a.by, !.epoch = a.basis.epoch + 1]
  OBVIOUS
<1>10. w \in Records /\ w.status = "active" /\ w.owner = a.by /\ w.epoch = rec[r].epoch + 1
  <2>1. rec[r] \in Records
    BY DEF Shapes, Tables
  <2>2. rec[r].epoch \in Nat /\ a.basis.epoch + 1 = rec[r].epoch + 1
    BY <1>7, <2>1 DEF Records
  <2>3. PICK b \in Records : b = rec[r]
    BY <2>1
  <2>4. PICK e \in Nat : e = rec[r].epoch + 1
    BY <2>2
  <2>5. PICK y \in Sessions : y = a.by
    BY <1>5
  <2>6. w = [b EXCEPT !.owner = y, !.epoch = e]
    BY <1>9, <2>2, <2>3, <2>4, <2>5
  <2>7. w \in Records /\ w.status = b.status /\ w.owner = y /\ w.epoch = e
    BY <2>6 DEF Records
  <2> QED
    BY <1>7, <2>3, <2>4, <2>5, <2>7
<1>11. RecordShape(w)
  BY <1>5, <1>7, <1>10 DEF RecordShape
<1>12. rec' = [rec EXCEPT ![r] = w]
  BY <1>8, <1>9
<1>13. /\ rec' \in [Runs -> Records] /\ \A p \in Runs : RecordShape(rec'[p])
       /\ rec'[r] = w /\ \A p \in Runs : p # r => rec'[p] = rec[p]
  BY <1>10, <1>11, <1>12, RecordWritten DEF Shapes
<1>14. PICK b1 : b1 = Revoked(bind[a.basis.owner])
  OBVIOUS
<1>15. PICK b2 : b2 = BindingFor(r, NextBindingVersion(a.basis.ver))
  OBVIOUS
<1>16. bind' = [bind EXCEPT ![a.basis.owner] = b1, ![a.by] = b2]
  BY <1>2, <1>3, <1>4, <1>14, <1>15 DEF CommitTransfer, TransferBindings
<1>17. b1 \in Bindings /\ b1.status = "revoked"
  BY <1>5, <1>14 DEF Shapes, Tables, Bindings, Revoked
<1>18. a.basis.ver < MaxVersion /\ CanBind(a.by, r)
  BY <1>2, <1>3, <1>4 DEF CommitTransfer
<1>19. NextBindingVersion(a.basis.ver) \in 0..MaxVersion
  BY <1>5, <1>18, OwnershipAssumption DEF NextBindingVersion, MIN_BINDING_VERSION
<1>20. b2 \in Bindings /\ b2.status = "active" /\ b2.run = r
  BY <1>15, <1>19 DEF Bindings, BindingFor
<1>21. /\ bind' \in [Sessions -> Bindings]
       /\ bind'[a.by] = b2 /\ bind'[a.basis.owner] = b1
       /\ \A y \in Sessions : y # a.by /\ y # a.basis.owner => bind'[y] = bind[y]
  BY <1>5, <1>16, <1>17, <1>20 DEF Shapes, Tables
<1>22. \A y \in Sessions : bind'[y].status = "active" => bind'[y].run \in Runs
  BY <1>17, <1>20, <1>21 DEF Shapes, Tables
<1>23. transfers' = transfers \cup {<<r, rec[r].epoch + 1>>} /\ open' = open \cup {<<r, rec[r].epoch + 1>>}
  BY <1>2, <1>3, <1>4, <1>7 DEF CommitTransfer, NextEpoch
<1>24. /\ rec'[r].status = "active" /\ rec'[r].owner = a.by /\ rec'[r].epoch = rec[r].epoch + 1
       /\ rec[r].owner \in Sessions /\ a.by # rec[r].owner
  BY <1>5, <1>7, <1>10, <1>13
<1>25. /\ bind'[a.by].status = "active" /\ bind'[a.by].run = r
       /\ bind'[rec[r].owner].status = "revoked"
       /\ \A y \in Sessions : y # a.by /\ y # rec[r].owner => bind'[y] = bind[y]
  BY <1>7, <1>17, <1>20, <1>21
<1> QED
  BY ZenonT(40), <1>2, <1>3, <1>4, <1>5, <1>6, <1>7, <1>13, <1>18, <1>21, <1>22, <1>23, <1>24, <1>25

(* A recovery supersedes one record by that of a fresh run. *)
LEMMA Recovered ==
  ASSUME Tables, NEW x \in Sessions, NEW old \in Runs, NEW new \in Runs, Recover(x, old, new)
  PROVE  /\ rec' \in [Runs -> Records] /\ \A p \in Runs : RecordShape(rec'[p])
         /\ rec[old].status = "active" /\ rec[new] = NoRecord /\ old # new
         /\ StoryOf[old] = StoryOf[new]
         /\ rec'[old].status = "transferred" /\ rec'[old].owner = rec[old].owner
         /\ rec'[old].epoch = rec[old].epoch
         /\ rec'[new].status = "active" /\ rec'[new].owner = x
         /\ rec'[new].epoch = INITIAL_OWNERSHIP_EPOCH
         /\ \A p \in Runs : p # old /\ p # new => rec'[p] = rec[p]
         /\ bind' \in [Sessions -> Bindings]
         /\ \A y \in Sessions : bind'[y].status = "active" => bind'[y].run \in Runs
         /\ bind'[x].status = "active" /\ bind'[x].run = new
         /\ rec[old].owner \in Sessions
         /\ rec[old].owner # x => bind'[rec[old].owner].status = "revoked"
         /\ \A y \in Sessions : y # x /\ y # rec[old].owner => bind'[y] = bind[y]
<1>1. rec[old].status = "active" /\ rec[new] = NoRecord /\ StoryOf[old] = StoryOf[new]
  BY DEF Recover
<1>2. old # new
  BY <1>1 DEF NoRecord
<1>3. rec[old] \in Records /\ rec[old].owner \in Sessions /\ rec[old].epoch >= 1
  BY <1>1 DEF Tables, RecordShape
<1>4. PICK w : w = [rec[old] EXCEPT !.status = "transferred"]
  OBVIOUS
<1>5. PICK a : a = [status |-> "active", owner |-> x, epoch |-> INITIAL_OWNERSHIP_EPOCH]
  OBVIOUS
<1>6. w \in Records /\ w.status = "transferred" /\ w.owner = rec[old].owner /\ w.epoch = rec[old].epoch
  BY <1>3, <1>4 DEF Records
<1>7. RecordShape(w)
  BY <1>3, <1>6 DEF RecordShape
<1>8. a \in Records /\ RecordShape(a) /\ a.status = "active" /\ a.owner = x /\ a.epoch = INITIAL_OWNERSHIP_EPOCH
  BY <1>5 DEF Records, RecordShape, INITIAL_OWNERSHIP_EPOCH
<1>9. rec' = [rec EXCEPT ![old] = w, ![new] = a]
  BY <1>4, <1>5 DEF Recover
<1>10. /\ rec' \in [Runs -> Records] /\ rec'[old] = w /\ rec'[new] = a
       /\ \A p \in Runs : p # old /\ p # new => rec'[p] = rec[p]
  BY <1>2, <1>6, <1>8, <1>9 DEF Tables
<1>11. \A p \in Runs : RecordShape(rec'[p])
  BY <1>7, <1>8, <1>10 DEF Tables
<1>12. PICK o \in Sessions : o = rec[old].owner
  BY <1>3
<1>13. PICK b1 : b1 = Revoked(bind[o])
  OBVIOUS
<1>14. PICK b2 : b2 = BindingFor(new, NextBindingVersion(bind[x].ver))
  OBVIOUS
<1>15. bind' = [bind EXCEPT ![o] = b1, ![x] = b2]
  BY <1>12, <1>13, <1>14 DEF Recover
<1>16. b1 \in Bindings /\ b1.status = "revoked"
  BY <1>13 DEF Tables, Bindings, Revoked
<1>17. NextBindingVersion(bind[x].ver) \in 0..MaxVersion
  BY OwnershipAssumption DEF Recover, NextBindingVersion, MIN_BINDING_VERSION, Tables, Bindings
<1>18. b2 \in Bindings /\ b2.status = "active" /\ b2.run = new
  BY <1>14, <1>17 DEF Bindings, BindingFor
<1>19. /\ bind' \in [Sessions -> Bindings] /\ bind'[x] = b2 /\ (o # x => bind'[o] = b1)
       /\ \A y \in Sessions : y # x /\ y # o => bind'[y] = bind[y]
  BY <1>15, <1>16, <1>18 DEF Tables
<1>20. \A y \in Sessions : bind'[y].status = "active" => bind'[y].run \in Runs
  BY <1>16, <1>18, <1>19 DEF Tables
<1> QED
  BY <1>1, <1>2, <1>3, <1>6, <1>8, <1>10, <1>11, <1>12, <1>16, <1>18, <1>19, <1>20

------------------------------------------------------------------------------
(* Records, bindings, transfers, freezes and histories.                      *)
LEMMA TablesStep ==
  ASSUME Shapes, HandInv, [Next]_vars
  PROVE  Tables'
<1> USE DEF tables
<1>g. Tables
  BY DEF Shapes
<1>u. ASSUME UNCHANGED <<rec, bind, transfers, open, freeze, closed>>, touched' \subseteq Takeovers
      PROVE  Tables'
  BY <1>g, <1>u DEF Tables
<1>o. UNCHANGED touched => touched' \subseteq Takeovers
  BY <1>g DEF Tables
<1>d. \A r : Touched(r) \subseteq Takeovers
  BY <1>g DEF Tables, Touched
<1>t. ASSUME NEW t \in Threads, th[t].pc \in {"admit", "commit", "finalize", "reconcile"}
      PROVE  th[t].ses \in Sessions /\ th[t].run \in Runs /\ StoryOf[th[t].run] \in Stories
  BY <1>t, OwnershipAssumption DEF Shapes, ThreadTypes, ThreadShape
<1>f. ASSUME NEW s \in Stories, NEW kind \in FreezeKinds
      PROVE  /\ [freeze EXCEPT ![s] = @ \cup {kind}] \in [Stories -> SUBSET FreezeKinds]
             /\ [freeze EXCEPT ![s] = @ \ {kind}] \in [Stories -> SUBSET FreezeKinds]
  BY <1>g DEF Tables
<1>k. {"contested", "conflict", "split"} = FreezeKinds
  BY DEF FreezeKinds
<1>s. \A r \in Runs : StoryOf[r] \in Stories
  BY OwnershipAssumption
<1>1. ASSUME NEW t \in Threads, Admit(t)
      PROVE  Tables'
  BY <1>1, <1>u, <1>o DEF Admit
<1>2. ASSUME NEW t \in Threads, CommitWork(t)
      PROVE  Tables'
  <2>1. PICK x \in Sessions : x = th[t].ses
    BY <1>2, <1>t DEF CommitWork
  <2>2. PICK r \in Runs : r = th[t].run
    BY <1>2, <1>t DEF CommitWork
  <2>3. Rebind(x, r)
    BY <1>2, <2>1, <2>2 DEF CommitWork
  <2> QED
    BY <1>2, <1>g, <1>d, <2>3, Rebound DEF CommitWork, Tables
<1>3. ASSUME NEW t \in Threads, CommitClosure(t)
      PROVE  Tables'
  <2>1. PICK x \in Sessions : x = th[t].ses
    BY <1>3, <1>t DEF CommitClosure
  <2>2. PICK r \in Runs : r = th[t].run
    BY <1>3, <1>t DEF CommitClosure
  <2>3. NoBinding \in Bindings /\ NoBinding.status = "none"
    BY OwnershipAssumption DEF NoBinding, Bindings
  <2>4. bind' = [bind EXCEPT ![x] = NoBinding] /\ closed' = closed \cup {r}
    BY <1>3, <2>1, <2>2 DEF CommitClosure
  <2>5. /\ bind' \in [Sessions -> Bindings]
        /\ \A y \in Sessions : bind'[y].status = "active" => bind'[y].run \in Runs
    BY <1>g, <2>3, <2>4, BindingWritten
  <2> QED
    BY <1>3, <1>g, <1>d, <2>4, <2>5 DEF CommitClosure, Tables
<1>4. ASSUME NEW t \in Threads, StartUnderClaim(t)
      PROVE  Tables'
  BY <1>4, <1>u, <1>o DEF StartUnderClaim
<1>5. ASSUME NEW t \in Threads, FinalizeStart(t)
      PROVE  Tables'
  <2>1. PICK x \in Sessions : x = th[t].ses
    BY <1>5, <1>t DEF FinalizeStart
  <2>2. PICK r \in Runs : r = th[t].run
    BY <1>5, <1>t DEF FinalizeStart
  <2>3. Rebind(x, r) /\ (UNCHANGED rec \/ InsertOwnershipRecord(r, x))
    BY <1>5, <2>1, <2>2 DEF FinalizeStart
  <2>4. rec' \in [Runs -> Records] /\ \A p \in Runs : RecordShape(rec'[p])
    BY <1>g, <2>3, Inserted DEF Tables
  <2> QED
    BY <1>5, <1>g, <1>d, <2>3, <2>4, Rebound DEF FinalizeStart, Tables
<1>6. ASSUME NEW t \in Threads, SaveOperation(t)
      PROVE  Tables'
  BY <1>6, <1>u, <1>o DEF SaveOperation
<1>7. ASSUME NEW t \in Threads, InsertChallenge(t)
      PROVE  Tables'
  BY <1>7, <1>u, <1>o DEF InsertChallenge
<1>8. ASSUME NEW t \in Threads, CommitTransfer(t)
      PROVE  Tables'
  <2>1. PICK r \in Runs : r = th[t].run
    BY <1>8, Transferred
  <2>2. rec[r].epoch + 1 \in Nat
    BY <1>g DEF Tables, Records
  <2>3. /\ transfers' = transfers \cup {<<r, rec[r].epoch + 1>>}
        /\ open' = open \cup {<<r, rec[r].epoch + 1>>}
    BY <1>8, <2>1, Transferred
  <2>4. open' \subseteq transfers' /\ \A z \in transfers' : z[1] \in Runs /\ z[2] \in Nat
    BY <1>g, <2>2, <2>3 DEF Tables
  <2>5. /\ rec' \in [Runs -> Records] /\ \A p \in Runs : RecordShape(rec'[p])
        /\ bind' \in [Sessions -> Bindings]
        /\ \A y \in Sessions : bind'[y].status = "active" => bind'[y].run \in Runs
    BY <1>8, Transferred
  <2> QED
    BY <1>8, <1>g, <1>d, <2>4, <2>5 DEF CommitTransfer, Tables
<1>9. ASSUME NEW t \in Threads, CommitReissue(t)
      PROVE  Tables'
  <2>1. touched' \subseteq Takeovers
    BY <1>9, <1>g DEF CommitReissue, Tables
  <2> QED
    BY <1>9, <1>u, <2>1 DEF CommitReissue
<1>10. ASSUME NEW t \in Threads, CommitEnding(t)
      PROVE  Tables'
  BY <1>10, <1>u, <1>o DEF CommitEnding
<1>11. ASSUME NEW t \in Threads, LoseFence(t)
      PROVE  Tables'
  BY <1>11, <1>u, <1>o DEF LoseFence
<1>12. ASSUME NEW t \in Threads, ReconcileLoss(t)
      PROVE  Tables'
  BY <1>12, <1>u, <1>o DEF ReconcileLoss
<1>13. ASSUME NEW t \in Threads, ReconcileClears(t)
      PROVE  Tables'
  <2>1. PICK s \in Stories : s = StoryOf[th[t].run]
    BY <1>13, <1>t DEF ReconcileClears
  <2>2. freeze' = [freeze EXCEPT ![s] = @ \ {"contested"}] /\ open' \subseteq open
    BY <1>13, <2>1 DEF ReconcileClears, ClearObligation
  <2> QED
    BY <1>13, <1>g, <1>f, <1>k, <2>2 DEF ReconcileClears, Tables
<1>14. ASSUME NEW t \in Threads, ReconcileContests(t)
      PROVE  Tables'
  <2>1. PICK s \in Stories : s = StoryOf[th[t].run]
    BY <1>14, <1>t DEF ReconcileContests
  <2>2. freeze' = [freeze EXCEPT ![s] = @ \cup {"contested"}]
    BY <1>14, <2>1 DEF ReconcileContests, EnterFreeze
  <2> QED
    BY <1>14, <1>g, <1>f, <1>k, <2>2 DEF ReconcileContests, Tables
<1>15. ASSUME NEW t \in Threads, Reset(t)
      PROVE  Tables'
  <2>1. PICK x1 \in Sessions, r1 \in Runs : Disown(x1, r1, "reset")
    BY <1>15, <1>g DEF Reset, Tables, RecordShape, Shapes, ThreadTypes, ThreadShape
  <2>2. closed' \subseteq Runs /\ touched' \subseteq Takeovers
    BY <1>d, <1>g, <2>1 DEF Disown, Tables
  <2>3. /\ rec' \in [Runs -> Records] /\ \A p \in Runs : RecordShape(rec'[p])
        /\ bind' \in [Sessions -> Bindings]
        /\ \A y \in Sessions : bind'[y].status = "active" => bind'[y].run \in Runs
    BY <1>g, <2>1, Disowned
  <2> QED
    BY <1>15, <1>g, <2>2, <2>3 DEF Reset, Tables
<1>16. ASSUME NEW t \in Threads, GiveUp(t)
      PROVE  Tables'
  BY <1>16, <1>u, <1>o DEF GiveUp
<1>17. ASSUME NEW t \in Threads, NEW c \in {"start", "work", "closure"}, NEW x \in Sessions, NEW r \in Runs, Gate(t, c, x, r)
      PROVE  Tables'
  BY <1>17, <1>u, <1>o DEF Gate
<1>18. ASSUME NEW t \in Threads, NEW k \in Takeovers, NEW x \in Sessions, NEW r \in Runs, RequestTakeover(t, k, x, r)
      PROVE  Tables'
  BY <1>18, <1>u, <1>o DEF RequestTakeover
<1>19. ASSUME NEW t \in Threads, NEW x \in Sessions, NEW r \in Runs, ReconcileAdmit(t, x, r)
      PROVE  Tables'
  BY <1>19, <1>u, <1>o DEF ReconcileAdmit
<1>20. ASSUME NEW t \in Threads, NEW k \in Takeovers, ConfirmRead(t, k)
      PROVE  Tables'
  BY <1>20, <1>u, <1>o DEF ConfirmRead
<1>21. ASSUME NEW t \in Threads, NEW r \in Runs, ResetQuiesce(t, r)
      PROVE  Tables'
  BY <1>21, <1>u, <1>o DEF ResetQuiesce
<1>22. ASSUME NEW k \in Takeovers, TimePasses(k)
      PROVE  Tables'
  BY <1>22, <1>u, <1>o DEF TimePasses
<1>23. ASSUME NEW k \in Takeovers, Deny(k)
      PROVE  Tables'
  BY <1>23, <1>u, <1>o DEF Deny
<1>24. ASSUME NEW x \in Sessions, Exit(x)
      PROVE  Tables'
  <2>1. PICK x1 \in Sessions, r1 \in Runs : Disown(x1, r1, "ended")
    BY <1>24, <1>g DEF Exit, Tables
  <2>2. closed' \subseteq Runs /\ touched' \subseteq Takeovers
    BY <1>d, <1>g, <2>1 DEF Disown, Tables
  <2>3. /\ rec' \in [Runs -> Records] /\ \A p \in Runs : RecordShape(rec'[p])
        /\ bind' \in [Sessions -> Bindings]
        /\ \A y \in Sessions : bind'[y].status = "active" => bind'[y].run \in Runs
    BY <1>g, <2>1, Disowned
  <2> QED
    BY <1>24, <1>g, <2>2, <2>3 DEF Exit, Tables
<1>25. ASSUME NEW x \in Sessions, NEW old \in Runs, NEW new \in Runs, Recover(x, old, new)
      PROVE  Tables'
  <2>1. /\ rec' \in [Runs -> Records] /\ \A p \in Runs : RecordShape(rec'[p])
        /\ bind' \in [Sessions -> Bindings]
        /\ \A y \in Sessions : bind'[y].status = "active" => bind'[y].run \in Runs
    BY <1>25, <1>g, Recovered
  <2> QED
    BY <1>25, <1>g, <1>d, <2>1 DEF Recover, Tables
<1>26. ASSUME NEW r \in Runs, AdminClear(r)
      PROVE  Tables'
  <2>1. freeze' = [freeze EXCEPT ![StoryOf[r]] = @ \ {"contested"}] /\ open' \subseteq open
    BY <1>26 DEF AdminClear, ClearObligation
  <2>2. freeze' \in [Stories -> SUBSET FreezeKinds]
    BY <1>f, <1>k, <1>s, <2>1
  <2> QED
    BY <1>26, <1>g, <2>1, <2>2 DEF AdminClear, Tables
<1>27. ASSUME NEW r \in Runs, Split(r)
      PROVE  Tables'
  <2>1. PICK x1 \in Sessions, r1 \in Runs : Disown(x1, r1, "split")
    BY <1>27, <1>g DEF Split, Tables, RecordShape
  <2>2. closed' \subseteq Runs /\ touched' \subseteq Takeovers
    BY <1>d, <1>g, <2>1 DEF Disown, Tables
  <2>3. /\ rec' \in [Runs -> Records] /\ \A p \in Runs : RecordShape(rec'[p])
        /\ bind' \in [Sessions -> Bindings]
        /\ \A y \in Sessions : bind'[y].status = "active" => bind'[y].run \in Runs
    BY <1>g, <2>1, Disowned
  <2> QED
    BY <1>27, <1>g, <2>2, <2>3 DEF Split, Tables
<1>28. ASSUME NEW s \in Stories, ConflictFreeze(s)
      PROVE  Tables'
  <2>1. freeze' \in [Stories -> SUBSET FreezeKinds]
    BY <1>28, <1>f, <1>k DEF ConflictFreeze, EnterFreeze
  <2> QED
    BY <1>28, <1>g, <2>1 DEF ConflictFreeze, Tables
<1>29. ASSUME NEW s \in Stories, ReleaseConflictFreeze(s)
      PROVE  Tables'
  <2>1. freeze' \in [Stories -> SUBSET FreezeKinds]
    BY <1>29, <1>f, <1>k DEF ReleaseConflictFreeze
  <2> QED
    BY <1>29, <1>g, <2>1 DEF ReleaseConflictFreeze, Tables
<1>30. ASSUME NEW s \in Stories, SplitFreeze(s)
      PROVE  Tables'
  <2>1. freeze' \in [Stories -> SUBSET FreezeKinds]
    BY <1>30, <1>f, <1>k DEF SplitFreeze, EnterFreeze
  <2> QED
    BY <1>30, <1>g, <2>1 DEF SplitFreeze, Tables
<1>31. ASSUME NEW s \in Stories, SplitThaw(s)
      PROVE  Tables'
  <2>1. freeze' \in [Stories -> SUBSET FreezeKinds]
    BY <1>31, <1>f, <1>k DEF SplitThaw
  <2> QED
    BY <1>31, <1>g, <2>1 DEF SplitThaw, Tables
<1>32. CASE UNCHANGED vars
  BY <1>32, <1>u, <1>o DEF vars
<1> QED
  BY <1>1, <1>2, <1>3, <1>4, <1>5, <1>6, <1>7, <1>8, <1>9, <1>10, <1>11,
     <1>12, <1>13, <1>14, <1>15, <1>16, <1>17, <1>18, <1>19, <1>20, <1>21,
     <1>22, <1>23, <1>24, <1>25, <1>26, <1>27, <1>28, <1>29, <1>30, <1>31,
     <1>32
     DEF Next, ThreadStep, Call

------------------------------------------------------------------------------
(* The takeover requests.                                                    *)

(* Every way a request changes that leaves its session, run and owner alone. *)
LEMMA RequestChanged ==
  ASSUME Requests, NEW k \in Takeovers, NEW a \in TakeoverType, RequestShape(a),
         tk' = [tk EXCEPT ![k] = a]
  PROVE  /\ Requests' /\ tk'[k] = a
         /\ \A j \in Takeovers : j # k => tk'[j] = tk[j]
BY DEF Requests

LEMMA EndedRequest ==
  ASSUME Requests, NEW k \in Takeovers, tk[k] # NoTakeover, NEW st \in Outcomes, NEW both \in BOOLEAN,
         tk' = EndTakeover(k, st, both)
  PROVE  /\ Requests' /\ tk' = [tk EXCEPT ![k] = tk'[k]]
         /\ \A j \in Takeovers : j # k => tk'[j] = tk[j]
         /\ tk'[k].chal = st /\ tk'[k].op = st /\ tk'[k].appr = (IF both THEN st ELSE tk[k].appr)
         /\ tk'[k].by = tk[k].by /\ tk'[k].run = tk[k].run /\ tk'[k].basis = tk[k].basis
         /\ tk'[k].age = tk[k].age /\ tk'[k].issue = tk[k].issue
<1>1. tk[k] \in TakeoverType /\ RequestShape(tk[k])
  BY DEF Requests
<1>2. PICK a : a = [tk[k] EXCEPT !.op = st, !.chal = st, !.appr = IF both THEN st ELSE @]
  OBVIOUS
<1>3. /\ a \in TakeoverType
      /\ a.chal = st /\ a.op = st /\ a.appr = (IF both THEN st ELSE tk[k].appr)
      /\ a.by = tk[k].by /\ a.run = tk[k].run /\ a.basis = tk[k].basis
      /\ a.age = tk[k].age /\ a.issue = tk[k].issue
  BY ZenonT(40), <1>1, <1>2 DEF TakeoverType, Outcomes
<1>4. RequestShape(a)
  BY <1>1, <1>3 DEF RequestShape
<1>5. tk' = [tk EXCEPT ![k] = a]
  BY <1>2 DEF EndTakeover
<1> QED
  BY <1>3, <1>4, <1>5, RequestChanged

(* A freeze ends what is pending on its story. *)
LEMMA FrozenRequests ==
  ASSUME Requests, NEW s, NEW kind, EnterFreeze(s, kind)
  PROVE  /\ Requests'
         /\ \A k \in Takeovers :
              /\ tk'[k].by = tk[k].by /\ tk'[k].run = tk[k].run /\ tk'[k].basis = tk[k].basis
              /\ tk'[k].age = tk[k].age /\ tk'[k].issue = tk[k].issue
              /\ tk[k] = NoTakeover <=> tk'[k] = NoTakeover
              /\ \/ tk'[k].chal = tk[k].chal /\ tk'[k].op = tk[k].op
                 \/ tk[k].chal = "pending" /\ tk'[k].chal = "invalidated" /\ tk'[k].op = "invalidated"
              /\ \/ tk'[k].appr = tk[k].appr
                 \/ tk[k].appr \in {"pending", "approved"} /\ tk'[k].appr = "invalidated"
              /\ tk[k] # NoTakeover /\ StoryOf[tk[k].run] = s =>
                    tk'[k].chal # "pending" /\ tk'[k].appr \notin {"pending", "approved"}
              /\ tk[k] = NoTakeover \/ StoryOf[tk[k].run] # s => tk'[k] = tk[k]
<1> DEFINE frozen(a) ==
      LET hit == a.chal = "pending" IN
      [a EXCEPT !.op = IF hit THEN "invalidated" ELSE @,
                !.chal = IF hit THEN "invalidated" ELSE @,
                !.appr = IF @ \in {"pending", "approved"} THEN "invalidated" ELSE @]
<1>1. tk' = [k \in Takeovers |-> IF tk[k] = NoTakeover \/ StoryOf[tk[k].run] # s THEN tk[k] ELSE frozen(tk[k])]
  BY DEF EnterFreeze
<1>2. ASSUME NEW a \in TakeoverType, a # NoTakeover, RequestShape(a)
      PROVE  /\ frozen(a) \in TakeoverType
             /\ frozen(a).by = a.by /\ frozen(a).run = a.run /\ frozen(a).basis = a.basis
             /\ frozen(a).age = a.age /\ frozen(a).issue = a.issue
             /\ \/ frozen(a).chal = a.chal /\ frozen(a).op = a.op
                \/ a.chal = "pending" /\ frozen(a).chal = "invalidated" /\ frozen(a).op = "invalidated"
             /\ \/ frozen(a).appr = a.appr
                \/ a.appr \in {"pending", "approved"} /\ frozen(a).appr = "invalidated"
             /\ frozen(a).chal # "pending" /\ frozen(a).appr \notin {"pending", "approved"}
  <2>1. PICK o : o = IF a.chal = "pending" THEN "invalidated" ELSE a.op
    OBVIOUS
  <2>2. PICK c : c = IF a.chal = "pending" THEN "invalidated" ELSE a.chal
    OBVIOUS
  <2>3. PICK p : p = IF a.appr \in {"pending", "approved"} THEN "invalidated" ELSE a.appr
    OBVIOUS
  <2>4. PICK b : b = frozen(a)
    OBVIOUS
  <2>5. b = [a EXCEPT !.op = o, !.chal = c, !.appr = p]
    BY <2>1, <2>2, <2>3, <2>4
  <2> HIDE DEF frozen
  <2>6. /\ o \in {"none", "pending", "offered", "approved"} \cup Outcomes
        /\ c \in {"none", "pending", "confirmed"} \cup Outcomes
        /\ p \in {"none", "pending", "approved"} \cup Outcomes
    BY <2>1, <2>2, <2>3 DEF TakeoverType, Outcomes
  <2>7. /\ b \in TakeoverType /\ b.op = o /\ b.chal = c /\ b.appr = p
        /\ b.by = a.by /\ b.run = a.run /\ b.basis = a.basis
        /\ b.age = a.age /\ b.issue = a.issue
    BY <2>5, <2>6 DEF TakeoverType
  <2> QED
    BY <2>1, <2>2, <2>3, <2>4, <2>7
<1> HIDE DEF frozen
<1>3. NoTakeover.by = None
  BY DEF NoTakeover
<1>4. ASSUME NEW k \in Takeovers
      PROVE  /\ tk'[k] \in TakeoverType /\ RequestShape(tk'[k])
             /\ tk'[k].by = tk[k].by /\ tk'[k].run = tk[k].run /\ tk'[k].basis = tk[k].basis
             /\ tk'[k].age = tk[k].age /\ tk'[k].issue = tk[k].issue
             /\ tk[k] = NoTakeover <=> tk'[k] = NoTakeover
             /\ \/ tk'[k].chal = tk[k].chal /\ tk'[k].op = tk[k].op
                \/ tk[k].chal = "pending" /\ tk'[k].chal = "invalidated" /\ tk'[k].op = "invalidated"
             /\ \/ tk'[k].appr = tk[k].appr
                \/ tk[k].appr \in {"pending", "approved"} /\ tk'[k].appr = "invalidated"
             /\ tk[k] # NoTakeover /\ StoryOf[tk[k].run] = s =>
                   tk'[k].chal # "pending" /\ tk'[k].appr \notin {"pending", "approved"}
             /\ tk[k] = NoTakeover \/ StoryOf[tk[k].run] # s => tk'[k] = tk[k]
  <2>1. tk[k] \in TakeoverType /\ RequestShape(tk[k])
    BY DEF Requests
  <2>2. CASE tk[k] = NoTakeover \/ StoryOf[tk[k].run] # s
    BY <1>1, <2>1, <2>2
  <2>3. CASE ~(tk[k] = NoTakeover \/ StoryOf[tk[k].run] # s)
    <3>1. PICK a \in TakeoverType : a = tk[k]
      BY <2>1
    <3>2. PICK b : b = frozen(a)
      OBVIOUS
    <3>3. tk'[k] = b
      BY <1>1, <2>3, <3>1, <3>2
    <3>4. a # NoTakeover /\ RequestShape(a) /\ a.by \in Sessions
      BY <2>1, <2>3, <3>1 DEF RequestShape
    <3>5. /\ b \in TakeoverType
          /\ b.by = a.by /\ b.run = a.run /\ b.basis = a.basis
          /\ b.age = a.age /\ b.issue = a.issue
          /\ \/ b.chal = a.chal /\ b.op = a.op
             \/ a.chal = "pending" /\ b.chal = "invalidated" /\ b.op = "invalidated"
          /\ \/ b.appr = a.appr
             \/ a.appr \in {"pending", "approved"} /\ b.appr = "invalidated"
          /\ b.chal # "pending" /\ b.appr \notin {"pending", "approved"}
      BY <1>2, <3>2, <3>4
    <3>6. b # NoTakeover
      BY <1>3, <3>4, <3>5, OwnershipAssumption
    <3>7. RequestShape(b)
      BY <3>4, <3>5 DEF RequestShape
    <3> QED
      BY <2>3, <3>1, <3>3, <3>4, <3>5, <3>6, <3>7
  <2> QED
    BY <2>2, <2>3
<1>5. Requests'
  BY <1>1, <1>4 DEF Requests
<1> QED
  BY <1>4, <1>5

(* What a step may do to a takeover request that was made.                   *)
Goes(k) ==
  IF tk[k] = NoTakeover THEN tk'[k].chal = "none" ELSE
    /\ tk'[k] # NoTakeover
    /\ tk'[k].by = tk[k].by /\ tk'[k].run = tk[k].run
    /\ tk'[k].basis.owner = tk[k].basis.owner /\ tk'[k].basis.epoch = tk[k].basis.epoch
    /\ tk'[k].appr = "pending" => tk[k].appr = "pending" /\ (tk[k].age = 2 => tk'[k].age = 2)
    /\ tk[k].chal # "none" =>
         /\ tk'[k].chal # "none"
         /\ tk'[k].chal = "pending" => tk[k].chal = "pending"
         /\ tk'[k].chal = "pending" /\ tk[k].appr = "approved" => tk'[k].appr = "approved"
    /\ tk[k].chal = "none" =>
         \/ /\ tk'[k].chal = "none"
            /\ tk[k].op \in {"pending", "offered"} => tk'[k].op \in {"pending", "offered"}
         \/ \E t \in Threads : th[t].pc = "challenge" /\ th[t].k = k /\ th'[t] = Idle
    /\ tk'[k].chal = "confirmed" /\ tk[k].chal # "confirmed" =>
         \E t \in Threads : CommitTransfer(t) /\ th[t].k = k
    /\ tk'[k].chal = "pending" => freeze'[StoryOf[tk[k].run]] \subseteq freeze[StoryOf[tk[k].run]]

LEMMA RequestsStep ==
  ASSUME Shapes, HandInv, [Next]_vars
  PROVE  Requests' /\ \A k \in Takeovers : Goes(k)
<1> USE DEF tables
<1>g. Requests /\ Tables
  BY DEF Shapes
<1>n. NoTakeover.by = None /\ NoTakeover.chal = "none"
  BY DEF NoTakeover
<1>f. \A r \in Runs : StoryOf[r] \in Stories
  BY OwnershipAssumption
<1>h. ASSUME NEW t \in Threads, th[t].pc \in TakeoverSteps
      PROVE  /\ th[t].k \in Takeovers /\ tk[th[t].k] \in TakeoverType /\ RequestShape(tk[th[t].k])
             /\ tk[th[t].k] # NoTakeover /\ tk[th[t].k].by \in Sessions
             /\ tk[th[t].k].basis.owner \in Sessions /\ tk[th[t].k].run \in Runs
  BY <1>g, <1>h, RequestInHand DEF Requests
<1>m. ASSUME NEW k \in Takeovers, tk[k].chal = "pending"
      PROVE  /\ tk[k] \in TakeoverType /\ RequestShape(tk[k]) /\ tk[k] # NoTakeover
             /\ tk[k].by \in Sessions /\ tk[k].run \in Runs
  BY <1>g, <1>m, <1>n DEF Requests, RequestShape
(* The requests are left alone, and no freeze is entered. *)
<1>u. ASSUME UNCHANGED tk, \A s \in Stories : freeze'[s] \subseteq freeze[s]
      PROVE  Requests' /\ \A k \in Takeovers : Goes(k)
  <2>1. ASSUME NEW k \in Takeovers, tk[k] # NoTakeover PROVE StoryOf[tk[k].run] \in Stories
    BY <1>f, <1>g, <2>1 DEF Requests, RequestShape
  <2> QED
    BY <1>g, <1>n, <1>u, <2>1 DEF Goes, Requests
<1>z. UNCHANGED freeze => \A s \in Stories : freeze'[s] \subseteq freeze[s]
  OBVIOUS
(* One request is changed, and no freeze is entered. *)
<1>w. ASSUME NEW k \in Takeovers, tk[k] # NoTakeover, UNCHANGED freeze,
             NEW a \in TakeoverType, tk' = [tk EXCEPT ![k] = a],
             a.by = tk[k].by, a.run = tk[k].run,
             a.basis.owner = tk[k].basis.owner, a.basis.epoch = tk[k].basis.epoch,
             a.appr = "pending" => tk[k].appr = "pending" /\ (tk[k].age = 2 => a.age = 2),
             tk[k].chal # "none" =>
               /\ a.chal # "none"
               /\ a.chal = "pending" => tk[k].chal = "pending"
               /\ a.chal = "pending" /\ tk[k].appr = "approved" => a.appr = "approved",
             tk[k].chal = "none" =>
               \/ /\ a.chal = "none"
                  /\ tk[k].op \in {"pending", "offered"} => a.op \in {"pending", "offered"}
               \/ \E t \in Threads : th[t].pc = "challenge" /\ th[t].k = k /\ th'[t] = Idle,
             a.chal = "confirmed" /\ tk[k].chal # "confirmed" =>
               \E t \in Threads : CommitTransfer(t) /\ th[t].k = k
      PROVE  Requests' /\ \A j \in Takeovers : Goes(j)
  <2>1. tk[k] \in TakeoverType /\ RequestShape(tk[k]) /\ tk[k].by \in Sessions
    BY <1>g, <1>w DEF Requests, RequestShape
  <2>2. RequestShape(a) /\ a # NoTakeover
    BY <1>n, <1>w, <2>1, OwnershipAssumption DEF RequestShape
  <2>3. Requests' /\ tk'[k] = a /\ \A j \in Takeovers : j # k => tk'[j] = tk[j]
    BY <1>g, <1>w, <2>2, RequestChanged
  <2>4. Goes(k)
    BY <1>w, <2>2, <2>3 DEF Goes
  <2>5. \A j \in Takeovers : j # k => Goes(j)
    BY <1>n, <1>w, <2>3 DEF Goes
  <2> QED
    BY <2>3, <2>4, <2>5
(* One request that is pending ends. *)
<1>e. ASSUME NEW k \in Takeovers, tk[k].chal = "pending", UNCHANGED freeze,
             NEW st \in Outcomes, NEW both \in BOOLEAN, tk' = EndTakeover(k, st, both)
      PROVE  Requests' /\ \A j \in Takeovers : Goes(j)
  <2>1. tk[k] # NoTakeover
    BY <1>e, <1>m
  <2>2. /\ Requests' /\ tk' = [tk EXCEPT ![k] = tk'[k]]
        /\ tk'[k].chal = st /\ tk'[k].op = st /\ tk'[k].appr = (IF both THEN st ELSE tk[k].appr)
        /\ tk'[k].by = tk[k].by /\ tk'[k].run = tk[k].run /\ tk'[k].basis = tk[k].basis
        /\ tk'[k].age = tk[k].age
    BY <1>e, <1>g, <2>1, EndedRequest
  <2>3. PICK a \in TakeoverType : a = tk'[k]
    BY <2>2 DEF Requests
  <2>4. st \notin {"none", "pending", "confirmed"}
    BY DEF Outcomes
  <2> QED
    BY <1>e, <1>w, <2>1, <2>2, <2>3, <2>4
(* A freeze is entered. *)
<1>c. ASSUME NEW s \in Stories, NEW kind, EnterFreeze(s, kind)
      PROVE  Requests' /\ \A j \in Takeovers : Goes(j)
  <2>1. \A x \in Stories : x # s => freeze'[x] = freeze[x]
    BY <1>c, <1>g DEF EnterFreeze, Tables
  <2>2. Requests'
    BY <1>c, <1>g, FrozenRequests
  <2>3. ASSUME NEW k \in Takeovers, tk[k] # NoTakeover PROVE Goes(k)
    <3>1. /\ tk'[k].by = tk[k].by /\ tk'[k].run = tk[k].run /\ tk'[k].basis = tk[k].basis
          /\ tk'[k].age = tk[k].age /\ tk'[k] # NoTakeover
          /\ \/ tk'[k].chal = tk[k].chal /\ tk'[k].op = tk[k].op
             \/ tk[k].chal = "pending" /\ tk'[k].chal = "invalidated" /\ tk'[k].op = "invalidated"
          /\ \/ tk'[k].appr = tk[k].appr
             \/ tk[k].appr \in {"pending", "approved"} /\ tk'[k].appr = "invalidated"
          /\ StoryOf[tk[k].run] = s => tk'[k].chal # "pending"
          /\ StoryOf[tk[k].run] # s => tk'[k] = tk[k]
      BY <1>c, <1>g, <2>3, FrozenRequests
    <3>2. StoryOf[tk[k].run] \in Stories
      BY <1>f, <1>g, <2>3 DEF Requests, RequestShape
    <3> QED
      BY <2>1, <2>3, <3>1, <3>2 DEF Goes
  <2>4. ASSUME NEW k \in Takeovers, tk[k] = NoTakeover PROVE Goes(k)
    BY <1>c, <1>g, <1>n, <2>4, FrozenRequests DEF Goes
  <2> QED
    BY <2>2, <2>3, <2>4
<1>1. ASSUME NEW t \in Threads, Admit(t)
      PROVE  Requests' /\ \A j \in Takeovers : Goes(j)
  BY <1>1, <1>u, <1>z DEF Admit
<1>2. ASSUME NEW t \in Threads, CommitWork(t)
      PROVE  Requests' /\ \A j \in Takeovers : Goes(j)
  BY <1>2, <1>u, <1>z DEF CommitWork
<1>3. ASSUME NEW t \in Threads, CommitClosure(t)
      PROVE  Requests' /\ \A j \in Takeovers : Goes(j)
  BY <1>3, <1>u, <1>z DEF CommitClosure
<1>4. ASSUME NEW t \in Threads, StartUnderClaim(t)
      PROVE  Requests' /\ \A j \in Takeovers : Goes(j)
  BY <1>4, <1>u, <1>z DEF StartUnderClaim
<1>5. ASSUME NEW t \in Threads, FinalizeStart(t)
      PROVE  Requests' /\ \A j \in Takeovers : Goes(j)
  BY <1>5, <1>u, <1>z DEF FinalizeStart
<1>6. ASSUME NEW t \in Threads, SaveOperation(t)
      PROVE  Requests' /\ \A j \in Takeovers : Goes(j)
  <2>1. PICK k \in Takeovers : k = th[t].k
    BY <1>6, <1>h DEF SaveOperation, TakeoverSteps
  <2>2. tk[k] \in TakeoverType /\ RequestShape(tk[k]) /\ tk[k] # NoTakeover /\ tk[k].by \in Sessions
        /\ tk[k].basis.owner \in Sessions /\ tk[k].run \in Runs
    BY <1>6, <1>h, <2>1 DEF SaveOperation, TakeoverSteps
  <2>3. PICK o \in {"pending", "offered"} : o = IF tk[k].by \in NeedApproval THEN "pending" ELSE "offered"
    OBVIOUS
  <2>4. PICK a : a = [tk[k] EXCEPT !.op = o]
    OBVIOUS
  <2>5. /\ a \in TakeoverType /\ a.op = o /\ a.chal = tk[k].chal /\ a.appr = tk[k].appr
        /\ a.by = tk[k].by /\ a.run = tk[k].run /\ a.basis = tk[k].basis /\ a.age = tk[k].age
    BY <2>2, <2>4 DEF TakeoverType
  <2>6. tk' = [tk EXCEPT ![k] = a] /\ UNCHANGED freeze
    BY <1>6, <2>1, <2>3, <2>4 DEF SaveOperation
  <2>7. tk[k].chal = "none"
    BY <1>6, <2>1 DEF SaveOperation, HandInv, RequestOrder
  <2> QED
    BY <1>w, <2>2, <2>5, <2>6, <2>7
<1>7. ASSUME NEW t \in Threads, InsertChallenge(t)
      PROVE  Requests' /\ \A j \in Takeovers : Goes(j)
  <2>1. PICK k \in Takeovers : k = th[t].k
    BY <1>7, <1>h DEF InsertChallenge, TakeoverSteps
  <2>2. tk[k] \in TakeoverType /\ RequestShape(tk[k]) /\ tk[k] # NoTakeover /\ tk[k].by \in Sessions
        /\ tk[k].basis.owner \in Sessions /\ tk[k].run \in Runs
    BY <1>7, <1>h, <2>1 DEF InsertChallenge, TakeoverSteps
  <2>4. PICK a : a = [tk[k] EXCEPT !.chal = "pending", !.issue = 1]
    OBVIOUS
  <2>3. 1 \in 0..MaxIssue
    BY OwnershipAssumption
  <2>5. /\ a \in TakeoverType /\ a.op = tk[k].op /\ a.chal = "pending" /\ a.appr = tk[k].appr
        /\ a.by = tk[k].by /\ a.run = tk[k].run /\ a.basis = tk[k].basis /\ a.age = tk[k].age
    BY <2>2, <2>3, <2>4 DEF TakeoverType
  <2>6. tk' = [tk EXCEPT ![k] = a] /\ UNCHANGED freeze
    BY <1>7, <2>1, <2>4 DEF InsertChallenge
  <2>7. tk[k].chal = "none"
    BY <1>7, <2>1 DEF InsertChallenge, HandInv, RequestOrder
  <2>8. th[t].pc = "challenge" /\ th[t].k = k /\ th'[t] = Idle
    BY <1>7, <2>1 DEF InsertChallenge, Done, Shapes, ThreadTypes
  <2>9. \E u \in Threads : th[u].pc = "challenge" /\ th[u].k = k /\ th'[u] = Idle
    BY <2>8
  <2> QED
    BY <1>w, <2>2, <2>5, <2>6, <2>7, <2>9
<1>8. ASSUME NEW t \in Threads, CommitTransfer(t)
      PROVE  Requests' /\ \A j \in Takeovers : Goes(j)
  <2>1. PICK k \in Takeovers : k = th[t].k
    BY <1>8, <1>h DEF CommitTransfer, TakeoverSteps
  <2>2. tk[k] \in TakeoverType /\ RequestShape(tk[k]) /\ tk[k] # NoTakeover /\ tk[k].by \in Sessions
        /\ tk[k].basis.owner \in Sessions /\ tk[k].run \in Runs
    BY <1>8, <1>h, <2>1 DEF CommitTransfer, TakeoverSteps
  <2>3. PICK p : p = IF th[t].appr = "pending" THEN "approved" ELSE tk[k].appr
    OBVIOUS
  <2>4. PICK a : a = [tk[k] EXCEPT !.op = "approved", !.chal = "confirmed", !.appr = p]
    OBVIOUS
  <2>5. /\ a \in TakeoverType /\ a.chal = "confirmed" /\ a.appr = p
        /\ a.by = tk[k].by /\ a.run = tk[k].run /\ a.basis = tk[k].basis /\ a.age = tk[k].age
    BY <2>2, <2>3, <2>4 DEF TakeoverType
  <2>6. tk' = [tk EXCEPT ![k] = a] /\ UNCHANGED freeze
    BY <1>8, <2>1, <2>3, <2>4 DEF CommitTransfer
  <2>7. tk[k].chal = "pending"
    BY <1>8, <2>1, Transferred
  <2>8. \E u \in Threads : CommitTransfer(u) /\ th[u].k = k
    BY <1>8, <2>1
  <2> QED
    BY ZenonT(40), <1>w, <2>2, <2>3, <2>5, <2>6, <2>7, <2>8
<1>9. ASSUME NEW t \in Threads, CommitReissue(t)
      PROVE  Requests' /\ \A j \in Takeovers : Goes(j)
  <2>1. PICK k \in Takeovers : k = th[t].k
    BY <1>9, <1>h DEF CommitReissue, TakeoverSteps
  <2>2. tk[k] \in TakeoverType /\ RequestShape(tk[k]) /\ tk[k] # NoTakeover /\ tk[k].by \in Sessions
        /\ tk[k].basis.owner \in Sessions /\ tk[k].run \in Runs
    BY <1>9, <1>h, <2>1 DEF CommitReissue, TakeoverSteps
  <2>3. PICK b \in [owner : Sessions \cup {None}, epoch : Nat, ver : 0..MaxVersion] : b = OwnershipBasis(tk[k].run)
    BY <1>g, <2>2, BasisIsCurrent
  <2>4. /\ b = [tk[k].basis EXCEPT !.ver = th[t].ver] /\ tk[k].chal = "pending"
        /\ tk[k].issue < MaxIssue
    BY <1>9, <2>1, <2>3 DEF CommitReissue, ReissueCAS
  <2>5. b.owner = tk[k].basis.owner /\ b.epoch = tk[k].basis.epoch
    BY <2>2, <2>4 DEF TakeoverType
  <2>6. PICK i : i = tk[k].issue + 1
    OBVIOUS
  <2>7. i \in 0..MaxIssue
    BY <2>2, <2>4, <2>6, OwnershipAssumption DEF TakeoverType
  <2>0. PICK g \in 0..2 : g = 0
    OBVIOUS
  <2>8. PICK a : a = [tk[k] EXCEPT !.appr = "approved", !.age = g, !.issue = i, !.basis = b]
    OBVIOUS
  <2>9. /\ a \in TakeoverType /\ a.op = tk[k].op /\ a.chal = tk[k].chal /\ a.appr = "approved"
        /\ a.by = tk[k].by /\ a.run = tk[k].run /\ a.basis = b
    <3>1. PICK c : c = [tk[k] EXCEPT !.appr = "approved", !.age = g, !.issue = i]
      OBVIOUS
    <3>2. /\ c \in TakeoverType /\ c.op = tk[k].op /\ c.chal = tk[k].chal /\ c.appr = "approved"
          /\ c.by = tk[k].by /\ c.run = tk[k].run
      BY <2>2, <2>7, <3>1 DEF TakeoverType
    <3>3. a = [c EXCEPT !.basis = b]
      BY <2>8, <3>1
    <3> QED
      BY <3>2, <3>3 DEF TakeoverType
  <2>10. tk' = [tk EXCEPT ![k] = a] /\ UNCHANGED freeze
    BY <1>9, <2>0, <2>1, <2>3, <2>6, <2>8 DEF CommitReissue
  <2> QED
    BY <1>w, <2>2, <2>4, <2>5, <2>9, <2>10
<1>10. ASSUME NEW t \in Threads, CommitEnding(t)
      PROVE  Requests' /\ \A j \in Takeovers : Goes(j)
  <2>1. PICK k \in Takeovers : k = th[t].k
    BY <1>10, <1>h DEF CommitEnding, TakeoverSteps
  <2>2. tk[k] \in TakeoverType /\ RequestShape(tk[k]) /\ tk[k] # NoTakeover /\ tk[k].by \in Sessions
        /\ tk[k].basis.owner \in Sessions /\ tk[k].run \in Runs
    BY <1>10, <1>h, <2>1 DEF CommitEnding, TakeoverSteps
  <2>3. PICK st \in Outcomes : st = IF th[t].plan = "invalidate" THEN "invalidated" ELSE "expired"
    BY DEF Outcomes
  <2>4. PICK both \in BOOLEAN : both = (th[t].appr = "pending" \/ th[t].plan = "expireboth")
    OBVIOUS
  <2>5. tk' = EndTakeover(k, st, both) /\ UNCHANGED freeze
    BY <1>10, <2>1, <2>3, <2>4 DEF CommitEnding
  <2>6. tk[k].chal = "pending"
    BY <1>10, <2>1 DEF CommitEnding, EndingCAS, OpenRequest
  <2> QED
    BY <1>e, <2>5, <2>6
<1>11. ASSUME NEW t \in Threads, LoseFence(t)
      PROVE  Requests' /\ \A j \in Takeovers : Goes(j)
  BY <1>11, <1>u, <1>z DEF LoseFence
<1>12. ASSUME NEW t \in Threads, ReconcileLoss(t)
      PROVE  Requests' /\ \A j \in Takeovers : Goes(j)
  <2>1. PICK k \in Takeovers : k = th[t].k
    BY <1>12, <1>h DEF ReconcileLoss, TakeoverSteps
  <2>2. tk[k] \in TakeoverType /\ RequestShape(tk[k]) /\ tk[k] # NoTakeover /\ tk[k].by \in Sessions
        /\ tk[k].basis.owner \in Sessions /\ tk[k].run \in Runs
    BY <1>12, <1>h, <2>1 DEF ReconcileLoss, TakeoverSteps
  <2>3. CASE OpenRequest(k) /\ OwnershipBasis(tk[k].run) # tk[k].basis
    <3>1. PICK both \in BOOLEAN : both = (tk[k].appr = "pending")
      OBVIOUS
    <3>2. PICK st \in Outcomes : st = "invalidated"
      BY DEF Outcomes
    <3>3. tk' = EndTakeover(k, st, both) /\ UNCHANGED freeze
      BY <1>12, <2>1, <2>3, <3>1, <3>2 DEF ReconcileLoss
    <3> QED
      BY <1>e, <2>3, <3>3 DEF OpenRequest
  <2>4. CASE ~(OpenRequest(k) /\ OwnershipBasis(tk[k].run) # tk[k].basis)
    <3>1. UNCHANGED <<tk, freeze>>
      BY <1>12, <2>1, <2>4 DEF ReconcileLoss
    <3> QED
      BY <1>u, <1>z, <3>1
  <2> QED
    BY <2>3, <2>4
<1>13. ASSUME NEW t \in Threads, ReconcileClears(t)
      PROVE  Requests' /\ \A j \in Takeovers : Goes(j)
  <2>1. \A z \in Stories : freeze'[z] \subseteq freeze[z]
    BY <1>13, <1>g DEF ReconcileClears, ClearObligation, Tables
  <2> QED
    BY <1>13, <1>u, <2>1 DEF ReconcileClears
<1>14. ASSUME NEW t \in Threads, ReconcileContests(t)
      PROVE  Requests' /\ \A j \in Takeovers : Goes(j)
  <2>1. th[t].run \in Runs
    BY <1>14 DEF ReconcileContests, Shapes, ThreadTypes, ThreadShape
  <2> QED
    BY <1>14, <1>c, <1>f, <2>1 DEF ReconcileContests
<1>15. ASSUME NEW t \in Threads, Reset(t)
      PROVE  Requests' /\ \A j \in Takeovers : Goes(j)
  BY <1>15, <1>u, <1>z DEF Reset
<1>16. ASSUME NEW t \in Threads, GiveUp(t)
      PROVE  Requests' /\ \A j \in Takeovers : Goes(j)
  BY <1>16, <1>u, <1>z DEF GiveUp
<1>17. ASSUME NEW t \in Threads, NEW c \in {"start", "work", "closure"}, NEW x \in Sessions, NEW r \in Runs, Gate(t, c, x, r)
      PROVE  Requests' /\ \A j \in Takeovers : Goes(j)
  BY <1>17, <1>u, <1>z DEF Gate
<1>18. ASSUME NEW t \in Threads, NEW k \in Takeovers, NEW x \in Sessions, NEW r \in Runs, RequestTakeover(t, k, x, r)
      PROVE  Requests' /\ \A j \in Takeovers : Goes(j)
  <2>1. rec[r].status = "active" /\ rec[r].owner \in Sessions /\ rec[r].epoch \in Nat
    BY <1>18, <1>g DEF RequestTakeover, ActiveRuns, Tables, Records, RecordShape
  <2>2. PICK b : b = [owner |-> rec[r].owner, epoch |-> rec[r].epoch, ver |-> bind[rec[r].owner].ver]
    OBVIOUS
  <2>3. b \in [owner : Sessions \cup {None}, epoch : Nat, ver : 0..MaxVersion] /\ b.owner = rec[r].owner
    BY <1>g, <2>1, <2>2 DEF Tables, Bindings
  <2>4. PICK p : p = IF x \in NeedApproval THEN "pending" ELSE "none"
    OBVIOUS
  <2>5. NoTakeover \in TakeoverType
    BY OwnershipAssumption DEF NoTakeover, TakeoverType, NoBasis
  <2>6. PICK a : a = [NoTakeover EXCEPT !.by = x, !.run = r, !.appr = p, !.basis = b]
    OBVIOUS
  <2>7. a \in TakeoverType /\ a.by = x /\ a.run = r /\ a.basis = b /\ a.chal = "none"
    <3>1. PICK c : c = [NoTakeover EXCEPT !.by = x, !.run = r, !.appr = p]
      OBVIOUS
    <3>2. c \in TakeoverType /\ c.by = x /\ c.run = r /\ c.chal = "none"
      BY ZenonT(40), <1>n, <2>4, <2>5, <3>1 DEF TakeoverType
    <3>3. a = [c EXCEPT !.basis = b]
      BY <2>6, <3>1
    <3> QED
      BY <2>3, <3>2, <3>3 DEF TakeoverType
  <2>8. tk[k] = NoTakeover /\ tk' = [tk EXCEPT ![k] = a] /\ UNCHANGED freeze /\ x # rec[r].owner
    BY <1>18, <2>2, <2>4, <2>6 DEF RequestTakeover
  <2>9. RequestShape(a)
    BY <2>1, <2>3, <2>7, <2>8 DEF RequestShape
  <2>10. Requests' /\ tk'[k] = a /\ \A j \in Takeovers : j # k => tk'[j] = tk[j]
    BY <1>g, <2>7, <2>8, <2>9, RequestChanged
  <2>11. \A j \in Takeovers : Goes(j)
    BY <1>n, <2>7, <2>8, <2>10 DEF Goes
  <2> QED
    BY <2>10, <2>11
<1>19. ASSUME NEW t \in Threads, NEW x \in Sessions, NEW r \in Runs, ReconcileAdmit(t, x, r)
      PROVE  Requests' /\ \A j \in Takeovers : Goes(j)
  BY <1>19, <1>u, <1>z DEF ReconcileAdmit
<1>20. ASSUME NEW t \in Threads, NEW k \in Takeovers, ConfirmRead(t, k)
      PROVE  Requests' /\ \A j \in Takeovers : Goes(j)
  BY <1>20, <1>u, <1>z DEF ConfirmRead
<1>21. ASSUME NEW t \in Threads, NEW r \in Runs, ResetQuiesce(t, r)
      PROVE  Requests' /\ \A j \in Takeovers : Goes(j)
  BY <1>21, <1>u, <1>z DEF ResetQuiesce
<1>22. ASSUME NEW k \in Takeovers, TimePasses(k)
      PROVE  Requests' /\ \A j \in Takeovers : Goes(j)
  <2>1. tk[k] \in TakeoverType /\ tk[k] # NoTakeover /\ tk[k].chal = "pending" /\ tk[k].age < 2
    BY <1>22, <1>m DEF TimePasses
  <2>2. PICK g : g = tk[k].age + 1
    OBVIOUS
  <2>3. g \in 0..2 /\ tk[k].age # 2
    BY <2>1, <2>2 DEF TakeoverType
  <2>4. PICK a : a = [tk[k] EXCEPT !.age = g]
    OBVIOUS
  <2>5. /\ a \in TakeoverType /\ a.op = tk[k].op /\ a.chal = tk[k].chal /\ a.appr = tk[k].appr
        /\ a.by = tk[k].by /\ a.run = tk[k].run /\ a.basis = tk[k].basis
    BY <2>1, <2>3, <2>4 DEF TakeoverType
  <2>6. tk' = [tk EXCEPT ![k] = a] /\ UNCHANGED freeze
    BY <1>22, <2>2, <2>4 DEF TimePasses
  <2> QED
    BY <1>w, <2>1, <2>3, <2>5, <2>6
<1>23. ASSUME NEW k \in Takeovers, Deny(k)
      PROVE  Requests' /\ \A j \in Takeovers : Goes(j)
  <2>1. "denied" \in Outcomes
    BY DEF Outcomes
  <2> QED
    BY <1>23, <1>e, <2>1 DEF Deny
<1>24. ASSUME NEW x \in Sessions, Exit(x)
      PROVE  Requests' /\ \A j \in Takeovers : Goes(j)
  BY <1>24, <1>u, <1>z DEF Exit
<1>25. ASSUME NEW x \in Sessions, NEW old \in Runs, NEW new \in Runs, Recover(x, old, new)
      PROVE  Requests' /\ \A j \in Takeovers : Goes(j)
  BY <1>25, <1>u, <1>z DEF Recover
<1>26. ASSUME NEW r \in Runs, AdminClear(r)
      PROVE  Requests' /\ \A j \in Takeovers : Goes(j)
  <2>1. \A z \in Stories : freeze'[z] \subseteq freeze[z]
    BY <1>26, <1>g DEF AdminClear, ClearObligation, Tables
  <2> QED
    BY <1>26, <1>u, <2>1 DEF AdminClear
<1>27. ASSUME NEW r \in Runs, Split(r)
      PROVE  Requests' /\ \A j \in Takeovers : Goes(j)
  BY <1>27, <1>u, <1>z DEF Split
<1>28. ASSUME NEW s \in Stories, ConflictFreeze(s)
      PROVE  Requests' /\ \A j \in Takeovers : Goes(j)
  BY <1>28, <1>c DEF ConflictFreeze
<1>29. ASSUME NEW s \in Stories, ReleaseConflictFreeze(s)
      PROVE  Requests' /\ \A j \in Takeovers : Goes(j)
  <2>1. \A z \in Stories : freeze'[z] \subseteq freeze[z]
    BY <1>29, <1>g DEF ReleaseConflictFreeze, Tables
  <2> QED
    BY <1>29, <1>u, <2>1 DEF ReleaseConflictFreeze
<1>30. ASSUME NEW s \in Stories, SplitFreeze(s)
      PROVE  Requests' /\ \A j \in Takeovers : Goes(j)
  BY <1>30, <1>c DEF SplitFreeze
<1>31. ASSUME NEW s \in Stories, SplitThaw(s)
      PROVE  Requests' /\ \A j \in Takeovers : Goes(j)
  <2>1. \A z \in Stories : freeze'[z] \subseteq freeze[z]
    BY <1>31, <1>g DEF SplitThaw, Tables
  <2> QED
    BY <1>31, <1>u, <2>1 DEF SplitThaw
<1>32. CASE UNCHANGED vars
  BY <1>32, <1>u, <1>z DEF vars
<1> QED
  BY <1>1, <1>2, <1>3, <1>4, <1>5, <1>6, <1>7, <1>8, <1>9, <1>10, <1>11,
     <1>12, <1>13, <1>14, <1>15, <1>16, <1>17, <1>18, <1>19, <1>20, <1>21,
     <1>22, <1>23, <1>24, <1>25, <1>26, <1>27, <1>28, <1>29, <1>30, <1>31,
     <1>32
     DEF Next, ThreadStep, Call

------------------------------------------------------------------------------
(* The threads and the story claims.                                         *)

LEMMA IdleShape == Idle \in ThreadType /\ ThreadShape(Idle) /\ Idle.pc = "idle"
BY OwnershipAssumption DEF Idle, ThreadType, ThreadShape, TakeoverSteps

LEMMA PlanIsOne == \A k : ConfirmPlan(k) \in Plans \cup {"refuse"}
BY DEF ConfirmPlan, Plans

(* The run a confirm looks at is a run of the story of the request. *)
ConfirmRun(k) == IF ActiveRuns(StoryOf[tk[k].run]) = {} THEN tk[k].run
                 ELSE CHOOSE r \in ActiveRuns(StoryOf[tk[k].run]) : TRUE

LEMMA ConfirmRunIsOfStory ==
  ASSUME Requests, NEW k \in Takeovers, tk[k].chal = "pending"
  PROVE  /\ tk[k] # NoTakeover /\ tk[k] \in TakeoverType /\ tk[k].run \in Runs /\ tk[k].by \in Sessions
         /\ tk[k].basis.owner \in Sessions
         /\ ConfirmRun(k) \in Runs /\ StoryOf[ConfirmRun(k)] = StoryOf[tk[k].run]
         /\ ActiveRuns(StoryOf[tk[k].run]) # {} =>
               /\ ConfirmRun(k) \in ActiveRuns(StoryOf[tk[k].run])
               /\ ConfirmRun(k) = CHOOSE r \in ActiveRuns(StoryOf[tk[k].run]) : TRUE
<1>1. /\ tk[k] # NoTakeover /\ tk[k] \in TakeoverType /\ tk[k].run \in Runs /\ tk[k].by \in Sessions
      /\ tk[k].basis.owner \in Sessions
  BY DEF Requests, RequestShape, NoTakeover
<1>2. CASE ActiveRuns(StoryOf[tk[k].run]) = {}
  BY <1>1, <1>2 DEF ConfirmRun
<1>3. CASE ActiveRuns(StoryOf[tk[k].run]) # {}
  <2>1. PICK q : q = CHOOSE r \in ActiveRuns(StoryOf[tk[k].run]) : TRUE
    OBVIOUS
  <2>2. q \in ActiveRuns(StoryOf[tk[k].run])
    BY <1>3, <2>1
  <2>3. ConfirmRun(k) = q
    BY <1>3, <2>1 DEF ConfirmRun
  <2>4. q \in Runs /\ StoryOf[q] = StoryOf[tk[k].run]
    BY <2>2 DEF ActiveRuns
  <2> QED
    BY <1>1, <2>1, <2>2, <2>3, <2>4
<1> QED
  BY <1>2, <1>3

LEMMA ThreadsStep ==
  ASSUME Shapes, HandInv, [Next]_vars
  PROVE  ThreadTypes' /\ ClaimTypes'
<1> USE DEF tables
<1>g. ThreadTypes /\ ClaimTypes /\ Tables /\ Requests
  BY DEF Shapes
<1>n. None \notin Threads
  BY OwnershipAssumption
<1>u. ASSUME UNCHANGED <<th, claim>> PROVE ThreadTypes' /\ ClaimTypes'
  BY <1>g, <1>u DEF ThreadTypes, ClaimTypes
<1>d. ASSUME NEW t \in Threads, Done(t) PROVE ThreadTypes' /\ ClaimTypes'
  <2>1. /\ th' \in [Threads -> ThreadType] /\ th'[t] = Idle
        /\ \A y \in Threads : y # t => th'[y] = th[y]
    BY <1>d, <1>g, IdleShape DEF Done, ThreadTypes
  <2>2. claim' = [s \in Stories |-> IF claim[s] = t THEN None ELSE claim[s]]
    BY <1>d DEF Done, Release
  <2>3. ClaimTypes'
    BY <1>g, <2>1, <2>2 DEF ClaimTypes
  <2> QED
    BY <1>g, <2>1, <2>3, IdleShape DEF ThreadTypes
<1>w. ASSUME NEW t \in Threads, NEW h \in ThreadType, ThreadShape(h), h.pc # "idle",
             th' = [th EXCEPT ![t] = h],
             UNCHANGED claim \/ \E s \in Stories : claim' = [claim EXCEPT ![s] = t]
      PROVE  ThreadTypes' /\ ClaimTypes'
  <2>1. /\ th' \in [Threads -> ThreadType] /\ th'[t] = h
        /\ \A y \in Threads : y # t => th'[y] = th[y]
    BY <1>w, <1>g DEF ThreadTypes
  <2>2. /\ claim' \in [Stories -> Threads \cup {None}]
        /\ \A s \in Stories : claim'[s] = claim[s] \/ claim'[s] = t
    BY <1>g, <1>w DEF ClaimTypes
  <2>3. ClaimTypes'
    BY <1>g, <1>w, <2>1, <2>2 DEF ClaimTypes
  <2> QED
    BY <1>g, <1>w, <2>1, <2>3 DEF ThreadTypes
<1>t. ASSUME NEW t \in Threads PROVE th[t] \in ThreadType /\ ThreadShape(th[t])
  BY <1>g DEF ThreadTypes
<1>s. \A r \in Runs : StoryOf[r] \in Stories /\ rec[r].epoch \in Nat
  BY <1>g, OwnershipAssumption DEF Tables, Records
<1>1. ASSUME NEW t \in Threads, Admit(t)
      PROVE  ThreadTypes' /\ ClaimTypes'
  <2>1. PICK e \in Nat : e = rec[th[t].run].epoch
    BY <1>1, <1>s, <1>t DEF Admit, ThreadShape
  <2>2. PICK h : h = [th[t] EXCEPT !.pc = "commit", !.epoch = e]
    OBVIOUS
  <2>3. h \in ThreadType /\ h.pc = "commit" /\ h.ses = th[t].ses /\ h.run = th[t].run
    BY ZenonT(40), <1>t, <2>2 DEF ThreadType
  <2>4. ThreadShape(h)
    BY <1>1, <1>t, <2>3 DEF Admit, ThreadShape, TakeoverSteps
  <2>5. th' = [th EXCEPT ![t] = h] /\ UNCHANGED claim
    BY <1>1, <2>1, <2>2 DEF Admit
  <2> QED
    BY <1>w, <2>3, <2>4, <2>5
<1>2. ASSUME NEW t \in Threads, CommitWork(t)
      PROVE  ThreadTypes' /\ ClaimTypes'
  BY <1>2, <1>d DEF CommitWork
<1>3. ASSUME NEW t \in Threads, CommitClosure(t)
      PROVE  ThreadTypes' /\ ClaimTypes'
  BY <1>3, <1>d DEF CommitClosure
<1>4. ASSUME NEW t \in Threads, StartUnderClaim(t)
      PROVE  ThreadTypes' /\ ClaimTypes'
  <2>1. PICK e \in Nat : e = rec[th[t].run].epoch
    BY <1>4, <1>s, <1>t DEF StartUnderClaim, ThreadShape
  <2>2. PICK p \in {"mint", "enter"} : p = IF ActiveRuns(StoryOf[th[t].run]) = {} THEN "mint" ELSE "enter"
    OBVIOUS
  <2>3. PICK h : h = [th[t] EXCEPT !.pc = "finalize", !.epoch = e, !.plan = p]
    OBVIOUS
  <2>4. h \in ThreadType /\ h.pc = "finalize" /\ h.ses = th[t].ses /\ h.run = th[t].run
    BY ZenonT(40), <1>t, <2>3 DEF ThreadType
  <2>5. ThreadShape(h) /\ StoryOf[th[t].run] \in Stories
    BY <1>4, <1>s, <1>t, <2>4 DEF StartUnderClaim, ThreadShape, TakeoverSteps
  <2>6. th' = [th EXCEPT ![t] = h] /\ claim' = [claim EXCEPT ![StoryOf[th[t].run]] = t]
    BY <1>4, <2>1, <2>2, <2>3 DEF StartUnderClaim
  <2> QED
    BY <1>w, <2>4, <2>5, <2>6
<1>5. ASSUME NEW t \in Threads, FinalizeStart(t)
      PROVE  ThreadTypes' /\ ClaimTypes'
  BY <1>5, <1>d DEF FinalizeStart
<1>6. ASSUME NEW t \in Threads, SaveOperation(t)
      PROVE  ThreadTypes' /\ ClaimTypes'
  <2>1. PICK h : h = [th[t] EXCEPT !.pc = "challenge"]
    OBVIOUS
  <2>2. h \in ThreadType /\ h.pc = "challenge" /\ h.k = th[t].k /\ th[t].pc = "saveop"
    BY <1>6, <1>t, <2>1 DEF SaveOperation, ThreadType
  <2>3. ThreadShape(h)
    BY <1>t, <2>2 DEF ThreadShape, TakeoverSteps
  <2>4. th' = [th EXCEPT ![t] = h] /\ UNCHANGED claim
    BY <1>6, <2>1 DEF SaveOperation
  <2> QED
    BY <1>w, <2>2, <2>3, <2>4
<1>7. ASSUME NEW t \in Threads, InsertChallenge(t)
      PROVE  ThreadTypes' /\ ClaimTypes'
  BY <1>7, <1>d DEF InsertChallenge
<1>8. ASSUME NEW t \in Threads, CommitTransfer(t)
      PROVE  ThreadTypes' /\ ClaimTypes'
  BY <1>8, <1>d DEF CommitTransfer
<1>9. ASSUME NEW t \in Threads, CommitReissue(t)
      PROVE  ThreadTypes' /\ ClaimTypes'
  BY <1>9, <1>d DEF CommitReissue
<1>10. ASSUME NEW t \in Threads, CommitEnding(t)
      PROVE  ThreadTypes' /\ ClaimTypes'
  BY <1>10, <1>d DEF CommitEnding
<1>11. ASSUME NEW t \in Threads, LoseFence(t)
      PROVE  ThreadTypes' /\ ClaimTypes'
  <2>1. PICK h : h = [th[t] EXCEPT !.pc = "lost"]
    OBVIOUS
  <2>2. h \in ThreadType /\ h.pc = "lost" /\ h.k = th[t].k /\ th[t].pc = "decide"
    BY <1>11, <1>t, <2>1 DEF LoseFence, ThreadType
  <2>3. ThreadShape(h)
    BY <1>t, <2>2 DEF ThreadShape, TakeoverSteps
  <2>4. th' = [th EXCEPT ![t] = h] /\ UNCHANGED claim
    BY <1>11, <2>1 DEF LoseFence
  <2> QED
    BY <1>w, <2>2, <2>3, <2>4
<1>12. ASSUME NEW t \in Threads, ReconcileLoss(t)
      PROVE  ThreadTypes' /\ ClaimTypes'
  BY <1>12, <1>d DEF ReconcileLoss
<1>13. ASSUME NEW t \in Threads, ReconcileClears(t)
      PROVE  ThreadTypes' /\ ClaimTypes'
  BY <1>13, <1>d DEF ReconcileClears
<1>14. ASSUME NEW t \in Threads, ReconcileContests(t)
      PROVE  ThreadTypes' /\ ClaimTypes'
  BY <1>14, <1>d DEF ReconcileContests
<1>15. ASSUME NEW t \in Threads, Reset(t)
      PROVE  ThreadTypes' /\ ClaimTypes'
  BY <1>15, <1>d DEF Reset
<1>16. ASSUME NEW t \in Threads, GiveUp(t)
      PROVE  ThreadTypes' /\ ClaimTypes'
  BY <1>16, <1>d DEF GiveUp
<1>17. ASSUME NEW t \in Threads, NEW c \in {"start", "work", "closure"}, NEW x \in Sessions, NEW r \in Runs, Gate(t, c, x, r)
      PROVE  ThreadTypes' /\ ClaimTypes'
  <2>1. PICK h : h = [Idle EXCEPT !.pc = "admit", !.call = c, !.ses = x, !.run = r]
    OBVIOUS
  <2>2. h \in ThreadType /\ h.pc = "admit" /\ h.ses = x /\ h.run = r
    BY <2>1, IdleShape DEF ThreadType
  <2>3. ThreadShape(h)
    BY <2>2 DEF ThreadShape, TakeoverSteps
  <2> QED
    BY <1>17, <1>w, <2>1, <2>2, <2>3 DEF Gate
<1>18. ASSUME NEW t \in Threads, NEW k \in Takeovers, NEW x \in Sessions, NEW r \in Runs, RequestTakeover(t, k, x, r)
      PROVE  ThreadTypes' /\ ClaimTypes'
  <2>1. PICK h : h = [Idle EXCEPT !.pc = "saveop", !.k = k]
    OBVIOUS
  <2>2. h \in ThreadType /\ h.pc = "saveop" /\ h.k = k
    BY <2>1, IdleShape DEF ThreadType
  <2>3. ThreadShape(h)
    BY <2>2 DEF ThreadShape, TakeoverSteps
  <2>4. th' = [th EXCEPT ![t] = h] /\ claim' = [claim EXCEPT ![StoryOf[r]] = t]
    BY <1>18, <2>1 DEF RequestTakeover
  <2> QED
    BY <1>s, <1>w, <2>2, <2>3, <2>4
<1>19. ASSUME NEW t \in Threads, NEW x \in Sessions, NEW r \in Runs, ReconcileAdmit(t, x, r)
      PROVE  ThreadTypes' /\ ClaimTypes'
  <2>1. PICK e \in Nat : e = rec[r].epoch
    BY <1>s
  <2>2. PICK h : h = [Idle EXCEPT !.pc = "reconcile", !.ses = x, !.run = r, !.epoch = e]
    OBVIOUS
  <2>3. h \in ThreadType /\ h.pc = "reconcile" /\ h.ses = x /\ h.run = r
    BY <2>2, IdleShape DEF ThreadType
  <2>4. ThreadShape(h)
    BY <2>3 DEF ThreadShape, TakeoverSteps
  <2> QED
    BY <1>19, <1>w, <2>1, <2>2, <2>3, <2>4 DEF ReconcileAdmit
<1>20. ASSUME NEW t \in Threads, NEW k \in Takeovers, ConfirmRead(t, k)
      PROVE  ThreadTypes' /\ ClaimTypes'
  <2>1. /\ tk[k].chal = "pending" /\ tk[k].run \in Runs /\ tk[k] \in TakeoverType
        /\ StoryOf[tk[k].run] \in Stories
    BY <1>20, <1>g, <1>s, ConfirmRunIsOfStory DEF ConfirmRead
  <2>2. PICK q \in Runs : q = ConfirmRun(k)
    BY <1>g, <2>1, ConfirmRunIsOfStory
  <2>3. PICK p \in Plans : p = ConfirmPlan(k)
    BY <1>20, PlanIsOne DEF ConfirmRead
  <2>4. PICK g \in {"none", "pending", "approved"} \cup Outcomes : g = ApprovalSeen(k)
    BY <2>1 DEF ApprovalSeen, TakeoverType, Outcomes
  <2>5. PICK v \in 0..MaxVersion : v = OwnershipBasis(q).ver
    BY <1>g, BasisIsCurrent
  <2>6. PICK h : h = [Idle EXCEPT !.pc = "decide", !.k = k, !.plan = p, !.run = q, !.appr = g, !.ver = v]
    OBVIOUS
  <2>7. h \in ThreadType /\ h.pc = "decide" /\ h.k = k /\ h.plan = p /\ h.run = q
    <3>1. PICK b : b = [Idle EXCEPT !.pc = "decide", !.k = k, !.plan = p]
      OBVIOUS
    <3>2. b \in ThreadType /\ b.pc = "decide" /\ b.k = k /\ b.plan = p
      BY <3>1, IdleShape DEF ThreadType, Plans
    <3>3. h = [b EXCEPT !.run = q, !.appr = g, !.ver = v]
      BY <2>6, <3>1
    <3> QED
      BY <3>2, <3>3 DEF ThreadType
  <2>8. ThreadShape(h)
    BY <2>7 DEF ThreadShape, TakeoverSteps
  <2>9. th' = [th EXCEPT ![t] = h] /\ claim' = [claim EXCEPT ![StoryOf[tk[k].run]] = t]
    BY <1>20, <2>2, <2>3, <2>4, <2>5, <2>6 DEF ConfirmRead, ConfirmRun
  <2> QED
    BY <1>w, <2>1, <2>7, <2>8, <2>9
<1>21. ASSUME NEW t \in Threads, NEW r \in Runs, ResetQuiesce(t, r)
      PROVE  ThreadTypes' /\ ClaimTypes'
  <2>1. PICK aborted : aborted = {u \in Threads : th[u].pc = "finalize" /\ StoryOf[th[u].run] = StoryOf[r]}
    OBVIOUS
  <2>2. /\ th' = [u \in Threads |-> IF u = t THEN [Idle EXCEPT !.pc = "reset", !.run = r]
                                    ELSE IF u \in aborted THEN Idle ELSE th[u]]
        /\ claim' = [s \in Stories |-> IF claim[s] \in aborted THEN None ELSE claim[s]]
    BY <1>21, <2>1 DEF ResetQuiesce
  <2>3. PICK h : h = [Idle EXCEPT !.pc = "reset", !.run = r]
    OBVIOUS
  <2>4. h \in ThreadType /\ h.pc = "reset" /\ h.run = r
    BY <2>3, IdleShape DEF ThreadType
  <2>5. ThreadShape(h)
    BY <2>4 DEF ThreadShape, TakeoverSteps
  <2>6. ASSUME NEW u \in Threads
        PROVE  /\ th'[u] \in ThreadType /\ ThreadShape(th'[u])
               /\ th'[u] = h \/ (th'[u] = Idle /\ u \in aborted) \/ (th'[u] = th[u] /\ u \notin aborted)
    BY <1>t, <2>2, <2>3, <2>4, <2>5, IdleShape
  <2>7. ThreadTypes'
    BY <2>2, <2>6 DEF ThreadTypes
  <2>8. ASSUME NEW s \in Stories, claim'[s] # None
        PROVE  claim'[s] = claim[s] /\ claim[s] \in Threads /\ claim[s] \notin aborted /\ th[claim[s]].pc # "idle"
    BY <1>g, <2>2, <2>8 DEF ClaimTypes
  <2>9. ClaimTypes'
    BY <1>g, <2>2, <2>4, <2>6, <2>8 DEF ClaimTypes
  <2> QED
    BY <2>7, <2>9
<1>22. ASSUME NEW k \in Takeovers, TimePasses(k)
      PROVE  ThreadTypes' /\ ClaimTypes'
  BY <1>22, <1>u DEF TimePasses
<1>23. ASSUME NEW k \in Takeovers, Deny(k)
      PROVE  ThreadTypes' /\ ClaimTypes'
  BY <1>23, <1>u DEF Deny
<1>24. ASSUME NEW x \in Sessions, Exit(x)
      PROVE  ThreadTypes' /\ ClaimTypes'
  BY <1>24, <1>u DEF Exit
<1>25. ASSUME NEW x \in Sessions, NEW old \in Runs, NEW new \in Runs, Recover(x, old, new)
      PROVE  ThreadTypes' /\ ClaimTypes'
  BY <1>25, <1>u DEF Recover
<1>26. ASSUME NEW r \in Runs, AdminClear(r)
      PROVE  ThreadTypes' /\ ClaimTypes'
  BY <1>26, <1>u DEF AdminClear
<1>27. ASSUME NEW r \in Runs, Split(r)
      PROVE  ThreadTypes' /\ ClaimTypes'
  BY <1>27, <1>u DEF Split
<1>28. ASSUME NEW s \in Stories, ConflictFreeze(s)
      PROVE  ThreadTypes' /\ ClaimTypes'
  BY <1>28, <1>u DEF ConflictFreeze
<1>29. ASSUME NEW s \in Stories, ReleaseConflictFreeze(s)
      PROVE  ThreadTypes' /\ ClaimTypes'
  BY <1>29, <1>u DEF ReleaseConflictFreeze
<1>30. ASSUME NEW s \in Stories, SplitFreeze(s)
      PROVE  ThreadTypes' /\ ClaimTypes'
  BY <1>30, <1>u DEF SplitFreeze
<1>31. ASSUME NEW s \in Stories, SplitThaw(s)
      PROVE  ThreadTypes' /\ ClaimTypes'
  BY <1>31, <1>u DEF SplitThaw
<1>32. CASE UNCHANGED vars
  BY <1>32, <1>u DEF vars
<1> QED
  BY <1>1, <1>2, <1>3, <1>4, <1>5, <1>6, <1>7, <1>8, <1>9, <1>10, <1>11,
     <1>12, <1>13, <1>14, <1>15, <1>16, <1>17, <1>18, <1>19, <1>20, <1>21,
     <1>22, <1>23, <1>24, <1>25, <1>26, <1>27, <1>28, <1>29, <1>30, <1>31,
     <1>32
     DEF Next, ThreadStep, Call

(* The claims and the state of thread u stay. *)
Keeps(u) == th'[u] = th[u] /\ \A s \in Stories : claim[s] = u => claim'[s] = u

(* The steps that take a thread on without ending it. *)
GoesOn(u) ==
  \/ Admit(u) \/ StartUnderClaim(u) \/ SaveOperation(u) \/ LoseFence(u)
  \/ \E x \in Sessions, r \in Runs :
       \/ \E c \in {"start", "work", "closure"} : Gate(u, c, x, r)
       \/ \E k \in Takeovers : RequestTakeover(u, k, x, r)
       \/ ReconcileAdmit(u, x, r)
  \/ \E k \in Takeovers : ConfirmRead(u, k)
  \/ \E r \in Runs : ResetQuiesce(u, r)

LEMMA ThreadMoves ==
  ASSUME Shapes, [Next]_vars, NEW u \in Threads
  PROVE  Keeps(u) \/ th'[u] = Idle \/ GoesOn(u)
<1> USE DEF tables
<1>g. /\ th \in [Threads -> ThreadType] /\ claim \in [Stories -> Threads \cup {None}]
      /\ None \notin Threads
  BY OwnershipAssumption DEF Shapes, ThreadTypes, ClaimTypes
<1>u. ASSUME UNCHANGED <<th, claim>> PROVE Keeps(u)
  BY <1>u DEF Keeps
<1>d. ASSUME NEW t \in Threads, Done(t) PROVE Keeps(u) \/ th'[u] = Idle
  BY <1>g, <1>d DEF Keeps, Done, Release
(* Another thread takes the claim of a story only when it is free.           *)
<1>w. ASSUME NEW t \in Threads, t # u, NEW h, th' = [th EXCEPT ![t] = h],
             UNCHANGED claim \/ \E s \in Stories : Free(s) /\ claim' = [claim EXCEPT ![s] = t]
      PROVE  Keeps(u)
  BY <1>g, <1>w DEF Keeps, Free
<1>s. \A r \in Runs : StoryOf[r] \in Stories
  BY OwnershipAssumption
<1>1. ASSUME NEW t \in Threads, Admit(t)
      PROVE  Keeps(u) \/ th'[u] = Idle \/ GoesOn(u)
  <2>1. CASE t = u
    BY <1>1, <2>1 DEF GoesOn
  <2>2. CASE t # u
    BY ZenonT(40), <1>1, <1>w, <2>2 DEF Admit
  <2> QED
    BY <2>1, <2>2
<1>2. ASSUME NEW t \in Threads, CommitWork(t)
      PROVE  Keeps(u) \/ th'[u] = Idle \/ GoesOn(u)
  BY <1>2, <1>d DEF CommitWork
<1>3. ASSUME NEW t \in Threads, CommitClosure(t)
      PROVE  Keeps(u) \/ th'[u] = Idle \/ GoesOn(u)
  BY <1>3, <1>d DEF CommitClosure
<1>4. ASSUME NEW t \in Threads, StartUnderClaim(t)
      PROVE  Keeps(u) \/ th'[u] = Idle \/ GoesOn(u)
  <2>1. CASE t = u
    BY <1>4, <2>1 DEF GoesOn
  <2>2. CASE t # u
    <3>1. th[t].run \in Runs
      BY <1>4 DEF StartUnderClaim, Shapes, ThreadTypes, ThreadShape
    <3> QED
      BY <1>4, <1>s, <1>w, <2>2, <3>1 DEF StartUnderClaim
  <2> QED
    BY <2>1, <2>2
<1>5. ASSUME NEW t \in Threads, FinalizeStart(t)
      PROVE  Keeps(u) \/ th'[u] = Idle \/ GoesOn(u)
  BY <1>5, <1>d DEF FinalizeStart
<1>6. ASSUME NEW t \in Threads, SaveOperation(t)
      PROVE  Keeps(u) \/ th'[u] = Idle \/ GoesOn(u)
  <2>1. CASE t = u
    BY <1>6, <2>1 DEF GoesOn
  <2>2. CASE t # u
    BY <1>6, <1>w, <2>2 DEF SaveOperation
  <2> QED
    BY <2>1, <2>2
<1>7. ASSUME NEW t \in Threads, InsertChallenge(t)
      PROVE  Keeps(u) \/ th'[u] = Idle \/ GoesOn(u)
  BY <1>7, <1>d DEF InsertChallenge
<1>8. ASSUME NEW t \in Threads, CommitTransfer(t)
      PROVE  Keeps(u) \/ th'[u] = Idle \/ GoesOn(u)
  BY <1>8, <1>d DEF CommitTransfer
<1>9. ASSUME NEW t \in Threads, CommitReissue(t)
      PROVE  Keeps(u) \/ th'[u] = Idle \/ GoesOn(u)
  BY <1>9, <1>d DEF CommitReissue
<1>10. ASSUME NEW t \in Threads, CommitEnding(t)
      PROVE  Keeps(u) \/ th'[u] = Idle \/ GoesOn(u)
  BY <1>10, <1>d DEF CommitEnding
<1>11. ASSUME NEW t \in Threads, LoseFence(t)
      PROVE  Keeps(u) \/ th'[u] = Idle \/ GoesOn(u)
  <2>1. CASE t = u
    BY <1>11, <2>1 DEF GoesOn
  <2>2. CASE t # u
    BY <1>11, <1>w, <2>2 DEF LoseFence
  <2> QED
    BY <2>1, <2>2
<1>12. ASSUME NEW t \in Threads, ReconcileLoss(t)
      PROVE  Keeps(u) \/ th'[u] = Idle \/ GoesOn(u)
  BY <1>12, <1>d DEF ReconcileLoss
<1>13. ASSUME NEW t \in Threads, ReconcileClears(t)
      PROVE  Keeps(u) \/ th'[u] = Idle \/ GoesOn(u)
  BY <1>13, <1>d DEF ReconcileClears
<1>14. ASSUME NEW t \in Threads, ReconcileContests(t)
      PROVE  Keeps(u) \/ th'[u] = Idle \/ GoesOn(u)
  BY <1>14, <1>d DEF ReconcileContests
<1>15. ASSUME NEW t \in Threads, Reset(t)
      PROVE  Keeps(u) \/ th'[u] = Idle \/ GoesOn(u)
  BY <1>15, <1>d DEF Reset
<1>16. ASSUME NEW t \in Threads, GiveUp(t)
      PROVE  Keeps(u) \/ th'[u] = Idle \/ GoesOn(u)
  BY <1>16, <1>d DEF GiveUp
<1>17. ASSUME NEW t \in Threads, NEW c \in {"start", "work", "closure"}, NEW x \in Sessions, NEW r \in Runs, Gate(t, c, x, r)
      PROVE  Keeps(u) \/ th'[u] = Idle \/ GoesOn(u)
  <2>1. CASE t = u
    BY <1>17, <2>1 DEF GoesOn
  <2>2. CASE t # u
    BY <1>17, <1>w, <2>2 DEF Gate
  <2> QED
    BY <2>1, <2>2
<1>18. ASSUME NEW t \in Threads, NEW k \in Takeovers, NEW x \in Sessions, NEW r \in Runs, RequestTakeover(t, k, x, r)
      PROVE  Keeps(u) \/ th'[u] = Idle \/ GoesOn(u)
  <2>1. CASE t = u
    BY <1>18, <2>1 DEF GoesOn
  <2>2. CASE t # u
    BY <1>18, <1>w, <2>2, <1>s DEF RequestTakeover
  <2> QED
    BY <2>1, <2>2
<1>19. ASSUME NEW t \in Threads, NEW x \in Sessions, NEW r \in Runs, ReconcileAdmit(t, x, r)
      PROVE  Keeps(u) \/ th'[u] = Idle \/ GoesOn(u)
  <2>1. CASE t = u
    BY <1>19, <2>1 DEF GoesOn
  <2>2. CASE t # u
    BY <1>19, <1>w, <2>2 DEF ReconcileAdmit
  <2> QED
    BY <2>1, <2>2
<1>20. ASSUME NEW t \in Threads, NEW k \in Takeovers, ConfirmRead(t, k)
      PROVE  Keeps(u) \/ th'[u] = Idle \/ GoesOn(u)
  <2>1. CASE t = u
    BY <1>20, <2>1 DEF GoesOn
  <2>2. CASE t # u
    <3>1. tk[k].run \in Runs
      BY <1>20, ConfirmRunIsOfStory DEF ConfirmRead, Shapes
    <3> QED
      BY <1>20, <1>s, <1>w, <2>2, <3>1 DEF ConfirmRead
  <2> QED
    BY <2>1, <2>2
<1>21. ASSUME NEW t \in Threads, NEW r \in Runs, ResetQuiesce(t, r)
      PROVE  Keeps(u) \/ th'[u] = Idle \/ GoesOn(u)
  <2>1. CASE t = u
    BY <1>21, <2>1 DEF GoesOn
  <2>2. CASE t # u
    BY <1>21, <1>g, <2>2 DEF ResetQuiesce, Keeps
  <2> QED
    BY <2>1, <2>2
<1>22. ASSUME NEW k \in Takeovers, TimePasses(k)
      PROVE  Keeps(u) \/ th'[u] = Idle \/ GoesOn(u)
  BY <1>22, <1>u DEF TimePasses
<1>23. ASSUME NEW k \in Takeovers, Deny(k)
      PROVE  Keeps(u) \/ th'[u] = Idle \/ GoesOn(u)
  BY <1>23, <1>u DEF Deny
<1>24. ASSUME NEW x \in Sessions, Exit(x)
      PROVE  Keeps(u) \/ th'[u] = Idle \/ GoesOn(u)
  BY <1>24, <1>u DEF Exit
<1>25. ASSUME NEW x \in Sessions, NEW old \in Runs, NEW new \in Runs, Recover(x, old, new)
      PROVE  Keeps(u) \/ th'[u] = Idle \/ GoesOn(u)
  BY <1>25, <1>u DEF Recover
<1>26. ASSUME NEW r \in Runs, AdminClear(r)
      PROVE  Keeps(u) \/ th'[u] = Idle \/ GoesOn(u)
  BY <1>26, <1>u DEF AdminClear
<1>27. ASSUME NEW r \in Runs, Split(r)
      PROVE  Keeps(u) \/ th'[u] = Idle \/ GoesOn(u)
  BY <1>27, <1>u DEF Split
<1>28. ASSUME NEW s \in Stories, ConflictFreeze(s)
      PROVE  Keeps(u) \/ th'[u] = Idle \/ GoesOn(u)
  BY <1>28, <1>u DEF ConflictFreeze
<1>29. ASSUME NEW s \in Stories, ReleaseConflictFreeze(s)
      PROVE  Keeps(u) \/ th'[u] = Idle \/ GoesOn(u)
  BY <1>29, <1>u DEF ReleaseConflictFreeze
<1>30. ASSUME NEW s \in Stories, SplitFreeze(s)
      PROVE  Keeps(u) \/ th'[u] = Idle \/ GoesOn(u)
  BY <1>30, <1>u DEF SplitFreeze
<1>31. ASSUME NEW s \in Stories, SplitThaw(s)
      PROVE  Keeps(u) \/ th'[u] = Idle \/ GoesOn(u)
  BY <1>31, <1>u DEF SplitThaw
<1>32. CASE UNCHANGED vars
  BY <1>32, <1>u DEF vars
<1> QED
  BY <1>1, <1>2, <1>3, <1>4, <1>5, <1>6, <1>7, <1>8, <1>9, <1>10, <1>11,
     <1>12, <1>13, <1>14, <1>15, <1>16, <1>17, <1>18, <1>19, <1>20, <1>21,
     <1>22, <1>23, <1>24, <1>25, <1>26, <1>27, <1>28, <1>29, <1>30, <1>31,
     <1>32
     DEF Next, ThreadStep, Call

------------------------------------------------------------------------------
(* The records.                                                              *)

(* What a step may do to the record of a run: only a takeover writes its      *)
(* epoch once it is there, together with its owner.                          *)
RecordGoes(r) ==
  /\ rec'[r].epoch >= rec[r].epoch
  /\ IF rec[r].status = "none"
     THEN rec'[r].status = "none" \/ rec'[r].epoch = INITIAL_OWNERSHIP_EPOCH
     ELSE /\ rec'[r].status # "none"
          /\ rec[r].status # "active" => rec'[r] = rec[r]
          /\ rec'[r].owner = rec[r].owner => rec'[r].epoch = rec[r].epoch
          /\ rec'[r].owner # rec[r].owner =>
               \E t \in Threads : CommitTransfer(t) /\ th[t].run = r

LEMMA RecordsGoOn ==
  ASSUME Shapes, HandInv, [Next]_vars
  PROVE  /\ \A q \in Runs : RecordGoes(q)
         /\ \/ transfers' = transfers
            \/ \E t \in Threads : CommitTransfer(t)
<1> USE DEF tables
<1>g. Tables
  BY DEF Shapes
<1>e. \A q \in Runs : rec[q].epoch \in Nat
  BY <1>g DEF Tables, Records
<1>u. ASSUME UNCHANGED rec PROVE \A q \in Runs : RecordGoes(q)
  BY <1>e, <1>u DEF RecordGoes
<1>o. ASSUME NEW x \in Sessions, NEW r \in Runs, NEW st \in {"ended", "reset", "split"}, Disown(x, r, st)
      PROVE  \A q \in Runs : RecordGoes(q)
  BY <1>e, <1>g, <1>o, Disowned DEF RecordGoes
<1>t. ASSUME NEW t \in Threads PROVE ThreadShape(th[t])
  BY DEF Shapes, ThreadTypes
<1>1. ASSUME NEW t \in Threads, Admit(t)
      PROVE  /\ \A q \in Runs : RecordGoes(q)
             /\ transfers' = transfers \/ \E u \in Threads : CommitTransfer(u)
  BY <1>1, <1>u DEF Admit
<1>2. ASSUME NEW t \in Threads, CommitWork(t)
      PROVE  /\ \A q \in Runs : RecordGoes(q)
             /\ transfers' = transfers \/ \E u \in Threads : CommitTransfer(u)
  BY <1>2, <1>u DEF CommitWork
<1>3. ASSUME NEW t \in Threads, CommitClosure(t)
      PROVE  /\ \A q \in Runs : RecordGoes(q)
             /\ transfers' = transfers \/ \E u \in Threads : CommitTransfer(u)
  BY <1>3, <1>u DEF CommitClosure
<1>4. ASSUME NEW t \in Threads, StartUnderClaim(t)
      PROVE  /\ \A q \in Runs : RecordGoes(q)
             /\ transfers' = transfers \/ \E u \in Threads : CommitTransfer(u)
  BY <1>4, <1>u DEF StartUnderClaim
<1>5. ASSUME NEW t \in Threads, FinalizeStart(t)
      PROVE  /\ \A q \in Runs : RecordGoes(q)
             /\ transfers' = transfers \/ \E u \in Threads : CommitTransfer(u)
  <2>1. th[t].ses \in Sessions /\ th[t].run \in Runs
    BY <1>5, <1>t DEF FinalizeStart, ThreadShape
  <2>2. CASE th[t].plan = "mint"
    <3>1. InsertOwnershipRecord(th[t].run, th[t].ses) /\ transfers' = transfers
      BY <1>5, <2>2 DEF FinalizeStart
    <3>2. \A q \in Runs : RecordGoes(q)
      BY <1>e, <1>g, <2>1, <3>1, Inserted DEF RecordGoes, NoRecord, INITIAL_OWNERSHIP_EPOCH
    <3> QED
      BY <3>1, <3>2
  <2>3. CASE th[t].plan # "mint"
    BY <1>5, <1>u, <2>3 DEF FinalizeStart
  <2> QED
    BY <2>2, <2>3
<1>6. ASSUME NEW t \in Threads, SaveOperation(t)
      PROVE  /\ \A q \in Runs : RecordGoes(q)
             /\ transfers' = transfers \/ \E u \in Threads : CommitTransfer(u)
  BY <1>6, <1>u DEF SaveOperation
<1>7. ASSUME NEW t \in Threads, InsertChallenge(t)
      PROVE  /\ \A q \in Runs : RecordGoes(q)
             /\ transfers' = transfers \/ \E u \in Threads : CommitTransfer(u)
  BY <1>7, <1>u DEF InsertChallenge
<1>8. ASSUME NEW t \in Threads, CommitTransfer(t)
      PROVE  /\ \A q \in Runs : RecordGoes(q)
             /\ transfers' = transfers \/ \E u \in Threads : CommitTransfer(u)
  <2>1. /\ th[t].run \in Runs /\ rec[th[t].run].status = "active" /\ rec'[th[t].run].status = "active"
        /\ tk[th[t].k].by # rec[th[t].run].owner /\ rec'[th[t].run].owner = tk[th[t].k].by
        /\ rec'[th[t].run].epoch = rec[th[t].run].epoch + 1
        /\ \A p \in Runs : p # th[t].run => rec'[p] = rec[p]
    BY <1>8, Transferred, Zenon
  <2>2. \A q \in Runs : RecordGoes(q)
    BY <1>8, <1>e, <2>1 DEF RecordGoes
  <2> QED
    BY <1>8, <2>2
<1>9. ASSUME NEW t \in Threads, CommitReissue(t)
      PROVE  /\ \A q \in Runs : RecordGoes(q)
             /\ transfers' = transfers \/ \E u \in Threads : CommitTransfer(u)
  BY <1>9, <1>u DEF CommitReissue
<1>10. ASSUME NEW t \in Threads, CommitEnding(t)
      PROVE  /\ \A q \in Runs : RecordGoes(q)
             /\ transfers' = transfers \/ \E u \in Threads : CommitTransfer(u)
  BY <1>10, <1>u DEF CommitEnding
<1>11. ASSUME NEW t \in Threads, LoseFence(t)
      PROVE  /\ \A q \in Runs : RecordGoes(q)
             /\ transfers' = transfers \/ \E u \in Threads : CommitTransfer(u)
  BY <1>11, <1>u DEF LoseFence
<1>12. ASSUME NEW t \in Threads, ReconcileLoss(t)
      PROVE  /\ \A q \in Runs : RecordGoes(q)
             /\ transfers' = transfers \/ \E u \in Threads : CommitTransfer(u)
  BY <1>12, <1>u DEF ReconcileLoss
<1>13. ASSUME NEW t \in Threads, ReconcileClears(t)
      PROVE  /\ \A q \in Runs : RecordGoes(q)
             /\ transfers' = transfers \/ \E u \in Threads : CommitTransfer(u)
  BY <1>13, <1>u DEF ReconcileClears
<1>14. ASSUME NEW t \in Threads, ReconcileContests(t)
      PROVE  /\ \A q \in Runs : RecordGoes(q)
             /\ transfers' = transfers \/ \E u \in Threads : CommitTransfer(u)
  BY <1>14, <1>u DEF ReconcileContests
<1>15. ASSUME NEW t \in Threads, Reset(t)
      PROVE  /\ \A q \in Runs : RecordGoes(q)
             /\ transfers' = transfers \/ \E u \in Threads : CommitTransfer(u)
  <2>1. th[t].run \in Runs /\ rec[th[t].run].owner \in Sessions
    BY <1>15, <1>g, <1>t DEF Reset, ThreadShape, Tables, RecordShape
  <2> QED
    BY <1>15, <1>o, <2>1 DEF Reset
<1>16. ASSUME NEW t \in Threads, GiveUp(t)
      PROVE  /\ \A q \in Runs : RecordGoes(q)
             /\ transfers' = transfers \/ \E u \in Threads : CommitTransfer(u)
  BY <1>16, <1>u DEF GiveUp
<1>17. ASSUME NEW t \in Threads, NEW c \in {"start", "work", "closure"}, NEW x \in Sessions, NEW r \in Runs, Gate(t, c, x, r)
      PROVE  /\ \A q \in Runs : RecordGoes(q)
             /\ transfers' = transfers \/ \E u \in Threads : CommitTransfer(u)
  BY <1>17, <1>u DEF Gate
<1>18. ASSUME NEW t \in Threads, NEW k \in Takeovers, NEW x \in Sessions, NEW r \in Runs, RequestTakeover(t, k, x, r)
      PROVE  /\ \A q \in Runs : RecordGoes(q)
             /\ transfers' = transfers \/ \E u \in Threads : CommitTransfer(u)
  BY <1>18, <1>u DEF RequestTakeover
<1>19. ASSUME NEW t \in Threads, NEW x \in Sessions, NEW r \in Runs, ReconcileAdmit(t, x, r)
      PROVE  /\ \A q \in Runs : RecordGoes(q)
             /\ transfers' = transfers \/ \E u \in Threads : CommitTransfer(u)
  BY <1>19, <1>u DEF ReconcileAdmit
<1>20. ASSUME NEW t \in Threads, NEW k \in Takeovers, ConfirmRead(t, k)
      PROVE  /\ \A q \in Runs : RecordGoes(q)
             /\ transfers' = transfers \/ \E u \in Threads : CommitTransfer(u)
  BY <1>20, <1>u DEF ConfirmRead
<1>21. ASSUME NEW t \in Threads, NEW r \in Runs, ResetQuiesce(t, r)
      PROVE  /\ \A q \in Runs : RecordGoes(q)
             /\ transfers' = transfers \/ \E u \in Threads : CommitTransfer(u)
  BY <1>21, <1>u DEF ResetQuiesce
<1>22. ASSUME NEW k \in Takeovers, TimePasses(k)
      PROVE  /\ \A q \in Runs : RecordGoes(q)
             /\ transfers' = transfers \/ \E u \in Threads : CommitTransfer(u)
  BY <1>22, <1>u DEF TimePasses
<1>23. ASSUME NEW k \in Takeovers, Deny(k)
      PROVE  /\ \A q \in Runs : RecordGoes(q)
             /\ transfers' = transfers \/ \E u \in Threads : CommitTransfer(u)
  BY <1>23, <1>u DEF Deny
<1>24. ASSUME NEW x \in Sessions, Exit(x)
      PROVE  /\ \A q \in Runs : RecordGoes(q)
             /\ transfers' = transfers \/ \E u \in Threads : CommitTransfer(u)
  <2>1. bind[x].run \in Runs
    BY <1>24, <1>g DEF Exit, Tables
  <2> QED
    BY <1>24, <1>o, <2>1 DEF Exit
<1>25. ASSUME NEW x \in Sessions, NEW old \in Runs, NEW new \in Runs, Recover(x, old, new)
      PROVE  /\ \A q \in Runs : RecordGoes(q)
             /\ transfers' = transfers \/ \E u \in Threads : CommitTransfer(u)
  <2>1. \A q \in Runs : RecordGoes(q)
    BY <1>25, <1>e, <1>g, Recovered DEF RecordGoes, NoRecord, INITIAL_OWNERSHIP_EPOCH
  <2> QED
    BY <1>25, <2>1 DEF Recover
<1>26. ASSUME NEW r \in Runs, AdminClear(r)
      PROVE  /\ \A q \in Runs : RecordGoes(q)
             /\ transfers' = transfers \/ \E u \in Threads : CommitTransfer(u)
  BY <1>26, <1>u DEF AdminClear
<1>27. ASSUME NEW r \in Runs, Split(r)
      PROVE  /\ \A q \in Runs : RecordGoes(q)
             /\ transfers' = transfers \/ \E u \in Threads : CommitTransfer(u)
  <2>1. rec[r].owner \in Sessions
    BY <1>27, <1>g DEF Split, Tables, RecordShape
  <2> QED
    BY <1>27, <1>o, <2>1 DEF Split
<1>28. ASSUME NEW s \in Stories, ConflictFreeze(s)
      PROVE  /\ \A q \in Runs : RecordGoes(q)
             /\ transfers' = transfers \/ \E u \in Threads : CommitTransfer(u)
  BY <1>28, <1>u DEF ConflictFreeze
<1>29. ASSUME NEW s \in Stories, ReleaseConflictFreeze(s)
      PROVE  /\ \A q \in Runs : RecordGoes(q)
             /\ transfers' = transfers \/ \E u \in Threads : CommitTransfer(u)
  BY <1>29, <1>u DEF ReleaseConflictFreeze
<1>30. ASSUME NEW s \in Stories, SplitFreeze(s)
      PROVE  /\ \A q \in Runs : RecordGoes(q)
             /\ transfers' = transfers \/ \E u \in Threads : CommitTransfer(u)
  BY <1>30, <1>u DEF SplitFreeze
<1>31. ASSUME NEW s \in Stories, SplitThaw(s)
      PROVE  /\ \A q \in Runs : RecordGoes(q)
             /\ transfers' = transfers \/ \E u \in Threads : CommitTransfer(u)
  BY <1>31, <1>u DEF SplitThaw
<1>32. CASE UNCHANGED vars
  BY <1>32, <1>u DEF vars
<1> QED
  BY <1>1, <1>2, <1>3, <1>4, <1>5, <1>6, <1>7, <1>8, <1>9, <1>10, <1>11,
     <1>12, <1>13, <1>14, <1>15, <1>16, <1>17, <1>18, <1>19, <1>20, <1>21,
     <1>22, <1>23, <1>24, <1>25, <1>26, <1>27, <1>28, <1>29, <1>30, <1>31,
     <1>32
     DEF Next, ThreadStep, Call

LEMMA TransferStep ==
  ASSUME Shapes, HandInv, TransferInv, [Next]_vars
  PROVE  TransferInv'
<1>1. \A q \in Runs : RecordGoes(q) /\ rec[q].epoch \in Nat
  BY RecordsGoOn DEF Shapes, Tables, Records
<1>2. \A t \in Threads : CommitTransfer(t) =>
        /\ th[t].run \in Runs /\ rec'[th[t].run].epoch = rec[th[t].run].epoch + 1
        /\ transfers' = transfers \cup {<<th[t].run, rec[th[t].run].epoch + 1>>}
  <2>1. SUFFICES ASSUME NEW t \in Threads, CommitTransfer(t)
                 PROVE  /\ th[t].run \in Runs /\ rec'[th[t].run].epoch = rec[th[t].run].epoch + 1
                        /\ transfers' = transfers \cup {<<th[t].run, rec[th[t].run].epoch + 1>>}
    OBVIOUS
  <2> QED
    BY <2>1, Transferred, Zenon
<1>3. transfers \subseteq transfers'
  BY <1>2, RecordsGoOn
<1>4. ASSUME NEW q \in Runs, rec'[q].status # "none", rec'[q].epoch > INITIAL_OWNERSHIP_EPOCH
      PROVE  <<q, rec'[q].epoch>> \in transfers'
  <2>1. rec[q].status # "none"
    BY <1>1, <1>4 DEF RecordGoes, INITIAL_OWNERSHIP_EPOCH
  <2>2. CASE rec'[q].owner = rec[q].owner
    BY <1>1, <1>3, <1>4, <2>1, <2>2 DEF RecordGoes, TransferInv
  <2>3. CASE rec'[q].owner # rec[q].owner
    <3>1. PICK t \in Threads : CommitTransfer(t) /\ th[t].run = q
      BY <1>1, <2>1, <2>3 DEF RecordGoes
    <3> QED
      BY <1>2, <3>1
  <2> QED
    BY <2>2, <2>3
<1>5. ASSUME NEW z \in transfers' PROVE z[2] <= rec'[z[1]].epoch
  <2>1. CASE z \in transfers
    <3>1. z[1] \in Runs /\ z[2] \in Nat /\ z[2] <= rec[z[1]].epoch
      BY <2>1 DEF TransferInv, Shapes, Tables
    <3>2. rec[z[1]].epoch \in Nat /\ rec'[z[1]].epoch >= rec[z[1]].epoch /\ rec'[z[1]].epoch \in Nat
      BY <1>1, <3>1, TablesStep DEF RecordGoes, Tables, Records
    <3> QED
      BY <3>1, <3>2
  <2>2. CASE z \notin transfers
    <3>1. PICK t \in Threads : CommitTransfer(t)
      BY <1>5, <2>2, RecordsGoOn
    <3>2. z = <<th[t].run, rec[th[t].run].epoch + 1>> /\ rec[th[t].run].epoch \in Nat
      BY <1>1, <1>2, <2>2, <3>1
    <3> QED
      BY <1>2, <3>1, <3>2
  <2> QED
    BY <2>1, <2>2
<1> QED
  BY <1>4, <1>5 DEF TransferInv

(* A thread stays in possession of the story claim while it works on a        *)
(* request, and the transactions of the request follow in their order.       *)
LEMMA HandStep ==
  ASSUME Shapes, HandInv, [Next]_vars
  PROVE  HandInv'
<1>1. SUFFICES ASSUME NEW u \in Threads PROVE (ClaimHeld(u) /\ RequestOrder(u))'
  BY DEF HandInv
<1>g. /\ th \in [Threads -> ThreadType] /\ claim \in [Stories -> Threads \cup {None}]
      /\ ThreadShape(th[u]) /\ \A r \in Runs : StoryOf[r] \in Stories
  BY OwnershipAssumption DEF Shapes, ThreadTypes, ClaimTypes
<1>i. Idle.pc = "idle"
  BY IdleShape
<1>2. CASE Keeps(u)
  <2>1. SUFFICES ASSUME th[u].pc \in TakeoverSteps PROVE (ClaimHeld(u) /\ RequestOrder(u))'
    BY <1>2 DEF Keeps, ClaimHeld, RequestOrder, TakeoverSteps
  <2>2. PICK k \in Takeovers : k = th[u].k
    BY <1>g, <2>1 DEF ThreadShape
  <2>3. /\ tk[k] # NoTakeover /\ tk[k].run \in Runs /\ claim[StoryOf[tk[k].run]] = u
    BY <2>1, <2>2, RequestInHand
  <2>4. Goes(k) /\ tk'[k] # NoTakeover /\ tk'[k].run = tk[k].run
    BY <2>3, RequestsStep DEF Goes
  <2>5. ClaimHeld(u)'
    BY <1>2, <1>g, <2>2, <2>3, <2>4 DEF Keeps, ClaimHeld
  <2>6. RequestOrder(u)
    BY DEF HandInv
  <2>7. \A t \in Threads : ~(th[t].pc = "challenge" /\ th[t].k = k /\ th'[t] = Idle)
    <3>1. SUFFICES ASSUME NEW t \in Threads, th[t].pc = "challenge", th[t].k = k, th'[t] = Idle
                   PROVE  FALSE
      OBVIOUS
    <3>2. claim[StoryOf[tk[k].run]] = t
      BY <3>1, RequestInHand DEF TakeoverSteps
    <3> QED
      BY <1>2, <1>i, <2>1, <2>3, <3>1, <3>2 DEF Keeps, TakeoverSteps
  <2>8. RequestOrder(u)'
    BY <1>2, <2>2, <2>3, <2>4, <2>6, <2>7 DEF Keeps, RequestOrder, Goes
  <2> QED
    BY <2>5, <2>8
<1>3. CASE th'[u] = Idle
  BY <1>3, <1>i DEF ClaimHeld, RequestOrder, TakeoverSteps
<1>4. ASSUME th'[u].pc \notin TakeoverSteps PROVE (ClaimHeld(u) /\ RequestOrder(u))'
  BY <1>4 DEF ClaimHeld, RequestOrder, TakeoverSteps
<1>5. CASE GoesOn(u)
  <2>1. CASE Admit(u)
    BY <1>4, <1>g, <2>1 DEF Admit, ThreadType, TakeoverSteps
  <2>2. CASE StartUnderClaim(u)
    BY <1>4, <1>g, <2>2 DEF StartUnderClaim, ThreadType, TakeoverSteps
  <2>3. CASE SaveOperation(u)
    <3>1. th[u].pc = "saveop" /\ th[u].pc \in TakeoverSteps
      BY <2>3 DEF SaveOperation, TakeoverSteps
    <3>2. PICK k \in Takeovers : k = th[u].k
      BY <3>1, RequestInHand
    <3>3. tk[k] \in TakeoverType /\ claim[StoryOf[tk[k].run]] = u /\ tk[k].chal = "none"
          /\ tk[k] # NoTakeover
      BY <3>1, <3>2, RequestInHand DEF HandInv, RequestOrder
    <3>4. Goes(k)
      BY RequestsStep
    <3>5. th'[u].pc = "challenge" /\ th'[u].k = k /\ claim' = claim
      BY <1>g, <2>3, <3>2 DEF SaveOperation, ThreadType
    <3>6. tk \in [Takeovers -> TakeoverType]
      BY DEF Shapes, Requests
    <3>7. tk'[k].chal = "none" /\ tk'[k].op \in {"pending", "offered"}
      BY <2>3, <3>2, <3>3, <3>6 DEF SaveOperation, TakeoverType
    <3>8. tk'[k] # NoTakeover /\ tk'[k].run = tk[k].run
      BY <3>3, <3>4 DEF Goes
    <3> QED
      BY <3>3, <3>5, <3>7, <3>8 DEF ClaimHeld, RequestOrder
  <2>4. CASE LoseFence(u)
    <3>1. th[u].pc = "decide" /\ th'[u].pc = "lost" /\ th'[u].k = th[u].k /\ claim' = claim /\ tk' = tk
      BY <1>g, <2>4 DEF LoseFence, ThreadType, tables
    <3> QED
      BY <3>1 DEF HandInv, ClaimHeld, RequestOrder, TakeoverSteps
  <2>5. ASSUME NEW c \in {"start", "work", "closure"}, NEW x \in Sessions, NEW r \in Runs, Gate(u, c, x, r)
        PROVE  th'[u].pc \notin TakeoverSteps
    BY <1>g, <2>5 DEF Gate, Idle, TakeoverSteps
  <2>6. ASSUME NEW k \in Takeovers, NEW x \in Sessions, NEW r \in Runs, RequestTakeover(u, k, x, r)
        PROVE  (ClaimHeld(u) /\ RequestOrder(u))'
    <3>1. th'[u].pc = "saveop" /\ th'[u].k = k /\ claim'[StoryOf[r]] = u
      BY <1>g, <2>6 DEF RequestTakeover, Idle
    <3>2. /\ tk'[k].by = x /\ tk'[k].run = r /\ tk'[k].chal = "none"
          /\ NoTakeover.by = None /\ None \notin Sessions
      BY <2>6, OwnershipAssumption DEF RequestTakeover, NoTakeover, Shapes, Requests
    <3> QED
      BY <3>1, <3>2 DEF ClaimHeld, RequestOrder
  <2>7. ASSUME NEW x \in Sessions, NEW r \in Runs, ReconcileAdmit(u, x, r)
        PROVE  th'[u].pc \notin TakeoverSteps
    BY <1>g, <2>7 DEF ReconcileAdmit, Idle, TakeoverSteps
  <2>8. ASSUME NEW k \in Takeovers, ConfirmRead(u, k)
        PROVE  (ClaimHeld(u) /\ RequestOrder(u))'
    <3>1. tk[k] # NoTakeover /\ tk[k].chal = "pending" /\ tk[k].run \in Runs
      BY <2>8, ConfirmRunIsOfStory DEF ConfirmRead, Shapes
    <3>2. th'[u].pc = "decide" /\ th'[u].k = k /\ claim'[StoryOf[tk[k].run]] = u /\ tk' = tk
      BY <1>g, <2>8, <3>1 DEF ConfirmRead, Idle, tables
    <3> QED
      BY <3>1, <3>2 DEF ClaimHeld, RequestOrder
  <2>9. ASSUME NEW r \in Runs, ResetQuiesce(u, r)
        PROVE  th'[u].pc \notin TakeoverSteps
    BY <1>g, <2>9 DEF ResetQuiesce, Idle, TakeoverSteps
  <2> QED
    BY <1>4, <1>5, <2>1, <2>2, <2>3, <2>4, <2>5, <2>6, <2>7, <2>8, <2>9 DEF GoesOn
<1> QED
  BY <1>2, <1>3, <1>5, ThreadMoves

LEMMA EpochStep ==
  ASSUME Shapes, HandInv, EpochInv, [Next]_vars
  PROVE  EpochInv'
<1>1. SUFFICES ASSUME NEW u \in Threads PROVE EpochKept(u)'
  BY DEF EpochInv
<1>g. /\ th \in [Threads -> ThreadType] /\ ThreadShape(th[u])
      /\ \A q \in Runs : RecordGoes(q) /\ rec[q].epoch \in Nat /\ rec'[q].epoch \in Nat
  BY RecordsGoOn, TablesStep DEF Shapes, ThreadTypes, Tables, Records
<1>2. CASE Keeps(u)
  <2>1. SUFFICES ASSUME th[u].pc \in {"commit", "reconcile"} PROVE EpochKept(u)'
    BY <1>2 DEF Keeps, EpochKept
  <2>2. PICK q \in Runs : q = th[u].run
    BY <1>g, <2>1 DEF ThreadShape
  <2>3. /\ rec[q].status # "none" /\ th[u].epoch <= rec[q].epoch /\ th[u].epoch \in Nat
        /\ rec[q].epoch = th[u].epoch => rec[q].owner = th[u].ses
    BY <1>g, <2>1, <2>2 DEF EpochInv, EpochKept, ThreadType
  <2>4. rec'[q].owner # rec[q].owner => rec'[q].epoch = rec[q].epoch + 1
    <3>1. SUFFICES ASSUME rec'[q].owner # rec[q].owner PROVE rec'[q].epoch = rec[q].epoch + 1
      OBVIOUS
    <3>2. PICK t \in Threads : CommitTransfer(t) /\ th[t].run = q
      BY <1>g, <2>3, <3>1 DEF RecordGoes
    <3>3. rec'[th[t].run].epoch = rec[th[t].run].epoch + 1
      BY <3>2, Transferred, Zenon
    <3> QED
      BY <3>2, <3>3
  <2>5. rec'[q].status # "none" /\ rec'[q].epoch >= rec[q].epoch
    BY <1>g, <2>3 DEF RecordGoes
  <2> QED
    BY <1>2, <1>g, <2>2, <2>3, <2>4, <2>5 DEF Keeps, EpochKept
<1>3. CASE th'[u] = Idle
  BY <1>3, IdleShape DEF EpochKept
<1>4. ASSUME th'[u].pc \notin {"commit", "reconcile"} PROVE EpochKept(u)'
  BY <1>4 DEF EpochKept
<1>5. CASE GoesOn(u)
  <2>1. CASE Admit(u)
    <3>1. /\ th'[u].pc = "commit" /\ th'[u].run = th[u].run /\ th'[u].ses = th[u].ses
          /\ th'[u].epoch = rec[th[u].run].epoch /\ rec' = rec /\ th[u].run \in Runs
          /\ Owns(th[u].ses, th[u].run)
      BY <1>g, <2>1 DEF Admit, ThreadType, ThreadShape, tables
    <3> QED
      BY <1>g, <3>1 DEF EpochKept, Owns
  <2>2. CASE StartUnderClaim(u)
    BY <1>4, <1>g, <2>2 DEF StartUnderClaim, ThreadType
  <2>3. CASE SaveOperation(u)
    BY <1>4, <1>g, <2>3 DEF SaveOperation, ThreadType
  <2>4. CASE LoseFence(u)
    BY <1>4, <1>g, <2>4 DEF LoseFence, ThreadType
  <2>5. ASSUME NEW c \in {"start", "work", "closure"}, NEW x \in Sessions, NEW r \in Runs, Gate(u, c, x, r)
        PROVE  th'[u].pc = "admit"
    BY <1>g, <2>5 DEF Gate, Idle
  <2>6. ASSUME NEW k \in Takeovers, NEW x \in Sessions, NEW r \in Runs, RequestTakeover(u, k, x, r)
        PROVE  th'[u].pc = "saveop"
    BY <1>g, <2>6 DEF RequestTakeover, Idle
  <2>7. ASSUME NEW x \in Sessions, NEW r \in Runs, ReconcileAdmit(u, x, r)
        PROVE  EpochKept(u)'
    <3>1. /\ th'[u].pc = "reconcile" /\ th'[u].run = r /\ th'[u].ses = x
          /\ th'[u].epoch = rec[r].epoch /\ rec' = rec /\ Owns(x, r)
      BY <1>g, <2>7 DEF ReconcileAdmit, Idle, tables
    <3> QED
      BY <1>g, <3>1 DEF EpochKept, Owns
  <2>8. ASSUME NEW k \in Takeovers, ConfirmRead(u, k)
        PROVE  th'[u].pc = "decide"
    BY <1>g, <2>8 DEF ConfirmRead, Idle
  <2>9. ASSUME NEW r \in Runs, ResetQuiesce(u, r)
        PROVE  th'[u].pc = "reset"
    BY <1>g, <2>9 DEF ResetQuiesce, Idle
  <2> QED
    BY <1>4, <1>5, <2>1, <2>2, <2>3, <2>4, <2>5, <2>6, <2>7, <2>8, <2>9 DEF GoesOn
<1> QED
  BY <1>2, <1>3, <1>5, ThreadMoves

(* What a confirm has read under the claim decides what it may still find.   *)
LEMMA DecisionStep ==
  ASSUME Shapes, HandInv, TransferInv, DecisionInv, [Next]_vars
  PROVE  DecisionInv'
<1>1. SUFFICES ASSUME NEW u \in Threads PROVE DecisionHolds(u)'
  BY DEF DecisionInv
<1>g. /\ th \in [Threads -> ThreadType] /\ ThreadShape(th[u])
      /\ \A r \in Runs : StoryOf[r] \in Stories
      /\ \A q \in Runs : RecordGoes(q) /\ rec[q].epoch \in Nat /\ rec'[q].epoch \in Nat
  BY RecordsGoOn, TablesStep, OwnershipAssumption DEF Shapes, ThreadTypes, Tables, Records
<1>2. CASE Keeps(u)
  <2>1. SUFFICES ASSUME th[u].pc = "decide" PROVE DecisionHolds(u)'
    BY <1>2 DEF Keeps, DecisionHolds
  <2>2. PICK k \in Takeovers : k = th[u].k
    BY <1>g, <2>1 DEF ThreadShape, TakeoverSteps
  <2>3. PICK q \in Runs : q = th[u].run
    BY <1>g, <2>1 DEF ThreadShape
  <2>4. /\ tk[k] # NoTakeover /\ tk[k] \in TakeoverType /\ tk[k].run \in Runs /\ tk[k].chal # "none"
        /\ tk[k].basis.epoch \in Nat
    BY <2>1, <2>2, RequestInHand DEF HandInv, RequestOrder, TakeoverSteps, TakeoverType
  <2>5. Goes(k)
    BY RequestsStep
  <2>6. /\ tk'[k].by = tk[k].by /\ tk'[k].run = tk[k].run /\ tk'[k].basis.epoch = tk[k].basis.epoch
        /\ tk'[k].chal = "pending" => tk[k].chal = "pending"
        /\ tk'[k].chal = "pending" /\ tk[k].appr = "approved" => tk'[k].appr = "approved"
        /\ tk'[k].appr = "pending" => tk[k].appr = "pending" /\ (tk[k].age = 2 => tk'[k].age = 2)
        /\ tk'[k].chal = "pending" => freeze'[StoryOf[tk[k].run]] \subseteq freeze[StoryOf[tk[k].run]]
    BY <2>4, <2>5 DEF Goes
  <2>7. /\ StoryOf[q] = StoryOf[tk[k].run]
        /\ tk[k].chal = "pending" => freeze[StoryOf[tk[k].run]] = {}
        /\ tk[k].appr = "pending" =>
             th[u].appr = "pending" \/ th[u].plan = "expireboth" \/ (th[u].plan = "invalidate" /\ tk[k].age = 2)
        /\ th[u].plan = "confirm" =>
             /\ tk[k].by \in NeedApproval => th[u].appr \in {"pending", "approved"}
             /\ th[u].appr = "approved" /\ tk[k].chal = "pending" => tk[k].appr = "approved"
             /\ tk[k].basis.epoch <= rec[q].epoch
             /\ <<q, tk[k].basis.epoch>> \notin transfers \/ tk[k].by \in Privileged
    BY <2>1, <2>2, <2>3 DEF DecisionInv, DecisionHolds
  <2>8. ASSUME th[u].plan = "confirm", <<q, tk[k].basis.epoch>> \notin transfers
        PROVE  <<q, tk[k].basis.epoch>> \notin transfers'
    <3>1. CASE transfers' = transfers
      BY <2>8, <3>1
    <3>2. CASE \E t \in Threads : CommitTransfer(t)
      <4>1. PICK t \in Threads : CommitTransfer(t)
        BY <3>2
      <4>2. th[t].run \in Runs /\ transfers' = transfers \cup {<<th[t].run, rec[th[t].run].epoch + 1>>}
        BY <4>1, Transferred, Zenon
      <4>3. <<q, tk[k].basis.epoch>> # <<th[t].run, rec[th[t].run].epoch + 1>>
        BY <1>g, <2>4, <2>7, <2>8, <4>2
      <4> QED
        BY <2>8, <4>2, <4>3
    <3> QED
      BY <3>1, <3>2, RecordsGoOn
  <2>9. rec'[q].epoch >= rec[q].epoch
    BY <1>g DEF RecordGoes
  <2>10. /\ th'[u].plan = "confirm" =>
              tk'[k].basis.epoch <= rec'[q].epoch
              /\ (<<q, tk'[k].basis.epoch>> \notin transfers' \/ tk'[k].by \in Privileged)
    BY <1>2, <1>g, <2>4, <2>6, <2>7, <2>8, <2>9 DEF Keeps
  <2>11. tk'[k].chal = "pending" => freeze'[StoryOf[tk'[k].run]] = {}
    BY <2>6, <2>7
  <2> QED
    BY <1>2, <2>2, <2>3, <2>6, <2>7, <2>10, <2>11 DEF Keeps, DecisionHolds
<1>3. CASE th'[u] = Idle
  BY <1>3, IdleShape DEF DecisionHolds
<1>4. ASSUME th'[u].pc # "decide" PROVE DecisionHolds(u)'
  BY <1>4 DEF DecisionHolds
<1>5. CASE GoesOn(u)
  <2>1. CASE Admit(u)
    BY <1>4, <1>g, <2>1 DEF Admit, ThreadType
  <2>2. CASE StartUnderClaim(u)
    BY <1>4, <1>g, <2>2 DEF StartUnderClaim, ThreadType
  <2>3. CASE SaveOperation(u)
    BY <1>4, <1>g, <2>3 DEF SaveOperation, ThreadType
  <2>4. CASE LoseFence(u)
    BY <1>4, <1>g, <2>4 DEF LoseFence, ThreadType
  <2>5. ASSUME NEW c \in {"start", "work", "closure"}, NEW x \in Sessions, NEW r \in Runs, Gate(u, c, x, r)
        PROVE  th'[u].pc = "admit"
    BY <1>g, <2>5 DEF Gate, Idle
  <2>6. ASSUME NEW k \in Takeovers, NEW x \in Sessions, NEW r \in Runs, RequestTakeover(u, k, x, r)
        PROVE  th'[u].pc = "saveop"
    BY <1>g, <2>6 DEF RequestTakeover, Idle
  <2>7. ASSUME NEW x \in Sessions, NEW r \in Runs, ReconcileAdmit(u, x, r)
        PROVE  th'[u].pc = "reconcile"
    BY <1>g, <2>7 DEF ReconcileAdmit, Idle
  <2>8. ASSUME NEW k \in Takeovers, ConfirmRead(u, k)
        PROVE  DecisionHolds(u)'
    <3>1. /\ tk[k] # NoTakeover /\ tk[k].chal = "pending" /\ tk[k].run \in Runs /\ tk[k] \in TakeoverType
          /\ tk[k].basis.owner \in Sessions
          /\ ConfirmRun(k) \in Runs /\ StoryOf[ConfirmRun(k)] = StoryOf[tk[k].run]
      BY <2>8, ConfirmRunIsOfStory DEF ConfirmRead, Shapes
    <3>2. PICK q \in Runs : q = ConfirmRun(k)
      BY <3>1
    <3>3. /\ th'[u].pc = "decide" /\ th'[u].k = k /\ th'[u].plan = ConfirmPlan(k) /\ th'[u].run = q
          /\ th'[u].appr = ApprovalSeen(k)
          /\ freeze[StoryOf[tk[k].run]] = {}
          /\ UNCHANGED <<rec, tk, freeze, transfers>>
      BY <1>g, <2>8, <3>1, <3>2 DEF ConfirmRead, ConfirmRun, Idle, tables
    <3>4. tk[k].appr = "pending" =>
            ApprovalSeen(k) = "pending" \/ ConfirmPlan(k) = "expireboth" \/ (ConfirmPlan(k) = "invalidate" /\ tk[k].age = 2)
      BY DEF ApprovalSeen, ConfirmPlan
    <3>5. ApprovalSeen(k) = "approved" => tk[k].appr = "approved"
      BY DEF ApprovalSeen
    <3>6. ASSUME ConfirmPlan(k) = "confirm"
          PROVE  /\ tk[k].by \in NeedApproval => ApprovalSeen(k) \in {"pending", "approved"}
                 /\ tk[k].basis.epoch <= rec[q].epoch
                 /\ <<q, tk[k].basis.epoch>> \notin transfers \/ tk[k].by \in Privileged
      <4>1. /\ tk[k].by \in NeedApproval => ApprovalSeen(k) \in {"pending", "approved"}
            /\ BasisOfStory(StoryOf[tk[k].run]) = tk[k].basis
            /\ ~ \E p \in ActiveRuns(StoryOf[tk[k].run]) : DisownedBarrier(tk[k].by, p)
        BY <3>6 DEF ConfirmPlan
      <4>2. NoBasis.owner = None /\ None \notin Sessions
        BY OwnershipAssumption DEF NoBasis
      <4>3. ActiveRuns(StoryOf[tk[k].run]) # {}
        BY <3>1, <4>1, <4>2 DEF BasisOfStory
      <4>4. /\ q \in ActiveRuns(StoryOf[tk[k].run])
            /\ q = CHOOSE r \in ActiveRuns(StoryOf[tk[k].run]) : TRUE
        BY <3>1, <3>2, <4>3, ConfirmRunIsOfStory DEF Shapes
      <4>5. tk[k].basis = OwnershipBasis(q)
        BY <4>1, <4>3, <4>4 DEF BasisOfStory
      <4>6. tk[k].basis.epoch = rec[q].epoch
        BY <3>1, <4>5, BasisIsCurrent DEF Shapes
      <4>7. <<q, rec[q].epoch>> \notin transfers \/ tk[k].by \in Privileged
        BY <4>1, <4>4 DEF DisownedBarrier
      <4> QED
        BY <1>g, <4>1, <4>6, <4>7
    <3> QED
      BY <3>1, <3>2, <3>3, <3>4, <3>5, <3>6 DEF DecisionHolds
  <2>9. ASSUME NEW r \in Runs, ResetQuiesce(u, r)
        PROVE  th'[u].pc = "reset"
    BY <1>g, <2>9 DEF ResetQuiesce, Idle
  <2> QED
    BY <1>4, <1>5, <2>1, <2>2, <2>3, <2>4, <2>5, <2>6, <2>7, <2>8, <2>9 DEF GoesOn
<1> QED
  BY <1>2, <1>3, <1>5, ThreadMoves

(* Records and bindings are written together.                                *)
LEMMA OwnerStep ==
  ASSUME Shapes, HandInv, OwnerInv, [Next]_vars
  PROVE  OwnerInv'
<1> USE DEF tables
<1>g. Tables /\ OneActive /\ BindingOwns
  BY DEF Shapes, OwnerInv
<1>u. ASSUME UNCHANGED <<rec, bind>> PROVE OwnerInv'
  BY <1>g, <1>u DEF OwnerInv, OneActive, BindingOwns, Owns
<1>t. ASSUME NEW t \in Threads PROVE ThreadShape(th[t])
  BY DEF Shapes, ThreadTypes
<1>b. \A x \in Sessions : bind[x].status = "active" =>
         bind[x].run \in Runs /\ rec[bind[x].run].status = "active" /\ rec[bind[x].run].owner = x
  BY <1>g DEF BindingOwns, Owns, Tables
<1>o. ASSUME NEW x \in Sessions, NEW r \in Runs, NEW st \in {"ended", "reset", "split"}, Disown(x, r, st)
      PROVE  OwnerInv'
  <2>1. /\ bind[x].status = "active" /\ bind[x].run = r /\ bind'[x].status = "revoked"
        /\ \A y \in Sessions : y # x => bind'[y] = bind[y]
        /\ rec'[r].status = st /\ \A p \in Runs : p # r => rec'[p] = rec[p]
    BY <1>g, <1>o, Disowned
  <2>2. OneActive'
    BY <1>g, <2>1 DEF OneActive
  <2>3. BindingOwns'
    BY <1>b, <2>1 DEF BindingOwns, Owns
  <2> QED
    BY <2>2, <2>3 DEF OwnerInv
<1>1. ASSUME NEW t \in Threads, Admit(t)
      PROVE  OwnerInv'
  BY <1>1, <1>u DEF Admit
<1>2. ASSUME NEW t \in Threads, CommitWork(t)
      PROVE  OwnerInv'
  <2>1. th[t].ses \in Sessions /\ th[t].run \in Runs
    BY <1>2, <1>t DEF CommitWork, ThreadShape
  <2>2. Owns(th[t].ses, th[t].run) /\ Rebind(th[t].ses, th[t].run) /\ rec' = rec
    BY <1>2 DEF CommitWork, OwnershipFence
  <2>3. /\ bind'[th[t].ses].run = th[t].run
        /\ \A y \in Sessions : y # th[t].ses => bind'[y] = bind[y]
    BY <1>g, <2>1, <2>2, Rebound
  <2>4. BindingOwns'
    BY <1>b, <2>1, <2>2, <2>3 DEF BindingOwns, Owns
  <2>5. OneActive'
    BY <1>g, <2>2 DEF OneActive
  <2> QED
    BY <2>4, <2>5 DEF OwnerInv
<1>3. ASSUME NEW t \in Threads, CommitClosure(t)
      PROVE  OwnerInv'
  <2>1. th[t].ses \in Sessions /\ rec' = rec
    BY <1>3, <1>t DEF CommitClosure, ThreadShape
  <2>2. /\ bind'[th[t].ses].status = "none"
        /\ \A y \in Sessions : y # th[t].ses => bind'[y] = bind[y]
    BY <1>3, <1>g, <2>1 DEF CommitClosure, NoBinding, Tables
  <2>3. BindingOwns'
    BY <1>b, <2>1, <2>2 DEF BindingOwns, Owns
  <2>4. OneActive'
    BY <1>g, <2>1 DEF OneActive
  <2> QED
    BY <2>3, <2>4 DEF OwnerInv
<1>4. ASSUME NEW t \in Threads, StartUnderClaim(t)
      PROVE  OwnerInv'
  BY <1>4, <1>u DEF StartUnderClaim
<1>5. ASSUME NEW t \in Threads, FinalizeStart(t)
      PROVE  OwnerInv'
  <2>1. th[t].ses \in Sessions /\ th[t].run \in Runs
    BY <1>5, <1>t DEF FinalizeStart, ThreadShape
  <2>2. Rebind(th[t].ses, th[t].run)
    BY <1>5 DEF FinalizeStart
  <2>3. /\ bind'[th[t].ses].run = th[t].run
        /\ \A y \in Sessions : y # th[t].ses => bind'[y] = bind[y]
    BY <1>g, <2>1, <2>2, Rebound
  <2>4. CASE th[t].plan = "mint"
    <3>1. InsertOwnershipRecord(th[t].run, th[t].ses)
      BY <1>5, <2>4 DEF FinalizeStart
    <3>2. /\ rec[th[t].run].status = "none"
          /\ rec'[th[t].run].status = "active" /\ rec'[th[t].run].owner = th[t].ses
          /\ \A p \in Runs : p # th[t].run => rec'[p] = rec[p]
          /\ \A p \in Runs : StoryOf[p] = StoryOf[th[t].run] => rec[p].status # "active"
      BY <1>g, <2>1, <3>1, Inserted DEF NoRecord
    <3>3. BindingOwns'
      BY <1>b, <2>1, <2>3, <3>2 DEF BindingOwns, Owns
    <3>4. OneActive'
      BY <1>g, <2>1, <3>2 DEF OneActive
    <3> QED
      BY <3>3, <3>4 DEF OwnerInv
  <2>5. CASE th[t].plan # "mint"
    <3>1. Owns(th[t].ses, th[t].run) /\ rec' = rec
      BY <1>5, <2>5 DEF FinalizeStart, OwnershipFence
    <3>2. BindingOwns'
      BY <1>b, <2>1, <2>3, <3>1 DEF BindingOwns, Owns
    <3>3. OneActive'
      BY <1>g, <3>1 DEF OneActive
    <3> QED
      BY <3>2, <3>3 DEF OwnerInv
  <2> QED
    BY <2>4, <2>5
<1>6. ASSUME NEW t \in Threads, SaveOperation(t)
      PROVE  OwnerInv'
  BY <1>6, <1>u DEF SaveOperation
<1>7. ASSUME NEW t \in Threads, InsertChallenge(t)
      PROVE  OwnerInv'
  BY <1>7, <1>u DEF InsertChallenge
<1>8. ASSUME NEW t \in Threads, CommitTransfer(t)
      PROVE  OwnerInv'
  <2>1. PICK r \in Runs, x \in Sessions : r = th[t].run /\ x = tk[th[t].k].by
    BY <1>8, Transferred
  <2>2. /\ rec[r].status = "active" /\ x # rec[r].owner /\ rec[r].owner \in Sessions
        /\ rec'[r].status = "active" /\ rec'[r].owner = x
        /\ \A p \in Runs : p # r => rec'[p] = rec[p]
        /\ bind'[x].status = "active" /\ bind'[x].run = r
        /\ bind'[rec[r].owner].status = "revoked"
        /\ \A y \in Sessions : y # x /\ y # rec[r].owner => bind'[y] = bind[y]
    BY <1>8, <2>1, Transferred, Zenon
  <2>3. BindingOwns'
    BY <1>b, <2>2 DEF BindingOwns, Owns
  <2>4. OneActive'
    BY <1>g, <2>2 DEF OneActive
  <2> QED
    BY <2>3, <2>4 DEF OwnerInv
<1>9. ASSUME NEW t \in Threads, CommitReissue(t)
      PROVE  OwnerInv'
  BY <1>9, <1>u DEF CommitReissue
<1>10. ASSUME NEW t \in Threads, CommitEnding(t)
      PROVE  OwnerInv'
  BY <1>10, <1>u DEF CommitEnding
<1>11. ASSUME NEW t \in Threads, LoseFence(t)
      PROVE  OwnerInv'
  BY <1>11, <1>u DEF LoseFence
<1>12. ASSUME NEW t \in Threads, ReconcileLoss(t)
      PROVE  OwnerInv'
  BY <1>12, <1>u DEF ReconcileLoss
<1>13. ASSUME NEW t \in Threads, ReconcileClears(t)
      PROVE  OwnerInv'
  BY <1>13, <1>u DEF ReconcileClears
<1>14. ASSUME NEW t \in Threads, ReconcileContests(t)
      PROVE  OwnerInv'
  BY <1>14, <1>u DEF ReconcileContests
<1>15. ASSUME NEW t \in Threads, Reset(t)
      PROVE  OwnerInv'
  <2>1. th[t].run \in Runs /\ rec[th[t].run].owner \in Sessions
    BY <1>15, <1>g, <1>t DEF Reset, ThreadShape, Tables, RecordShape
  <2> QED
    BY <1>15, <1>o, <2>1 DEF Reset
<1>16. ASSUME NEW t \in Threads, GiveUp(t)
      PROVE  OwnerInv'
  BY <1>16, <1>u DEF GiveUp
<1>17. ASSUME NEW t \in Threads, NEW c \in {"start", "work", "closure"}, NEW x \in Sessions, NEW r \in Runs, Gate(t, c, x, r)
      PROVE  OwnerInv'
  BY <1>17, <1>u DEF Gate
<1>18. ASSUME NEW t \in Threads, NEW k \in Takeovers, NEW x \in Sessions, NEW r \in Runs, RequestTakeover(t, k, x, r)
      PROVE  OwnerInv'
  BY <1>18, <1>u DEF RequestTakeover
<1>19. ASSUME NEW t \in Threads, NEW x \in Sessions, NEW r \in Runs, ReconcileAdmit(t, x, r)
      PROVE  OwnerInv'
  BY <1>19, <1>u DEF ReconcileAdmit
<1>20. ASSUME NEW t \in Threads, NEW k \in Takeovers, ConfirmRead(t, k)
      PROVE  OwnerInv'
  BY <1>20, <1>u DEF ConfirmRead
<1>21. ASSUME NEW t \in Threads, NEW r \in Runs, ResetQuiesce(t, r)
      PROVE  OwnerInv'
  BY <1>21, <1>u DEF ResetQuiesce
<1>22. ASSUME NEW k \in Takeovers, TimePasses(k)
      PROVE  OwnerInv'
  BY <1>22, <1>u DEF TimePasses
<1>23. ASSUME NEW k \in Takeovers, Deny(k)
      PROVE  OwnerInv'
  BY <1>23, <1>u DEF Deny
<1>24. ASSUME NEW x \in Sessions, Exit(x)
      PROVE  OwnerInv'
  <2>1. bind[x].run \in Runs
    BY <1>24, <1>g DEF Exit, Tables
  <2> QED
    BY <1>24, <1>o, <2>1 DEF Exit
<1>25. ASSUME NEW x \in Sessions, NEW old \in Runs, NEW new \in Runs, Recover(x, old, new)
      PROVE  OwnerInv'
  <2>1. /\ rec[old].status = "active" /\ rec[new].status = "none" /\ StoryOf[old] = StoryOf[new]
        /\ rec'[old].status = "transferred" /\ rec'[new].status = "active" /\ rec'[new].owner = x
        /\ \A p \in Runs : p # old /\ p # new => rec'[p] = rec[p]
        /\ bind'[x].status = "active" /\ bind'[x].run = new
        /\ rec[old].owner # x => bind'[rec[old].owner].status = "revoked"
        /\ \A y \in Sessions : y # x /\ y # rec[old].owner => bind'[y] = bind[y]
    BY <1>25, <1>g, Recovered DEF NoRecord
  <2>2. BindingOwns'
    BY <1>b, <2>1 DEF BindingOwns, Owns
  <2>3. OneActive'
    BY <1>g, <2>1 DEF OneActive
  <2> QED
    BY <2>2, <2>3 DEF OwnerInv
<1>26. ASSUME NEW r \in Runs, AdminClear(r)
      PROVE  OwnerInv'
  BY <1>26, <1>u DEF AdminClear
<1>27. ASSUME NEW r \in Runs, Split(r)
      PROVE  OwnerInv'
  <2>1. rec[r].owner \in Sessions
    BY <1>27, <1>g DEF Split, Tables, RecordShape
  <2> QED
    BY <1>27, <1>o, <2>1 DEF Split
<1>28. ASSUME NEW s \in Stories, ConflictFreeze(s)
      PROVE  OwnerInv'
  BY <1>28, <1>u DEF ConflictFreeze
<1>29. ASSUME NEW s \in Stories, ReleaseConflictFreeze(s)
      PROVE  OwnerInv'
  BY <1>29, <1>u DEF ReleaseConflictFreeze
<1>30. ASSUME NEW s \in Stories, SplitFreeze(s)
      PROVE  OwnerInv'
  BY <1>30, <1>u DEF SplitFreeze
<1>31. ASSUME NEW s \in Stories, SplitThaw(s)
      PROVE  OwnerInv'
  BY <1>31, <1>u DEF SplitThaw
<1>32. CASE UNCHANGED vars
  BY <1>32, <1>u DEF vars
<1> QED
  BY <1>1, <1>2, <1>3, <1>4, <1>5, <1>6, <1>7, <1>8, <1>9, <1>10, <1>11,
     <1>12, <1>13, <1>14, <1>15, <1>16, <1>17, <1>18, <1>19, <1>20, <1>21,
     <1>22, <1>23, <1>24, <1>25, <1>26, <1>27, <1>28, <1>29, <1>30, <1>31,
     <1>32
     DEF Next, ThreadStep, Call

------------------------------------------------------------------------------
(* The end of a request.                                                     *)

(* What the transaction of a confirm does to its request. *)
LEMMA Confirmed ==
  ASSUME Shapes, HandInv, DecisionInv, NEW t \in Threads, CommitTransfer(t)
  PROVE  LET k == th[t].k IN
         /\ k \in Takeovers /\ tk[k].chal = "pending" /\ th[t].plan = "confirm"
         /\ tk'[k].op = "approved" /\ tk'[k].chal = "confirmed" /\ tk'[k].appr # "pending"
         /\ tk[k].by \in NeedApproval => tk'[k].appr = "approved"
         /\ freeze[StoryOf[th[t].run]] = {}
         /\ \A j \in Takeovers : j # k => tk'[j] = tk[j]
<1>1. th[t].pc = "decide" /\ th[t].plan = "confirm" /\ tk[th[t].k].chal = "pending"
  BY DEF CommitTransfer, TransferCAS, OpenRequest
<1>2. PICK k \in Takeovers : k = th[t].k
  BY <1>1, RequestInHand DEF TakeoverSteps
<1>3. /\ StoryOf[th[t].run] = StoryOf[tk[k].run] /\ freeze[StoryOf[tk[k].run]] = {}
      /\ tk[k].appr = "pending" => th[t].appr = "pending"
      /\ tk[k].by \in NeedApproval => th[t].appr \in {"pending", "approved"}
      /\ th[t].appr = "approved" => tk[k].appr = "approved"
  BY <1>1, <1>2 DEF DecisionInv, DecisionHolds
<1>4. tk \in [Takeovers -> TakeoverType] /\ tk[k] \in TakeoverType
  BY <1>2 DEF Shapes, Requests
<1>5. PICK p : p = IF th[t].appr = "pending" THEN "approved" ELSE tk[k].appr
  OBVIOUS
<1>6. PICK a : a = [tk[k] EXCEPT !.op = "approved", !.chal = "confirmed", !.appr = p]
  OBVIOUS
<1>7. a.op = "approved" /\ a.chal = "confirmed" /\ a.appr = p
  BY <1>4, <1>6 DEF TakeoverType
<1>8. tk' = [tk EXCEPT ![k].op = "approved", ![k].chal = "confirmed", ![k].appr = p]
  BY <1>2, <1>5 DEF CommitTransfer
<1>9. tk' = [tk EXCEPT ![k] = a]
  BY <1>4, <1>6, <1>8
<1>10. tk'[k] = a /\ \A j \in Takeovers : j # k => tk'[j] = tk[j]
  BY <1>4, <1>9
<1> QED
  BY <1>1, <1>2, <1>3, <1>5, <1>7, <1>10

(* Challenge, operation and approval of one request. *)
Together(a) ==
  /\ a.chal = "pending" => a.op \in {"pending", "offered"}
  /\ a.chal = "confirmed" => a.op = "approved"
  /\ a.chal \in Outcomes => a.op = a.chal
  /\ a.appr = "pending" => a.chal \in {"none", "pending"} \/ (a.chal = "invalidated" /\ a.age = 2)

LEMMA EndStep ==
  ASSUME Shapes, HandInv, DecisionInv, EndTogether, [Next]_vars
  PROVE  EndTogether'
<1> USE DEF tables
<1>g. Requests /\ Tables /\ \A j \in Takeovers : Together(tk[j])
  BY DEF Shapes, EndTogether, Together
<1>n. tk \in [Takeovers -> TakeoverType]
  BY <1>g DEF Requests
<1>f. Outcomes = {"denied", "expired", "invalidated"}
  BY DEF Outcomes
<1>p. ASSUME \A j \in Takeovers : Together(tk'[j]) PROVE EndTogether'
  BY <1>p DEF EndTogether, Together
<1>u. ASSUME UNCHANGED tk PROVE EndTogether'
  BY <1>g, <1>p, <1>u
<1>w. ASSUME NEW k \in Takeovers, NEW a, Together(a), tk' = [tk EXCEPT ![k] = a] PROVE EndTogether'
  BY <1>g, <1>n, <1>p, <1>w
(* A pending request ends; its approval ends too, unless it has timed out.   *)
<1>e. ASSUME NEW k \in Takeovers, tk[k].chal = "pending", NEW st \in Outcomes, NEW both \in BOOLEAN,
             tk' = EndTakeover(k, st, both),
             tk[k].appr = "pending" => both \/ (st = "invalidated" /\ tk[k].age = 2)
      PROVE  EndTogether'
  <2>1. tk[k] # NoTakeover
    BY <1>e DEF NoTakeover
  <2>2. /\ tk' = [tk EXCEPT ![k] = tk'[k]]
        /\ tk'[k].chal = st /\ tk'[k].op = st /\ tk'[k].appr = (IF both THEN st ELSE tk[k].appr)
        /\ tk'[k].age = tk[k].age
    BY <1>e, <1>g, <2>1, EndedRequest
  <2>3. Together(tk'[k])
    BY <1>e, <1>f, <2>2 DEF Together
  <2> QED
    BY <1>w, <2>2, <2>3
<1>c. ASSUME NEW s, NEW kind, EnterFreeze(s, kind) PROVE EndTogether'
  <2>1. ASSUME NEW k \in Takeovers PROVE Together(tk'[k])
    <3>1. /\ tk'[k].age = tk[k].age
          /\ \/ tk'[k].chal = tk[k].chal /\ tk'[k].op = tk[k].op
             \/ tk[k].chal = "pending" /\ tk'[k].chal = "invalidated" /\ tk'[k].op = "invalidated"
          /\ tk'[k] = tk[k] \/ tk'[k].appr \notin {"pending", "approved"}
      BY <1>c, <1>g, FrozenRequests
    <3> QED
      BY <1>f, <1>g, <3>1 DEF Together
  <2> QED
    BY <1>p, <2>1
<1>1. ASSUME NEW t \in Threads, Admit(t)
      PROVE  EndTogether'
  BY <1>1, <1>u DEF Admit
<1>2. ASSUME NEW t \in Threads, CommitWork(t)
      PROVE  EndTogether'
  BY <1>2, <1>u DEF CommitWork
<1>3. ASSUME NEW t \in Threads, CommitClosure(t)
      PROVE  EndTogether'
  BY <1>3, <1>u DEF CommitClosure
<1>4. ASSUME NEW t \in Threads, StartUnderClaim(t)
      PROVE  EndTogether'
  BY <1>4, <1>u DEF StartUnderClaim
<1>5. ASSUME NEW t \in Threads, FinalizeStart(t)
      PROVE  EndTogether'
  BY <1>5, <1>u DEF FinalizeStart
<1>6. ASSUME NEW t \in Threads, SaveOperation(t)
      PROVE  EndTogether'
  <2>1. PICK k \in Takeovers : k = th[t].k
    BY <1>6, RequestInHand DEF SaveOperation, TakeoverSteps
  <2>2. tk[k].chal = "none"
    BY <1>6, <2>1 DEF SaveOperation, HandInv, RequestOrder
  <2>3. PICK p : p = IF tk[k].by \in NeedApproval THEN "pending" ELSE "offered"
    OBVIOUS
  <2>4. PICK a : a = [tk[k] EXCEPT !.op = p]
    OBVIOUS
  <2>5. Together(a)
    BY <1>f, <1>n, <2>2, <2>4 DEF Together, TakeoverType
  <2>6. tk' = [tk EXCEPT ![k].op = p]
    BY <1>6, <2>1, <2>3 DEF SaveOperation
  <2> QED
    BY <1>w, <2>4, <2>5, <2>6
<1>7. ASSUME NEW t \in Threads, InsertChallenge(t)
      PROVE  EndTogether'
  <2>1. PICK k \in Takeovers : k = th[t].k
    BY <1>7, RequestInHand DEF InsertChallenge, TakeoverSteps
  <2>2. tk[k].op \in {"pending", "offered"}
    BY <1>7, <2>1 DEF InsertChallenge, HandInv, RequestOrder
  <2>3. PICK i : i = 1
    OBVIOUS
  <2>4. PICK a : a = [tk[k] EXCEPT !.chal = "pending", !.issue = i]
    OBVIOUS
  <2>5. a.chal = "pending" /\ a.op = tk[k].op
    BY <1>n, <2>4 DEF TakeoverType
  <2>6. Together(a)
    BY <1>f, <2>2, <2>5 DEF Together
  <2>7. tk' = [tk EXCEPT ![k].chal = "pending", ![k].issue = i]
    BY <1>7, <2>1, <2>3 DEF InsertChallenge
  <2>8. tk' = [tk EXCEPT ![k] = a]
    BY <1>n, <2>4, <2>7
  <2> QED
    BY <1>w, <2>6, <2>8
<1>8. ASSUME NEW t \in Threads, CommitTransfer(t)
      PROVE  EndTogether'
  <2>1. PICK k \in Takeovers : k = th[t].k
    BY <1>8, Confirmed
  <2>2. /\ tk'[k].op = "approved" /\ tk'[k].chal = "confirmed" /\ tk'[k].appr # "pending"
        /\ \A j \in Takeovers : j # k => tk'[j] = tk[j]
    BY <1>8, <2>1, Confirmed, Zenon
  <2>3. Together(tk'[k])
    BY <1>f, <2>2 DEF Together
  <2> QED
    BY <1>g, <1>p, <2>2, <2>3
<1>9. ASSUME NEW t \in Threads, CommitReissue(t)
      PROVE  EndTogether'
  <2>1. PICK k \in Takeovers : k = th[t].k
    BY <1>9, RequestInHand DEF CommitReissue, TakeoverSteps
  <2>2. tk[k].chal = "pending"
    BY <1>9, <2>1 DEF CommitReissue, ReissueCAS
  <2>3. PICK g : g = 0
    OBVIOUS
  <2>4. PICK i, b : i = tk[k].issue + 1 /\ b = OwnershipBasis(tk[k].run)
    OBVIOUS
  <2>5. PICK a : a = [tk[k] EXCEPT !.appr = "approved", !.age = g, !.issue = i, !.basis = b]
    OBVIOUS
  <2>6. a.chal = "pending" /\ a.op = tk[k].op /\ a.appr = "approved"
    BY <1>n, <2>2, <2>5 DEF TakeoverType
  <2>7. Together(a)
    BY <1>f, <1>g, <2>2, <2>6 DEF Together
  <2>8. tk' = [tk EXCEPT ![k].appr = "approved", ![k].age = g, ![k].issue = i, ![k].basis = b]
    BY <1>9, <2>1, <2>3, <2>4 DEF CommitReissue
  <2>9. tk' = [tk EXCEPT ![k] = a]
    BY <1>n, <2>5, <2>8
  <2> QED
    BY <1>w, <2>7, <2>9
<1>10. ASSUME NEW t \in Threads, CommitEnding(t)
      PROVE  EndTogether'
  <2>1. PICK k \in Takeovers : k = th[t].k
    BY <1>10, RequestInHand DEF CommitEnding, TakeoverSteps
  <2>2. th[t].pc = "decide" /\ tk[k].chal = "pending"
    BY <1>10, <2>1 DEF CommitEnding, EndingCAS, OpenRequest
  <2>3. tk[k].appr = "pending" => th[t].appr = "pending" \/ th[t].plan = "expireboth"
                                  \/ (th[t].plan = "invalidate" /\ tk[k].age = 2)
    BY <2>1, <2>2 DEF DecisionInv, DecisionHolds
  <2>4. PICK st \in Outcomes, both \in BOOLEAN :
          /\ st = (IF th[t].plan = "invalidate" THEN "invalidated" ELSE "expired")
          /\ both = (th[t].appr = "pending" \/ th[t].plan = "expireboth")
    BY DEF Outcomes
  <2>5. tk' = EndTakeover(k, st, both)
    BY <1>10, <2>1, <2>4 DEF CommitEnding
  <2> QED
    BY <1>e, <2>2, <2>3, <2>4, <2>5
<1>11. ASSUME NEW t \in Threads, LoseFence(t)
      PROVE  EndTogether'
  BY <1>11, <1>u DEF LoseFence
<1>12. ASSUME NEW t \in Threads, ReconcileLoss(t)
      PROVE  EndTogether'
  <2>1. PICK k \in Takeovers : k = th[t].k
    BY <1>12, RequestInHand DEF ReconcileLoss, TakeoverSteps
  <2>2. PICK both \in BOOLEAN : both = (tk[k].appr = "pending")
    OBVIOUS
  <2>3. tk' = tk \/ (tk[k].chal = "pending" /\ tk' = EndTakeover(k, "invalidated", both))
    BY <1>12, <2>1, <2>2 DEF ReconcileLoss, OpenRequest
  <2> QED
    BY <1>e, <1>f, <1>u, <2>2, <2>3
<1>13. ASSUME NEW t \in Threads, ReconcileClears(t)
      PROVE  EndTogether'
  BY <1>13, <1>u DEF ReconcileClears
<1>14. ASSUME NEW t \in Threads, ReconcileContests(t)
      PROVE  EndTogether'
  BY <1>14, <1>c DEF ReconcileContests
<1>15. ASSUME NEW t \in Threads, Reset(t)
      PROVE  EndTogether'
  BY <1>15, <1>u DEF Reset
<1>16. ASSUME NEW t \in Threads, GiveUp(t)
      PROVE  EndTogether'
  BY <1>16, <1>u DEF GiveUp
<1>17. ASSUME NEW t \in Threads, NEW c \in {"start", "work", "closure"}, NEW x \in Sessions, NEW r \in Runs, Gate(t, c, x, r)
      PROVE  EndTogether'
  BY <1>17, <1>u DEF Gate
<1>18. ASSUME NEW t \in Threads, NEW k \in Takeovers, NEW x \in Sessions, NEW r \in Runs, RequestTakeover(t, k, x, r)
      PROVE  EndTogether'
  <2>1. PICK p, b : /\ p = (IF x \in NeedApproval THEN "pending" ELSE "none")
                    /\ b = [owner |-> rec[r].owner, epoch |-> rec[r].epoch, ver |-> bind[rec[r].owner].ver]
    OBVIOUS
  <2>2. PICK a : a = [NoTakeover EXCEPT !.by = x, !.run = r, !.appr = p, !.basis = b]
    OBVIOUS
  <2>3. a.chal = "none"
    BY <2>2 DEF NoTakeover
  <2>4. Together(a)
    BY <1>f, <2>3 DEF Together
  <2> QED
    BY <1>18, <1>w, <2>1, <2>2, <2>4 DEF RequestTakeover
<1>19. ASSUME NEW t \in Threads, NEW x \in Sessions, NEW r \in Runs, ReconcileAdmit(t, x, r)
      PROVE  EndTogether'
  BY <1>19, <1>u DEF ReconcileAdmit
<1>20. ASSUME NEW t \in Threads, NEW k \in Takeovers, ConfirmRead(t, k)
      PROVE  EndTogether'
  BY <1>20, <1>u DEF ConfirmRead
<1>21. ASSUME NEW t \in Threads, NEW r \in Runs, ResetQuiesce(t, r)
      PROVE  EndTogether'
  BY <1>21, <1>u DEF ResetQuiesce
<1>22. ASSUME NEW k \in Takeovers, TimePasses(k)
      PROVE  EndTogether'
  <2>1. PICK g : g = tk[k].age + 1
    OBVIOUS
  <2>2. PICK a : a = [tk[k] EXCEPT !.age = g]
    OBVIOUS
  <2>3. a.chal = "pending" /\ a.op = tk[k].op /\ tk[k].chal = "pending"
    BY <1>22, <1>n, <2>2 DEF TimePasses, TakeoverType
  <2>4. Together(a)
    BY <1>f, <1>g, <2>3 DEF Together
  <2> QED
    BY <1>22, <1>w, <2>1, <2>2, <2>4 DEF TimePasses
<1>23. ASSUME NEW k \in Takeovers, Deny(k)
      PROVE  EndTogether'
  BY <1>23, <1>e, <1>f DEF Deny
<1>24. ASSUME NEW x \in Sessions, Exit(x)
      PROVE  EndTogether'
  BY <1>24, <1>u DEF Exit
<1>25. ASSUME NEW x \in Sessions, NEW old \in Runs, NEW new \in Runs, Recover(x, old, new)
      PROVE  EndTogether'
  BY <1>25, <1>u DEF Recover
<1>26. ASSUME NEW r \in Runs, AdminClear(r)
      PROVE  EndTogether'
  BY <1>26, <1>u DEF AdminClear
<1>27. ASSUME NEW r \in Runs, Split(r)
      PROVE  EndTogether'
  BY <1>27, <1>u DEF Split
<1>28. ASSUME NEW s \in Stories, ConflictFreeze(s)
      PROVE  EndTogether'
  BY <1>28, <1>c DEF ConflictFreeze
<1>29. ASSUME NEW s \in Stories, ReleaseConflictFreeze(s)
      PROVE  EndTogether'
  BY <1>29, <1>u DEF ReleaseConflictFreeze
<1>30. ASSUME NEW s \in Stories, SplitFreeze(s)
      PROVE  EndTogether'
  BY <1>30, <1>c DEF SplitFreeze
<1>31. ASSUME NEW s \in Stories, SplitThaw(s)
      PROVE  EndTogether'
  BY <1>31, <1>u DEF SplitThaw
<1>32. CASE UNCHANGED vars
  BY <1>32, <1>u DEF vars
<1> QED
  BY <1>1, <1>2, <1>3, <1>4, <1>5, <1>6, <1>7, <1>8, <1>9, <1>10, <1>11,
     <1>12, <1>13, <1>14, <1>15, <1>16, <1>17, <1>18, <1>19, <1>20, <1>21,
     <1>22, <1>23, <1>24, <1>25, <1>26, <1>27, <1>28, <1>29, <1>30, <1>31,
     <1>32
     DEF Next, ThreadStep, Call

------------------------------------------------------------------------------
(* The invariant, and what it is for.                                        *)

OwnershipInv ==
  Shapes /\ OwnerInv /\ HandInv /\ EpochInv /\ DecisionInv /\ TransferInv /\ EndTogether

LEMMA OwnershipInit == Init => OwnershipInv
<1>1. SUFFICES ASSUME Init PROVE OwnershipInv
  OBVIOUS
<1>2. /\ NoRecord \in Records /\ RecordShape(NoRecord) /\ NoRecord.status = "none"
      /\ NoBinding \in Bindings /\ NoBinding.status = "none"
      /\ NoTakeover \in TakeoverType /\ NoTakeover.chal = "none" /\ NoTakeover.appr = "none"
  <2>1. NoRecord \in Records /\ RecordShape(NoRecord) /\ NoRecord.status = "none"
    BY DEF NoRecord, Records, RecordShape
  <2>2. NoBinding \in Bindings /\ NoBinding.status = "none"
    BY OwnershipAssumption DEF NoBinding, Bindings
  <2>3. NoTakeover \in TakeoverType /\ NoTakeover.chal = "none" /\ NoTakeover.appr = "none"
    BY OwnershipAssumption DEF NoTakeover, NoBasis, TakeoverType
  <2> QED
    BY <2>1, <2>2, <2>3
<1>3. Tables
  BY <1>1, <1>2 DEF Init, Tables
<1>4. Requests
  BY <1>1, <1>2 DEF Init, Requests, RequestShape
<1>5. \A t \in Threads : th[t] = Idle /\ th[t].pc = "idle"
  BY <1>1, IdleShape DEF Init
<1>6. ThreadTypes /\ ClaimTypes
  BY <1>1, IdleShape DEF Init, ThreadTypes, ClaimTypes
<1>7. OwnerInv
  BY <1>1, <1>2 DEF Init, OwnerInv, OneActive, BindingOwns
<1>8. HandInv /\ EpochInv /\ DecisionInv
  BY <1>5 DEF HandInv, ClaimHeld, RequestOrder, EpochInv, EpochKept, DecisionInv, DecisionHolds, TakeoverSteps
<1>9. TransferInv
  BY <1>1, <1>2 DEF Init, TransferInv
<1>10. EndTogether
  BY <1>1, <1>2 DEF Init, EndTogether, Outcomes
<1> QED
  BY <1>3, <1>4, <1>6, <1>7, <1>8, <1>9, <1>10 DEF OwnershipInv, Shapes

LEMMA OwnershipStep == OwnershipInv /\ [Next]_vars => OwnershipInv'
<1>1. SUFFICES ASSUME OwnershipInv, [Next]_vars PROVE OwnershipInv'
  OBVIOUS
<1>2. Shapes /\ OwnerInv /\ HandInv /\ EpochInv /\ DecisionInv /\ TransferInv /\ EndTogether
  BY <1>1 DEF OwnershipInv
<1>3. Shapes'
  BY <1>1, <1>2, TablesStep, RequestsStep, ThreadsStep DEF Shapes
<1>4. OwnerInv' /\ HandInv' /\ EpochInv'
  BY <1>1, <1>2, OwnerStep, HandStep, EpochStep
<1>5. DecisionInv' /\ TransferInv' /\ EndTogether'
  BY <1>1, <1>2, DecisionStep, TransferStep, EndStep
<1> QED
  BY <1>3, <1>4, <1>5 DEF OwnershipInv

(* The inductive invariant of the ownership tables and the threads that      *)
(* write them.                                                               *)
THEOREM OwnershipInvariant == Spec => []OwnershipInv
<1>1. Init => OwnershipInv
  BY OwnershipInit
<1>2. OwnershipInv /\ [Next]_vars => OwnershipInv'
  BY OwnershipStep
<1> QED
  BY <1>1, <1>2, PTL DEF Spec

(* Type correctness: ownership records, bindings, takeover requests, freezes  *)
(* and threads keep their types, and a story claim is held by a thread that  *)
(* is under way.                                                             *)
THEOREM TypeCorrect == Spec => []TypeOK
<1>1. Shapes => TypeOK
  <2>1. SUFFICES ASSUME Shapes PROVE TypeOK
    OBVIOUS
  <2>2. \A s \in Stories : claim[s] # None => th[claim[s]] # Idle
    BY <2>1, IdleShape DEF Shapes, ClaimTypes
  <2> QED
    BY <2>1, <2>2 DEF TypeOK, Shapes, Tables, Records, Bindings, Requests, ThreadTypes, ClaimTypes
<1>2. OwnershipInv => TypeOK
  BY <1>1 DEF OwnershipInv
<1> QED
  BY <1>2, OwnershipInvariant, PTL

(* One owner: whatever interleaving of start, takeover, recovery, exit, reset *)
(* and split, a story has at most one active run, and an active binding      *)
(* belongs to the owner of its run.                                          *)
THEOREM OneOwnerOnly == Spec => []OneOwner
<1>1. OneActive => \A s \in Stories : Cardinality(ActiveRuns(s)) <= 1
  <2>1. SUFFICES ASSUME OneActive, NEW s \in Stories PROVE Cardinality(ActiveRuns(s)) <= 1
    OBVIOUS
  <2>2. CASE ActiveRuns(s) = {}
    BY <2>2, FS_EmptySet
  <2>3. CASE ActiveRuns(s) # {}
    <3>1. PICK r : r \in ActiveRuns(s)
      BY <2>3
    <3>2. ActiveRuns(s) = {r}
      BY <2>1, <3>1 DEF OneActive, ActiveRuns
    <3>3. Cardinality({r}) = 1
      BY FS_Singleton
    <3> QED
      BY <3>2, <3>3
  <2> QED
    BY <2>2, <2>3
<1>2. OwnershipInv => OneOwner
  BY <1>1 DEF OwnershipInv, OwnerInv, BindingOwns, OneOwner
<1> QED
  BY <1>2, OwnershipInvariant, PTL

(* The epoch is a fencing token: a thread that was admitted, and whose epoch  *)
(* is still the run's, works for the session that still owns the run.        *)
THEOREM EpochIsAFence == Spec => []EpochFences
<1>1. OwnershipInv => EpochFences
  BY DEF OwnershipInv, EpochInv, EpochKept, EpochFences
<1> QED
  BY <1>1, OwnershipInvariant, PTL

(* Challenge, request operation and approval end together, through confirm,   *)
(* reissue, expiry, denial, a lost transaction and the entry of a freeze.    *)
THEOREM RequestsEndTogether == Spec => []EndTogether
<1>1. OwnershipInv => EndTogether
  BY DEF OwnershipInv
<1> QED
  BY <1>1, OwnershipInvariant, PTL

(* A run that is over stays as it is, and the epoch of an active run grows by *)
(* one with each change of owner and never otherwise.                        *)
THEOREM OneEpochPerOwner == Spec => OwnershipHistory
<1>1. ASSUME OwnershipInv, [Next]_vars, NEW r \in Runs
      PROVE  /\ rec[r].status \notin {"none", "active"} => rec'[r] = rec[r]
             /\ rec[r].status = "active" =>
                  IF rec'[r].owner = rec[r].owner THEN rec'[r].epoch = rec[r].epoch
                  ELSE rec'[r].epoch = rec[r].epoch + 1
  <2>1. RecordGoes(r)
    BY <1>1, RecordsGoOn DEF OwnershipInv
  <2>2. ASSUME rec[r].status = "active", rec'[r].owner # rec[r].owner
        PROVE  rec'[r].epoch = rec[r].epoch + 1
    <3>1. PICK t \in Threads : CommitTransfer(t) /\ th[t].run = r
      BY <2>1, <2>2 DEF RecordGoes
    <3>2. rec'[th[t].run].epoch = rec[th[t].run].epoch + 1
      BY <1>1, <3>1, Transferred, Zenon DEF OwnershipInv
    <3> QED
      BY <3>1, <3>2
  <2> QED
    BY <2>1, <2>2 DEF RecordGoes
<1>2. OwnershipInv /\ [Next]_vars =>
        [\A r \in Runs :
           /\ rec[r].status \notin {"none", "active"} => rec'[r] = rec[r]
           /\ rec[r].status = "active" =>
                IF rec'[r].owner = rec[r].owner THEN rec'[r].epoch = rec[r].epoch
                ELSE rec'[r].epoch = rec[r].epoch + 1]_vars
  BY <1>1
<1> QED
  BY <1>2, OwnershipInvariant, PTL DEF Spec, OwnershipHistory

(* Ownership of an active run moves only to the session of a challenge that   *)
(* was pending on the present owner and epoch, with a human's approval where *)
(* the principal needs one, and never while the story is frozen, although    *)
(* the transaction itself asks for none of the freezes.                      *)
THEOREM TransfersAreAgreed == Spec => TransferIsAgreed
<1>1. ASSUME OwnershipInv, [Next]_vars, NEW r \in Runs,
             rec[r].status = "active", rec'[r].owner # rec[r].owner
      PROVE  /\ freeze[StoryOf[r]] = {}
             /\ \E k \in Takeovers :
                  /\ tk[k].chal = "pending" /\ tk'[k].chal = "confirmed"
                  /\ tk[k].by = rec'[r].owner
                  /\ tk[k].basis.owner = rec[r].owner /\ tk[k].basis.epoch = rec[r].epoch
                  /\ tk[k].by \in NeedApproval => tk'[k].appr = "approved"
  <2>1. Shapes /\ HandInv /\ DecisionInv
    BY <1>1 DEF OwnershipInv
  <2>2. RecordGoes(r)
    BY <1>1, <2>1, RecordsGoOn
  <2>3. PICK t \in Threads : CommitTransfer(t) /\ th[t].run = r
    BY <1>1, <2>2 DEF RecordGoes
  <2>4. PICK k \in Takeovers : k = th[t].k
    BY <2>1, <2>3, Confirmed
  <2>5. /\ tk[k].chal = "pending" /\ tk'[k].chal = "confirmed" /\ freeze[StoryOf[r]] = {}
        /\ tk[k].by \in NeedApproval => tk'[k].appr = "approved"
    BY <2>1, <2>3, <2>4, Confirmed, Zenon
  <2>6. tk[k].by = rec'[r].owner /\ tk[k].basis.owner = rec[r].owner /\ tk[k].basis.epoch = rec[r].epoch
    BY <2>1, <2>3, <2>4, Transferred, Zenon
  <2> QED
    BY <2>5, <2>6
<1>2. OwnershipInv /\ [Next]_vars =>
        [\A r \in Runs :
           (rec[r].status = "active" /\ rec'[r].owner # rec[r].owner) =>
             /\ freeze[StoryOf[r]] = {}
             /\ \E k \in Takeovers :
                  /\ tk[k].chal = "pending" /\ tk'[k].chal = "confirmed"
                  /\ tk[k].by = rec'[r].owner
                  /\ tk[k].basis.owner = rec[r].owner /\ tk[k].basis.epoch = rec[r].epoch
                  /\ tk[k].by \in NeedApproval => tk'[k].appr = "approved"]_vars
  BY <1>1
<1> QED
  BY <1>2, OwnershipInvariant, PTL DEF Spec, TransferIsAgreed

LEMMA PingPongStep ==
  ASSUME OwnershipInv, NoPingPong, [Next]_vars
  PROVE  NoPingPong'
<1>1. SUFFICES ASSUME NEW k \in Takeovers, tk'[k].chal = "confirmed",
                      tk'[k].basis.epoch > INITIAL_OWNERSHIP_EPOCH
               PROVE  tk'[k].by \in Privileged
  BY DEF NoPingPong
<1>2. Shapes /\ HandInv /\ DecisionInv /\ TransferInv
  BY DEF OwnershipInv
<1>3. tk[k] # NoTakeover /\ tk'[k].by = tk[k].by /\ tk'[k].basis.epoch = tk[k].basis.epoch
      /\ (tk[k].chal # "confirmed" => \E t \in Threads : CommitTransfer(t) /\ th[t].k = k)
  BY <1>1, <1>2, RequestsStep DEF Goes
<1>4. CASE tk[k].chal = "confirmed"
  BY <1>1, <1>3, <1>4 DEF NoPingPong
<1>5. CASE tk[k].chal # "confirmed"
  <2>1. PICK t \in Threads : CommitTransfer(t) /\ th[t].k = k
    BY <1>3, <1>5
  <2>2. th[t].pc = "decide" /\ th[t].plan = "confirm"
    BY <2>1 DEF CommitTransfer
  <2>3. <<th[t].run, tk[k].basis.epoch>> \notin transfers \/ tk[k].by \in Privileged
    BY <1>2, <2>1, <2>2 DEF DecisionInv, DecisionHolds
  <2>4. th[t].run \in Runs /\ rec[th[t].run].status = "active" /\ tk[k].basis.epoch = rec[th[t].run].epoch
    BY <1>2, <2>1, Transferred, Zenon
  <2>5. <<th[t].run, rec[th[t].run].epoch>> \in transfers
    BY <1>1, <1>2, <1>3, <2>4 DEF TransferInv
  <2> QED
    BY <1>3, <2>3, <2>4, <2>5
<1> QED
  BY <1>4, <1>5

(* No ping-pong: a run that came to its owner by takeover is taken over again *)
(* only by a privileged principal, also when other takeovers were confirmed  *)
(* between the decision and its transaction.                                 *)
THEOREM NoRepeatedTakeover == Spec => []NoPingPong
<1>1. Init => NoPingPong
  BY DEF Init, NoPingPong, NoTakeover
<1>2. OwnershipInv /\ NoPingPong /\ [Next]_vars => NoPingPong'
  BY PingPongStep
<1> QED
  BY <1>1, <1>2, OwnershipInvariant, PTL DEF Spec

------------------------------------------------------------------------------
(* What a challenge shows, where no run is recovered.                        *)

(* A run that is over was closed by a committed operation. *)
EndsAreClosed == \A r \in Runs : rec[r].status \in {"none", "active"} \/ r \in closed

(* The owner of an active run has its binding until the run is closed. *)
OwnerIsBound == \A r \in Runs : rec[r].status = "active" /\ r \notin closed => BoundTo(rec[r].owner, r)

(* The epoch of the basis passes, or the version of the owner's binding grows. *)
BasisBehind(a) ==
  /\ rec[a.run].status # "none"
  /\ a.run \notin closed =>
       /\ a.basis.epoch <= rec[a.run].epoch
       /\ a.basis.epoch = rec[a.run].epoch =>
            a.basis.owner = rec[a.run].owner /\ a.basis.ver <= bind[a.basis.owner].ver

(* ... and it has grown once something was committed on the run. *)
BasisPassed(a) ==
  a.run \notin closed /\ a.basis.epoch = rec[a.run].epoch => a.basis.ver < bind[a.basis.owner].ver

BasisInv == \A k \in Takeovers : tk[k] # NoTakeover => BasisBehind(tk[k])

TouchedInv == \A k \in touched : tk[k].chal # "none" /\ (tk[k].chal = "pending" => BasisPassed(tk[k]))

(* A confirm was decided on the request's own run, and before it was closed. *)
ConfirmInv == \A t \in Threads : th[t].pc = "decide" /\ th[t].plan = "confirm" =>
  /\ th[t].run = tk[th[t].k].run
  /\ th[t].run \notin closed \/ rec[th[t].run].status # "active"

ShownInv == EndsAreClosed /\ OwnerIsBound /\ BasisInv /\ TouchedInv /\ ConfirmInv

(* What a step does to a run that is not closed: its owner keeps the binding, *)
(* and has a newer one when pending challenges of the run are touched.       *)
RunMoves(q) ==
  /\ q \notin closed' =>
       /\ q \notin closed
       /\ rec'[q].status \in {"none", "active"}
       /\ rec'[q].status = "active" =>
            bind'[rec'[q].owner].status = "active" /\ bind'[rec'[q].owner].run = q
       /\ rec[q].status = "active" /\ rec'[q].epoch = rec[q].epoch =>
            /\ bind'[rec[q].owner].ver >= bind[rec[q].owner].ver
            /\ \/ bind'[rec[q].owner].ver > bind[rec[q].owner].ver
               \/ \A k \in touched' \ touched : tk[k].run # q
  /\ q \in closed' \ closed => rec'[q].status # "active" \/ Free(StoryOf[q])

LEMMA RunsMove ==
  ASSUME Shapes, HandInv, OwnerInv, EndsAreClosed, OwnerIsBound, "recover" \notin Calls, [Next]_vars
  PROVE  /\ \A q \in Runs : RunMoves(q)
         /\ \A j \in touched' : j \in touched \/ tk[j].chal = "pending"
<1> USE DEF tables
<1>g. Tables
  BY DEF Shapes
<1>v. /\ \A x \in Sessions : bind[x].ver \in Nat
      /\ \A r \in Runs : rec[r].epoch \in Nat
      /\ \A v \in Nat : NextBindingVersion(v) > v
  BY <1>g, OwnershipAssumption DEF Tables, Bindings, Records, NextBindingVersion, MIN_BINDING_VERSION
<1>b. \A r \in Runs : r \notin closed =>
        /\ rec[r].status \in {"none", "active"}
        /\ rec[r].status = "active" =>
             rec[r].owner \in Sessions /\ bind[rec[r].owner].status = "active" /\ bind[rec[r].owner].run = r
  BY <1>g DEF EndsAreClosed, OwnerIsBound, BoundTo, Tables, RecordShape
<1>u. ASSUME UNCHANGED <<rec, bind, closed>>, touched' \subseteq touched
      PROVE  /\ \A q \in Runs : RunMoves(q)
             /\ \A j \in touched' : j \in touched \/ tk[j].chal = "pending"
  BY <1>u, <1>b, <1>v DEF RunMoves
<1>t. ASSUME NEW t \in Threads PROVE ThreadShape(th[t])
  BY DEF Shapes, ThreadTypes
<1>o. ASSUME NEW x \in Sessions, NEW r \in Runs, NEW st \in {"ended", "reset", "split"}, Disown(x, r, st)
      PROVE  /\ \A q \in Runs : RunMoves(q)
             /\ \A j \in touched' : j \in touched \/ tk[j].chal = "pending"
  <2>1. /\ bind[x].run = r /\ rec'[r].status # "active"
        /\ \A y \in Sessions : y # x => bind'[y] = bind[y]
        /\ \A p \in Runs : p # r => rec'[p] = rec[p]
    BY <1>g, <1>o, Disowned
  <2>2. closed' = closed \cup {r} /\ touched' = Touched(r)
    BY <1>o DEF Disown
  <2>3. RunMoves(r)
    BY <2>1, <2>2 DEF RunMoves
  <2>4. ASSUME NEW q \in Runs, q # r PROVE RunMoves(q)
    BY <1>b, <1>v, <2>1, <2>2, <2>4 DEF RunMoves, Touched
  <2> QED
    BY <2>2, <2>3, <2>4 DEF Touched
(* The binding of x is written anew for run r, which x owns then. *)
<1>r. ASSUME NEW x \in Sessions, NEW r \in Runs, Rebind(x, r), closed' = closed, touched' = Touched(r),
             rec'[r].status = "active", rec'[r].owner = x,
             rec[r].status = "none" \/ rec[r].owner = x,
             \A p \in Runs : p # r => rec'[p] = rec[p]
      PROVE  /\ \A q \in Runs : RunMoves(q)
             /\ \A j \in touched' : j \in touched \/ tk[j].chal = "pending"
  <2>1. /\ bind'[x].status = "active" /\ bind'[x].run = r
        /\ \A y \in Sessions : y # x => bind'[y] = bind[y]
    BY <1>g, <1>r, Rebound
  <2>2. bind'[x].ver = NextBindingVersion(bind[x].ver) /\ CanBind(x, r)
    BY <1>g, <1>r DEF Rebind, BindingFor, Tables
  <2>3. bind'[x].ver > bind[x].ver /\ bind'[x].ver >= bind[x].ver
    <3>1. NextBindingVersion(bind[x].ver) \in Nat
      BY <1>v DEF NextBindingVersion, MIN_BINDING_VERSION
    <3> QED
      BY <1>v, <2>2, <3>1
  <2>4. RunMoves(r)
    BY <1>r, <2>1, <2>3 DEF RunMoves
  <2>5. ASSUME NEW q \in Runs, q # r PROVE RunMoves(q)
    BY <1>b, <1>r, <1>v, <2>1, <2>2, <2>5 DEF RunMoves, Touched, CanBind
  <2> QED
    BY <1>r, <2>4, <2>5 DEF Touched
<1>1. ASSUME NEW t \in Threads, Admit(t)
      PROVE  /\ \A q \in Runs : RunMoves(q)
             /\ \A j \in touched' : j \in touched \/ tk[j].chal = "pending"
  BY <1>1, <1>u DEF Admit
<1>2. ASSUME NEW t \in Threads, CommitWork(t)
      PROVE  /\ \A q \in Runs : RunMoves(q)
             /\ \A j \in touched' : j \in touched \/ tk[j].chal = "pending"
  <2>1. th[t].ses \in Sessions /\ th[t].run \in Runs
    BY <1>2, <1>t DEF CommitWork, ThreadShape
  <2>2. /\ rec' = rec /\ closed' = closed /\ touched' = Touched(th[t].run) /\ Rebind(th[t].ses, th[t].run)
        /\ rec[th[t].run].status = "active" /\ rec[th[t].run].owner = th[t].ses
    BY <1>2 DEF CommitWork, OwnershipFence, Owns
  <2> QED
    BY <1>r, <2>1, <2>2
<1>3. ASSUME NEW t \in Threads, CommitClosure(t)
      PROVE  /\ \A q \in Runs : RunMoves(q)
             /\ \A j \in touched' : j \in touched \/ tk[j].chal = "pending"
  <2>1. PICK x \in Sessions, r \in Runs : x = th[t].ses /\ r = th[t].run
    BY <1>3, <1>t DEF CommitClosure, ThreadShape
  <2>2. /\ rec' = rec /\ closed' = closed \cup {r} /\ touched' = Touched(r) /\ Free(StoryOf[r])
        /\ bind[x].status = "none" \/ bind[x].run = r
    BY <1>3, <2>1 DEF CommitClosure
  <2>3. \A y \in Sessions : y # x => bind'[y] = bind[y]
    BY <1>3, <1>g, <2>1 DEF CommitClosure, Tables
  <2>4. RunMoves(r)
    BY <2>2 DEF RunMoves
  <2>5. ASSUME NEW q \in Runs, q # r PROVE RunMoves(q)
    BY <1>b, <1>v, <2>2, <2>3, <2>5 DEF RunMoves, Touched
  <2> QED
    BY <2>2, <2>4, <2>5 DEF Touched
<1>4. ASSUME NEW t \in Threads, StartUnderClaim(t)
      PROVE  /\ \A q \in Runs : RunMoves(q)
             /\ \A j \in touched' : j \in touched \/ tk[j].chal = "pending"
  BY <1>4, <1>u DEF StartUnderClaim
<1>5. ASSUME NEW t \in Threads, FinalizeStart(t)
      PROVE  /\ \A q \in Runs : RunMoves(q)
             /\ \A j \in touched' : j \in touched \/ tk[j].chal = "pending"
  <2>1. th[t].ses \in Sessions /\ th[t].run \in Runs
    BY <1>5, <1>t DEF FinalizeStart, ThreadShape
  <2>2. closed' = closed /\ touched' = Touched(th[t].run) /\ Rebind(th[t].ses, th[t].run)
    BY <1>5 DEF FinalizeStart
  <2>3. CASE th[t].plan = "mint"
    <3>1. InsertOwnershipRecord(th[t].run, th[t].ses)
      BY <1>5, <2>3 DEF FinalizeStart
    <3>2. /\ rec[th[t].run].status = "none"
          /\ rec'[th[t].run].status = "active" /\ rec'[th[t].run].owner = th[t].ses
          /\ \A p \in Runs : p # th[t].run => rec'[p] = rec[p]
      BY <1>g, <2>1, <3>1, Inserted DEF NoRecord
    <3> QED
      BY <1>r, <2>1, <2>2, <3>2
  <2>4. CASE th[t].plan # "mint"
    <3>1. rec' = rec /\ rec[th[t].run].status = "active" /\ rec[th[t].run].owner = th[t].ses
      BY <1>5, <2>4 DEF FinalizeStart, OwnershipFence, Owns
    <3> QED
      BY <1>r, <2>1, <2>2, <3>1
  <2> QED
    BY <2>3, <2>4
<1>6. ASSUME NEW t \in Threads, SaveOperation(t)
      PROVE  /\ \A q \in Runs : RunMoves(q)
             /\ \A j \in touched' : j \in touched \/ tk[j].chal = "pending"
  BY <1>6, <1>u DEF SaveOperation
<1>7. ASSUME NEW t \in Threads, InsertChallenge(t)
      PROVE  /\ \A q \in Runs : RunMoves(q)
             /\ \A j \in touched' : j \in touched \/ tk[j].chal = "pending"
  BY <1>7, <1>u DEF InsertChallenge
<1>8. ASSUME NEW t \in Threads, CommitTransfer(t)
      PROVE  /\ \A q \in Runs : RunMoves(q)
             /\ \A j \in touched' : j \in touched \/ tk[j].chal = "pending"
  <2>1. PICK r \in Runs, x \in Sessions : r = th[t].run /\ x = tk[th[t].k].by
    BY <1>8, Transferred
  <2>2. /\ rec[r].owner \in Sessions /\ bind[rec[r].owner].run = r
        /\ rec'[r].status = "active" /\ rec'[r].owner = x /\ rec'[r].epoch = rec[r].epoch + 1
        /\ \A p \in Runs : p # r => rec'[p] = rec[p]
        /\ bind'[x].status = "active" /\ bind'[x].run = r /\ CanBind(x, r)
        /\ \A y \in Sessions : y # x /\ y # rec[r].owner => bind'[y] = bind[y]
    BY <1>8, <2>1, Transferred, Zenon DEF BoundTo
  <2>3. closed' = closed /\ touched' \subseteq Touched(r)
    BY <1>8, <2>1 DEF CommitTransfer
  <2>4. RunMoves(r)
    BY <1>v, <2>2, <2>3 DEF RunMoves
  <2>5. ASSUME NEW q \in Runs, q # r PROVE RunMoves(q)
    BY <1>b, <1>v, <2>2, <2>3, <2>5 DEF RunMoves, Touched, CanBind
  <2> QED
    BY <2>3, <2>4, <2>5 DEF Touched
<1>9. ASSUME NEW t \in Threads, CommitReissue(t)
      PROVE  /\ \A q \in Runs : RunMoves(q)
             /\ \A j \in touched' : j \in touched \/ tk[j].chal = "pending"
  BY <1>9, <1>u DEF CommitReissue
<1>10. ASSUME NEW t \in Threads, CommitEnding(t)
      PROVE  /\ \A q \in Runs : RunMoves(q)
             /\ \A j \in touched' : j \in touched \/ tk[j].chal = "pending"
  BY <1>10, <1>u DEF CommitEnding
<1>11. ASSUME NEW t \in Threads, LoseFence(t)
      PROVE  /\ \A q \in Runs : RunMoves(q)
             /\ \A j \in touched' : j \in touched \/ tk[j].chal = "pending"
  BY <1>11, <1>u DEF LoseFence
<1>12. ASSUME NEW t \in Threads, ReconcileLoss(t)
      PROVE  /\ \A q \in Runs : RunMoves(q)
             /\ \A j \in touched' : j \in touched \/ tk[j].chal = "pending"
  BY <1>12, <1>u DEF ReconcileLoss
<1>13. ASSUME NEW t \in Threads, ReconcileClears(t)
      PROVE  /\ \A q \in Runs : RunMoves(q)
             /\ \A j \in touched' : j \in touched \/ tk[j].chal = "pending"
  BY <1>13, <1>u DEF ReconcileClears
<1>14. ASSUME NEW t \in Threads, ReconcileContests(t)
      PROVE  /\ \A q \in Runs : RunMoves(q)
             /\ \A j \in touched' : j \in touched \/ tk[j].chal = "pending"
  BY <1>14, <1>u DEF ReconcileContests
<1>15. ASSUME NEW t \in Threads, Reset(t)
      PROVE  /\ \A q \in Runs : RunMoves(q)
             /\ \A j \in touched' : j \in touched \/ tk[j].chal = "pending"
  <2>1. th[t].run \in Runs /\ rec[th[t].run].owner \in Sessions
    BY <1>15, <1>g, <1>t DEF Reset, ThreadShape, Tables, RecordShape
  <2> QED
    BY <1>15, <1>o, <2>1 DEF Reset
<1>16. ASSUME NEW t \in Threads, GiveUp(t)
      PROVE  /\ \A q \in Runs : RunMoves(q)
             /\ \A j \in touched' : j \in touched \/ tk[j].chal = "pending"
  BY <1>16, <1>u DEF GiveUp
<1>17. ASSUME NEW t \in Threads, NEW c \in {"start", "work", "closure"}, NEW x \in Sessions, NEW r \in Runs, Gate(t, c, x, r)
      PROVE  /\ \A q \in Runs : RunMoves(q)
             /\ \A j \in touched' : j \in touched \/ tk[j].chal = "pending"
  BY <1>17, <1>u DEF Gate
<1>18. ASSUME NEW t \in Threads, NEW k \in Takeovers, NEW x \in Sessions, NEW r \in Runs, RequestTakeover(t, k, x, r)
      PROVE  /\ \A q \in Runs : RunMoves(q)
             /\ \A j \in touched' : j \in touched \/ tk[j].chal = "pending"
  BY <1>18, <1>u DEF RequestTakeover
<1>19. ASSUME NEW t \in Threads, NEW x \in Sessions, NEW r \in Runs, ReconcileAdmit(t, x, r)
      PROVE  /\ \A q \in Runs : RunMoves(q)
             /\ \A j \in touched' : j \in touched \/ tk[j].chal = "pending"
  BY <1>19, <1>u DEF ReconcileAdmit
<1>20. ASSUME NEW t \in Threads, NEW k \in Takeovers, ConfirmRead(t, k)
      PROVE  /\ \A q \in Runs : RunMoves(q)
             /\ \A j \in touched' : j \in touched \/ tk[j].chal = "pending"
  BY <1>20, <1>u DEF ConfirmRead
<1>21. ASSUME NEW t \in Threads, NEW r \in Runs, ResetQuiesce(t, r)
      PROVE  /\ \A q \in Runs : RunMoves(q)
             /\ \A j \in touched' : j \in touched \/ tk[j].chal = "pending"
  BY <1>21, <1>u DEF ResetQuiesce
<1>22. ASSUME NEW k \in Takeovers, TimePasses(k)
      PROVE  /\ \A q \in Runs : RunMoves(q)
             /\ \A j \in touched' : j \in touched \/ tk[j].chal = "pending"
  BY <1>22, <1>u DEF TimePasses
<1>23. ASSUME NEW k \in Takeovers, Deny(k)
      PROVE  /\ \A q \in Runs : RunMoves(q)
             /\ \A j \in touched' : j \in touched \/ tk[j].chal = "pending"
  BY <1>23, <1>u DEF Deny
<1>24. ASSUME NEW x \in Sessions, Exit(x)
      PROVE  /\ \A q \in Runs : RunMoves(q)
             /\ \A j \in touched' : j \in touched \/ tk[j].chal = "pending"
  <2>1. bind[x].run \in Runs
    BY <1>24, <1>g DEF Exit, Tables
  <2> QED
    BY <1>24, <1>o, <2>1 DEF Exit
<1>25. ASSUME NEW x \in Sessions, NEW old \in Runs, NEW new \in Runs, Recover(x, old, new)
      PROVE  /\ \A q \in Runs : RunMoves(q)
             /\ \A j \in touched' : j \in touched \/ tk[j].chal = "pending"
  BY <1>25 DEF Recover
<1>26. ASSUME NEW r \in Runs, AdminClear(r)
      PROVE  /\ \A q \in Runs : RunMoves(q)
             /\ \A j \in touched' : j \in touched \/ tk[j].chal = "pending"
  BY <1>26, <1>u DEF AdminClear
<1>27. ASSUME NEW r \in Runs, Split(r)
      PROVE  /\ \A q \in Runs : RunMoves(q)
             /\ \A j \in touched' : j \in touched \/ tk[j].chal = "pending"
  <2>1. rec[r].owner \in Sessions
    BY <1>27, <1>g DEF Split, Tables, RecordShape
  <2> QED
    BY <1>27, <1>o, <2>1 DEF Split
<1>28. ASSUME NEW s \in Stories, ConflictFreeze(s)
      PROVE  /\ \A q \in Runs : RunMoves(q)
             /\ \A j \in touched' : j \in touched \/ tk[j].chal = "pending"
  BY <1>28, <1>u DEF ConflictFreeze
<1>29. ASSUME NEW s \in Stories, ReleaseConflictFreeze(s)
      PROVE  /\ \A q \in Runs : RunMoves(q)
             /\ \A j \in touched' : j \in touched \/ tk[j].chal = "pending"
  BY <1>29, <1>u DEF ReleaseConflictFreeze
<1>30. ASSUME NEW s \in Stories, SplitFreeze(s)
      PROVE  /\ \A q \in Runs : RunMoves(q)
             /\ \A j \in touched' : j \in touched \/ tk[j].chal = "pending"
  BY <1>30, <1>u DEF SplitFreeze
<1>31. ASSUME NEW s \in Stories, SplitThaw(s)
      PROVE  /\ \A q \in Runs : RunMoves(q)
             /\ \A j \in touched' : j \in touched \/ tk[j].chal = "pending"
  BY <1>31, <1>u DEF SplitThaw
<1>32. CASE UNCHANGED vars
  BY <1>32, <1>u DEF vars
<1> QED
  BY <1>1, <1>2, <1>3, <1>4, <1>5, <1>6, <1>7, <1>8, <1>9, <1>10, <1>11,
     <1>12, <1>13, <1>14, <1>15, <1>16, <1>17, <1>18, <1>19, <1>20, <1>21,
     <1>22, <1>23, <1>24, <1>25, <1>26, <1>27, <1>28, <1>29, <1>30, <1>31,
     <1>32
     DEF Next, ThreadStep, Call

(* The basis of a challenge: as it was shown, or the current one of its run.  *)
BasisMoves(k) ==
  IF tk[k] = NoTakeover
  THEN \/ tk'[k] = NoTakeover
       \/ /\ rec' = rec /\ bind' = bind /\ closed' = closed /\ tk'[k].chal = "none"
          /\ tk'[k].run \in Runs /\ rec[tk'[k].run].status = "active"
          /\ tk'[k].basis = [owner |-> rec[tk'[k].run].owner, epoch |-> rec[tk'[k].run].epoch,
                             ver |-> bind[rec[tk'[k].run].owner].ver]
  ELSE \/ tk'[k].basis = tk[k].basis
       \/ /\ rec' = rec /\ bind' = bind /\ closed' = closed /\ k \notin touched'
          /\ tk'[k].basis.ver = OwnershipBasis(tk[k].run).ver
          /\ OwnershipBasis(tk[k].run).owner \in Sessions

LEMMA BasesMove ==
  ASSUME Shapes, HandInv, [Next]_vars
  PROVE  \A j \in Takeovers : BasisMoves(j)
<1> USE DEF tables
<1>g. Requests /\ Tables
  BY DEF Shapes
<1>n. tk \in [Takeovers -> TakeoverType] /\ NoTakeover.chal = "none"
  BY <1>g DEF Requests, NoTakeover
<1>u. ASSUME UNCHANGED tk PROVE \A j \in Takeovers : BasisMoves(j)
  BY <1>u DEF BasisMoves
<1>w. ASSUME NEW k \in Takeovers, tk[k] # NoTakeover, NEW a, a.basis = tk[k].basis,
             tk' = [tk EXCEPT ![k] = a]
      PROVE  \A j \in Takeovers : BasisMoves(j)
  BY <1>n, <1>w DEF BasisMoves
<1>e. ASSUME NEW k \in Takeovers, tk[k].chal = "pending", NEW st \in Outcomes, NEW both \in BOOLEAN,
             tk' = EndTakeover(k, st, both)
      PROVE  \A j \in Takeovers : BasisMoves(j)
  <2>1. tk[k] # NoTakeover
    BY <1>e, <1>n
  <2>2. tk' = [tk EXCEPT ![k] = tk'[k]] /\ tk'[k].basis = tk[k].basis
    BY <1>e, <1>g, <2>1, EndedRequest
  <2> QED
    BY <1>w, <2>1, <2>2
<1>c. ASSUME NEW s, NEW kind, EnterFreeze(s, kind) PROVE \A j \in Takeovers : BasisMoves(j)
  BY <1>c, <1>g, FrozenRequests DEF BasisMoves
<1>1. ASSUME NEW t \in Threads, Admit(t)
      PROVE  \A j \in Takeovers : BasisMoves(j)
  BY <1>1, <1>u DEF Admit
<1>2. ASSUME NEW t \in Threads, CommitWork(t)
      PROVE  \A j \in Takeovers : BasisMoves(j)
  BY <1>2, <1>u DEF CommitWork
<1>3. ASSUME NEW t \in Threads, CommitClosure(t)
      PROVE  \A j \in Takeovers : BasisMoves(j)
  BY <1>3, <1>u DEF CommitClosure
<1>4. ASSUME NEW t \in Threads, StartUnderClaim(t)
      PROVE  \A j \in Takeovers : BasisMoves(j)
  BY <1>4, <1>u DEF StartUnderClaim
<1>5. ASSUME NEW t \in Threads, FinalizeStart(t)
      PROVE  \A j \in Takeovers : BasisMoves(j)
  BY <1>5, <1>u DEF FinalizeStart
<1>6. ASSUME NEW t \in Threads, SaveOperation(t)
      PROVE  \A j \in Takeovers : BasisMoves(j)
  <2>1. PICK k \in Takeovers : k = th[t].k /\ tk[k] # NoTakeover
    BY <1>6, RequestInHand DEF SaveOperation, TakeoverSteps
  <2>2. PICK p : p = IF tk[k].by \in NeedApproval THEN "pending" ELSE "offered"
    OBVIOUS
  <2>3. PICK a : a = [tk[k] EXCEPT !.op = p]
    OBVIOUS
  <2>4. a.basis = tk[k].basis
    BY <1>n, <2>3 DEF TakeoverType
  <2>5. tk' = [tk EXCEPT ![k].op = p]
    BY <1>6, <2>1, <2>2 DEF SaveOperation
  <2> QED
    BY <1>w, <2>1, <2>3, <2>4, <2>5
<1>7. ASSUME NEW t \in Threads, InsertChallenge(t)
      PROVE  \A j \in Takeovers : BasisMoves(j)
  <2>1. PICK k \in Takeovers : k = th[t].k /\ tk[k] # NoTakeover
    BY <1>7, RequestInHand DEF InsertChallenge, TakeoverSteps
  <2>2. PICK i : i = 1
    OBVIOUS
  <2>3. PICK a : a = [tk[k] EXCEPT !.chal = "pending", !.issue = i]
    OBVIOUS
  <2>4. a.basis = tk[k].basis
    BY <1>n, <2>3 DEF TakeoverType
  <2>5. tk' = [tk EXCEPT ![k].chal = "pending", ![k].issue = i]
    BY <1>7, <2>1, <2>2 DEF InsertChallenge
  <2>6. tk' = [tk EXCEPT ![k] = a]
    BY <1>n, <2>3, <2>5
  <2> QED
    BY <1>w, <2>1, <2>4, <2>6
<1>8. ASSUME NEW t \in Threads, CommitTransfer(t)
      PROVE  \A j \in Takeovers : BasisMoves(j)
  <2>1. PICK k \in Takeovers : k = th[t].k /\ tk[k] # NoTakeover
    BY <1>8, RequestInHand DEF CommitTransfer, TakeoverSteps
  <2>2. PICK p : p = IF th[t].appr = "pending" THEN "approved" ELSE tk[k].appr
    OBVIOUS
  <2>3. PICK a : a = [tk[k] EXCEPT !.op = "approved", !.chal = "confirmed", !.appr = p]
    OBVIOUS
  <2>4. a.basis = tk[k].basis
    BY <1>n, <2>3 DEF TakeoverType
  <2>5. tk' = [tk EXCEPT ![k].op = "approved", ![k].chal = "confirmed", ![k].appr = p]
    BY <1>8, <2>1, <2>2 DEF CommitTransfer
  <2>6. tk' = [tk EXCEPT ![k] = a]
    BY <1>n, <2>3, <2>5
  <2> QED
    BY <1>w, <2>1, <2>4, <2>6
<1>9. ASSUME NEW t \in Threads, CommitReissue(t)
      PROVE  \A j \in Takeovers : BasisMoves(j)
  <2>1. PICK k \in Takeovers : /\ k = th[t].k /\ tk[k] # NoTakeover
                               /\ tk[k].basis.owner \in Sessions
    BY <1>9, RequestInHand DEF CommitReissue, TakeoverSteps
  <2>2. PICK g, i, b : g = 0 /\ i = tk[k].issue + 1 /\ b = OwnershipBasis(tk[k].run)
    OBVIOUS
  <2>3. PICK a : a = [tk[k] EXCEPT !.appr = "approved", !.age = g, !.issue = i, !.basis = b]
    OBVIOUS
  <2>4. a.basis = b
    BY <1>n, <2>3 DEF TakeoverType
  <2>5. tk' = [tk EXCEPT ![k].appr = "approved", ![k].age = g, ![k].issue = i, ![k].basis = b]
    BY <1>9, <2>1, <2>2 DEF CommitReissue
  <2>6. tk' = [tk EXCEPT ![k] = a]
    BY <1>n, <2>3, <2>5
  <2>7. PICK v : v = th[t].ver
    OBVIOUS
  <2>8. OwnershipBasis(tk[k].run) = [tk[k].basis EXCEPT !.ver = v]
    BY <1>9, <2>1, <2>7 DEF CommitReissue, ReissueCAS
  <2>9. OwnershipBasis(tk[k].run).owner = tk[k].basis.owner
    <3>1. tk[k].basis \in [owner : Sessions \cup {None}, epoch : Nat, ver : 0..MaxVersion]
      BY <1>n DEF TakeoverType
    <3> QED
      BY <2>8, <3>1
  <2>10. UNCHANGED <<rec, bind, closed>> /\ touched' = touched \ {k}
    BY <1>9, <2>1 DEF CommitReissue
  <2>11. tk'[k].basis = b /\ \A j \in Takeovers : j # k => tk'[j] = tk[j]
    BY <1>n, <2>4, <2>6
  <2> QED
    BY <2>1, <2>2, <2>9, <2>10, <2>11 DEF BasisMoves
<1>10. ASSUME NEW t \in Threads, CommitEnding(t)
      PROVE  \A j \in Takeovers : BasisMoves(j)
  <2>1. PICK k \in Takeovers : k = th[t].k
    BY <1>10, RequestInHand DEF CommitEnding, TakeoverSteps
  <2>2. tk[k].chal = "pending"
    BY <1>10, <2>1 DEF CommitEnding, EndingCAS, OpenRequest
  <2>3. PICK st \in Outcomes, both \in BOOLEAN :
          /\ st = (IF th[t].plan = "invalidate" THEN "invalidated" ELSE "expired")
          /\ both = (th[t].appr = "pending" \/ th[t].plan = "expireboth")
    BY DEF Outcomes
  <2>4. tk' = EndTakeover(k, st, both)
    BY <1>10, <2>1, <2>3 DEF CommitEnding
  <2> QED
    BY <1>e, <2>2, <2>3, <2>4
<1>11. ASSUME NEW t \in Threads, LoseFence(t)
      PROVE  \A j \in Takeovers : BasisMoves(j)
  BY <1>11, <1>u DEF LoseFence
<1>12. ASSUME NEW t \in Threads, ReconcileLoss(t)
      PROVE  \A j \in Takeovers : BasisMoves(j)
  <2>1. PICK k \in Takeovers : k = th[t].k
    BY <1>12, RequestInHand DEF ReconcileLoss, TakeoverSteps
  <2>2. PICK both \in BOOLEAN : both = (tk[k].appr = "pending")
    OBVIOUS
  <2>3. tk' = tk \/ (tk[k].chal = "pending" /\ tk' = EndTakeover(k, "invalidated", both))
    BY <1>12, <2>1, <2>2 DEF ReconcileLoss, OpenRequest
  <2>4. "invalidated" \in Outcomes
    BY DEF Outcomes
  <2> QED
    BY <1>e, <1>u, <2>2, <2>3, <2>4
<1>13. ASSUME NEW t \in Threads, ReconcileClears(t)
      PROVE  \A j \in Takeovers : BasisMoves(j)
  BY <1>13, <1>u DEF ReconcileClears
<1>14. ASSUME NEW t \in Threads, ReconcileContests(t)
      PROVE  \A j \in Takeovers : BasisMoves(j)
  BY <1>14, <1>c DEF ReconcileContests
<1>15. ASSUME NEW t \in Threads, Reset(t)
      PROVE  \A j \in Takeovers : BasisMoves(j)
  BY <1>15, <1>u DEF Reset
<1>16. ASSUME NEW t \in Threads, GiveUp(t)
      PROVE  \A j \in Takeovers : BasisMoves(j)
  BY <1>16, <1>u DEF GiveUp
<1>17. ASSUME NEW t \in Threads, NEW c \in {"start", "work", "closure"}, NEW x \in Sessions, NEW r \in Runs, Gate(t, c, x, r)
      PROVE  \A j \in Takeovers : BasisMoves(j)
  BY <1>17, <1>u DEF Gate
<1>18. ASSUME NEW t \in Threads, NEW k \in Takeovers, NEW x \in Sessions, NEW r \in Runs, RequestTakeover(t, k, x, r)
      PROVE  \A j \in Takeovers : BasisMoves(j)
  <2>1. PICK p, b : /\ p = (IF x \in NeedApproval THEN "pending" ELSE "none")
                    /\ b = [owner |-> rec[r].owner, epoch |-> rec[r].epoch, ver |-> bind[rec[r].owner].ver]
    OBVIOUS
  <2>2. PICK a : a = [NoTakeover EXCEPT !.by = x, !.run = r, !.appr = p, !.basis = b]
    OBVIOUS
  <2>3. a.chal = "none" /\ a.run = r /\ a.basis = b
    BY <2>2 DEF NoTakeover
  <2>4. /\ tk[k] = NoTakeover /\ tk' = [tk EXCEPT ![k] = a] /\ rec[r].status = "active"
        /\ UNCHANGED <<rec, bind, closed>>
    BY <1>18, <2>1, <2>2 DEF RequestTakeover, ActiveRuns
  <2>5. tk'[k] = a /\ \A j \in Takeovers : j # k => tk'[j] = tk[j]
    BY <1>n, <2>4
  <2> QED
    BY <2>1, <2>3, <2>4, <2>5 DEF BasisMoves
<1>19. ASSUME NEW t \in Threads, NEW x \in Sessions, NEW r \in Runs, ReconcileAdmit(t, x, r)
      PROVE  \A j \in Takeovers : BasisMoves(j)
  BY <1>19, <1>u DEF ReconcileAdmit
<1>20. ASSUME NEW t \in Threads, NEW k \in Takeovers, ConfirmRead(t, k)
      PROVE  \A j \in Takeovers : BasisMoves(j)
  BY <1>20, <1>u DEF ConfirmRead
<1>21. ASSUME NEW t \in Threads, NEW r \in Runs, ResetQuiesce(t, r)
      PROVE  \A j \in Takeovers : BasisMoves(j)
  BY <1>21, <1>u DEF ResetQuiesce
<1>22. ASSUME NEW k \in Takeovers, TimePasses(k)
      PROVE  \A j \in Takeovers : BasisMoves(j)
  <2>1. PICK g : g = tk[k].age + 1
    OBVIOUS
  <2>2. PICK a : a = [tk[k] EXCEPT !.age = g]
    OBVIOUS
  <2>3. a.basis = tk[k].basis /\ tk[k] # NoTakeover
    BY <1>22, <1>n, <2>2 DEF TimePasses, TakeoverType
  <2> QED
    BY <1>22, <1>w, <2>1, <2>2, <2>3 DEF TimePasses
<1>23. ASSUME NEW k \in Takeovers, Deny(k)
      PROVE  \A j \in Takeovers : BasisMoves(j)
  <2>1. "denied" \in Outcomes
    BY DEF Outcomes
  <2> QED
    BY <1>23, <1>e, <2>1 DEF Deny
<1>24. ASSUME NEW x \in Sessions, Exit(x)
      PROVE  \A j \in Takeovers : BasisMoves(j)
  BY <1>24, <1>u DEF Exit
<1>25. ASSUME NEW x \in Sessions, NEW old \in Runs, NEW new \in Runs, Recover(x, old, new)
      PROVE  \A j \in Takeovers : BasisMoves(j)
  BY <1>25, <1>u DEF Recover
<1>26. ASSUME NEW r \in Runs, AdminClear(r)
      PROVE  \A j \in Takeovers : BasisMoves(j)
  BY <1>26, <1>u DEF AdminClear
<1>27. ASSUME NEW r \in Runs, Split(r)
      PROVE  \A j \in Takeovers : BasisMoves(j)
  BY <1>27, <1>u DEF Split
<1>28. ASSUME NEW s \in Stories, ConflictFreeze(s)
      PROVE  \A j \in Takeovers : BasisMoves(j)
  BY <1>28, <1>c DEF ConflictFreeze
<1>29. ASSUME NEW s \in Stories, ReleaseConflictFreeze(s)
      PROVE  \A j \in Takeovers : BasisMoves(j)
  BY <1>29, <1>u DEF ReleaseConflictFreeze
<1>30. ASSUME NEW s \in Stories, SplitFreeze(s)
      PROVE  \A j \in Takeovers : BasisMoves(j)
  BY <1>30, <1>c DEF SplitFreeze
<1>31. ASSUME NEW s \in Stories, SplitThaw(s)
      PROVE  \A j \in Takeovers : BasisMoves(j)
  BY <1>31, <1>u DEF SplitThaw
<1>32. CASE UNCHANGED vars
  BY <1>32, <1>u DEF vars
<1> QED
  BY <1>1, <1>2, <1>3, <1>4, <1>5, <1>6, <1>7, <1>8, <1>9, <1>10, <1>11,
     <1>12, <1>13, <1>14, <1>15, <1>16, <1>17, <1>18, <1>19, <1>20, <1>21,
     <1>22, <1>23, <1>24, <1>25, <1>26, <1>27, <1>28, <1>29, <1>30, <1>31,
     <1>32
     DEF Next, ThreadStep, Call

(* The claim of the story keeps every writer of the run away that does not   *)
(* end it.                                                                   *)
LEMMA ConfirmStep ==
  ASSUME OwnershipInv, EndsAreClosed, OwnerIsBound, BasisInv, ConfirmInv, "recover" \notin Calls, [Next]_vars
  PROVE  ConfirmInv'
<1>1. Shapes /\ HandInv /\ OwnerInv
  BY DEF OwnershipInv
<1>2. SUFFICES ASSUME NEW u \in Threads, th'[u].pc = "decide", th'[u].plan = "confirm"
               PROVE  /\ th'[u].run = tk'[th'[u].k].run
                      /\ th'[u].run \notin closed' \/ rec'[th'[u].run].status # "active"
  BY DEF ConfirmInv
<1>g. th \in [Threads -> ThreadType] /\ ThreadShape(th[u])
  BY <1>1 DEF Shapes, ThreadTypes
<1>3. CASE Keeps(u)
  <2>1. th[u].pc = "decide" /\ th[u].plan = "confirm" /\ th[u].pc \in TakeoverSteps
    BY <1>2, <1>3 DEF Keeps, TakeoverSteps
  <2>2. PICK k \in Takeovers, q \in Runs :
          /\ k = th[u].k /\ q = th[u].run /\ q = tk[k].run
          /\ tk[k] # NoTakeover /\ claim[StoryOf[q]] = u
    BY <1>1, <2>1, RequestInHand DEF ConfirmInv
  <2>3. q \notin closed \/ rec[q].status # "active"
    BY <2>1, <2>2 DEF ConfirmInv
  <2>4. tk'[k].run = q
    BY <1>1, <2>2, RequestsStep DEF Goes
  <2>5. RunMoves(q) /\ RecordGoes(q) /\ rec[q].status # "none"
    BY <1>1, <2>2, RunsMove, RecordsGoOn DEF BasisInv, BasisBehind
  <2>6. u # None
    BY OwnershipAssumption
  <2>7. q \notin closed' \/ rec'[q].status # "active"
    BY <2>2, <2>3, <2>5, <2>6 DEF RunMoves, RecordGoes, Free
  <2> QED
    BY <1>3, <2>2, <2>4, <2>7 DEF Keeps
<1>4. CASE th'[u] = Idle
  BY <1>2, <1>4, IdleShape
<1>5. CASE GoesOn(u)
  <2>1. CASE Admit(u) \/ StartUnderClaim(u) \/ SaveOperation(u) \/ LoseFence(u)
    BY <1>2, <1>g, <2>1 DEF Admit, StartUnderClaim, SaveOperation, LoseFence, ThreadType
  <2>2. ASSUME NEW c \in {"start", "work", "closure"}, NEW x \in Sessions, NEW r \in Runs, Gate(u, c, x, r)
        PROVE  FALSE
    BY <1>2, <1>g, <2>2 DEF Gate, Idle
  <2>3. ASSUME NEW k \in Takeovers, NEW x \in Sessions, NEW r \in Runs, RequestTakeover(u, k, x, r)
        PROVE  FALSE
    BY <1>2, <1>g, <2>3 DEF RequestTakeover, Idle
  <2>4. ASSUME NEW x \in Sessions, NEW r \in Runs, ReconcileAdmit(u, x, r)
        PROVE  FALSE
    BY <1>2, <1>g, <2>4 DEF ReconcileAdmit, Idle
  <2>5. ASSUME NEW r \in Runs, ResetQuiesce(u, r)
        PROVE  FALSE
    BY <1>2, <1>g, <2>5 DEF ResetQuiesce, Idle
  <2>6. ASSUME NEW k \in Takeovers, ConfirmRead(u, k)
        PROVE  /\ th'[u].run = tk'[th'[u].k].run
               /\ th'[u].run \notin closed' \/ rec'[th'[u].run].status # "active"
    <3>1. tk[k].chal = "pending"
      BY <2>6 DEF ConfirmRead
    <3>2. tk[k] # NoTakeover /\ tk[k].run \in Runs
      BY <1>1, <3>1, ConfirmRunIsOfStory DEF Shapes
    <3>3. /\ th'[u].k = k /\ th'[u].plan = ConfirmPlan(k) /\ th'[u].run = ConfirmRun(k)
          /\ UNCHANGED <<rec, tk, closed>>
      BY <1>g, <2>6 DEF ConfirmRead, ConfirmRun, Idle, tables
    <3>4. tk[k].run \notin closed
      BY <1>2, <3>3 DEF ConfirmPlan, HasInvalidatingTransition
    <3>5. rec[tk[k].run].status = "active"
      BY <3>2, <3>4 DEF EndsAreClosed, BasisInv, BasisBehind
    <3>6. tk[k].run \in ActiveRuns(StoryOf[tk[k].run])
      BY <3>2, <3>5 DEF ActiveRuns
    <3>7. ConfirmRun(k) \in ActiveRuns(StoryOf[tk[k].run])
      BY <1>1, <3>1, <3>6, ConfirmRunIsOfStory DEF Shapes
    <3>8. ConfirmRun(k) = tk[k].run
      BY <1>1, <3>6, <3>7 DEF ActiveRuns, OwnerInv, OneActive
    <3> QED
      BY <3>3, <3>4, <3>8
  <2> QED
    BY <1>5, <2>1, <2>2, <2>3, <2>4, <2>5, <2>6 DEF GoesOn
<1> QED
  BY <1>1, <1>3, <1>4, <1>5, ThreadMoves

LEMMA ShownStep ==
  ASSUME OwnershipInv, ShownInv, "recover" \notin Calls, [Next]_vars
  PROVE  ShownInv'
<1>1. Shapes /\ HandInv /\ OwnerInv /\ Tables /\ Requests
  BY DEF OwnershipInv, Shapes
<1>2. EndsAreClosed /\ OwnerIsBound /\ BasisInv /\ TouchedInv /\ ConfirmInv
  BY DEF ShownInv
<1>3. \A q \in Runs : RunMoves(q) /\ RecordGoes(q)
  BY <1>1, <1>2, RunsMove, RecordsGoOn
<1>4. \A j \in touched' : j \in touched \/ tk[j].chal = "pending"
  BY <1>1, <1>2, RunsMove
<1>5. \A j \in Takeovers : BasisMoves(j) /\ Goes(j)
  BY <1>1, BasesMove, RequestsStep
<1>6. EndsAreClosed' /\ OwnerIsBound'
  BY <1>3 DEF EndsAreClosed, OwnerIsBound, RunMoves, BoundTo
<1>n. /\ \A x \in Sessions : bind[x].ver \in Nat /\ bind'[x].ver \in Nat
      /\ \A r \in Runs : rec[r].epoch \in Nat /\ rec'[r].epoch \in Nat
      /\ \A r \in Runs : rec[r].status # "none" => rec[r].owner \in Sessions
      /\ tk \in [Takeovers -> TakeoverType] /\ tk' \in [Takeovers -> TakeoverType]
      /\ \A j \in Takeovers : tk[j] # NoTakeover => tk[j].run \in Runs /\ tk[j].basis.owner \in Sessions
      /\ \A j \in Takeovers : tk[j].basis.ver \in Nat /\ tk[j].basis.epoch \in Nat
      /\ NoTakeover.chal = "none"
  <2>1. Tables' /\ Requests'
    BY <1>1, TablesStep, RequestsStep
  <2>2. /\ \A x \in Sessions : bind[x].ver \in Nat /\ bind'[x].ver \in Nat
        /\ \A r \in Runs : rec[r].epoch \in Nat /\ rec'[r].epoch \in Nat
        /\ \A r \in Runs : rec[r].status # "none" => rec[r].owner \in Sessions
    BY <1>1, <2>1, OwnershipAssumption DEF Tables, Bindings, Records, RecordShape
  <2>3. tk \in [Takeovers -> TakeoverType] /\ tk' \in [Takeovers -> TakeoverType]
    BY <1>1, <2>1 DEF Requests
  <2>4. \A j \in Takeovers : tk[j] # NoTakeover => tk[j].run \in Runs /\ tk[j].basis.owner \in Sessions
    BY <1>1 DEF Requests, RequestShape
  <2>5. \A j \in Takeovers : tk[j].basis.ver \in Nat /\ tk[j].basis.epoch \in Nat
    BY <2>3, OwnershipAssumption DEF TakeoverType
  <2> QED
    BY <2>2, <2>3, <2>4, <2>5 DEF NoTakeover
(* The run of a request that is neither closed nor in a later epoch. *)
<1>r. ASSUME NEW k \in Takeovers, tk[k] # NoTakeover, tk[k].run \notin closed',
             tk[k].basis.epoch = rec'[tk[k].run].epoch
      PROVE  /\ tk[k].run \notin closed /\ rec[tk[k].run].status = "active"
             /\ tk[k].basis.epoch = rec[tk[k].run].epoch
             /\ rec'[tk[k].run].owner = rec[tk[k].run].owner
             /\ tk[k].basis.owner = rec[tk[k].run].owner
             /\ tk[k].basis.ver <= bind[tk[k].basis.owner].ver
             /\ bind'[tk[k].basis.owner].ver >= bind[tk[k].basis.owner].ver
             /\ \/ bind'[tk[k].basis.owner].ver > bind[tk[k].basis.owner].ver
                \/ k \notin touched' \ touched
  <2>1. PICK q \in Runs : q = tk[k].run
    BY <1>n, <1>r
  <2>2. q \notin closed /\ rec[q].status = "active"
    BY <1>2, <1>3, <1>r, <2>1 DEF RunMoves, BasisInv, BasisBehind, EndsAreClosed
  <2>3. tk[k].basis.epoch = rec[q].epoch /\ rec'[q].epoch = rec[q].epoch
    <3>1. tk[k].basis.epoch <= rec[q].epoch
      BY <1>2, <1>r, <2>1, <2>2 DEF BasisInv, BasisBehind
    <3>2. rec[q].epoch <= rec'[q].epoch /\ rec'[q].epoch = tk[k].basis.epoch
      BY <1>3, <1>n, <1>r, <2>1 DEF RecordGoes
    <3>3. rec[q].epoch \in Nat /\ rec'[q].epoch \in Nat /\ tk[k].basis.epoch \in Nat
      BY <1>n
    <3> QED
      BY <3>1, <3>2, <3>3
  <2>4. rec'[q].owner = rec[q].owner
    <3>1. SUFFICES ASSUME rec'[q].owner # rec[q].owner PROVE FALSE
      OBVIOUS
    <3>2. PICK t \in Threads : CommitTransfer(t) /\ th[t].run = q
      BY <1>3, <2>2, <3>1 DEF RecordGoes
    <3>3. rec'[th[t].run].epoch = rec[th[t].run].epoch + 1
      BY <1>1, <3>2, Transferred, Zenon
    <3> QED
      BY <1>n, <2>3, <3>2, <3>3
  <2>5. tk[k].basis.owner = rec[q].owner /\ tk[k].basis.ver <= bind[tk[k].basis.owner].ver
    BY <1>2, <1>r, <2>1, <2>2, <2>3 DEF BasisInv, BasisBehind
  <2>6. /\ bind'[rec[q].owner].ver >= bind[rec[q].owner].ver
        /\ \/ bind'[rec[q].owner].ver > bind[rec[q].owner].ver
           \/ \A j \in touched' \ touched : tk[j].run # q
    BY <1>3, <1>r, <2>1, <2>2, <2>3 DEF RunMoves
  <2> QED
    BY <2>1, <2>2, <2>3, <2>4, <2>5, <2>6
<1>7. BasisInv'
  <2>1. SUFFICES ASSUME NEW k \in Takeovers, tk'[k] # NoTakeover PROVE BasisBehind(tk[k])'
    BY DEF BasisInv
  <2>2. CASE tk[k] = NoTakeover
    <3>1. PICK r \in Runs : /\ r = tk'[k].run /\ rec' = rec /\ bind' = bind /\ rec[r].status = "active"
                            /\ tk'[k].basis = [owner |-> rec[r].owner, epoch |-> rec[r].epoch,
                                               ver |-> bind[rec[r].owner].ver]
      BY <1>5, <2>1, <2>2 DEF BasisMoves
    <3>2. /\ tk'[k].basis.owner = rec[r].owner /\ tk'[k].basis.epoch = rec[r].epoch
          /\ tk'[k].basis.ver = bind[rec[r].owner].ver /\ rec[r].owner \in Sessions
      BY <1>n, <3>1
    <3> QED
      BY <1>n, <3>1, <3>2 DEF BasisBehind
  <2>3. CASE tk[k] # NoTakeover
    <3>1. PICK r \in Runs : r = tk[k].run /\ tk'[k].run = r
      BY <1>5, <1>n, <2>3 DEF Goes
    <3>2. tk'[k].basis.owner = tk[k].basis.owner /\ tk'[k].basis.epoch = tk[k].basis.epoch
      BY <1>5, <2>3 DEF Goes
    <3>3. BasisBehind(tk[k])
      BY <1>2, <2>3 DEF BasisInv
    <3>4. rec'[r].status # "none"
      BY <1>3, <3>1, <3>3 DEF RecordGoes, BasisBehind
    <3>5. r \notin closed' => tk'[k].basis.epoch <= rec'[r].epoch
      BY <1>3, <1>n, <3>1, <3>2, <3>3 DEF RunMoves, RecordGoes, BasisBehind
    <3>6. ASSUME r \notin closed', tk'[k].basis.epoch = rec'[r].epoch
          PROVE  tk'[k].basis.owner = rec'[r].owner /\ tk'[k].basis.ver <= bind'[tk'[k].basis.owner].ver
      <4>1. /\ tk[k].basis.owner = rec[r].owner /\ rec'[r].owner = rec[r].owner
            /\ tk[k].basis.ver <= bind[tk[k].basis.owner].ver
            /\ bind'[tk[k].basis.owner].ver >= bind[tk[k].basis.owner].ver
        BY <1>r, <2>3, <3>1, <3>2, <3>6
      <4>2. CASE tk'[k].basis = tk[k].basis
        BY <1>n, <2>3, <4>1, <4>2
      <4>3. CASE tk'[k].basis # tk[k].basis
        <5>1. /\ bind' = bind /\ tk'[k].basis.ver = OwnershipBasis(r).ver
              /\ OwnershipBasis(r).owner \in Sessions
          BY <1>5, <2>3, <3>1, <4>3 DEF BasisMoves
        <5>2. tk'[k].basis.ver = bind[rec[r].owner].ver
          BY <1>1, <5>1, BasisIsCurrent
        <5> QED
          BY <1>n, <2>3, <3>2, <4>1, <5>1, <5>2
      <4> QED
        BY <4>2, <4>3
    <3> QED
      BY <3>1, <3>4, <3>5, <3>6 DEF BasisBehind
  <2> QED
    BY <2>2, <2>3
<1>8. TouchedInv'
  <2>1. SUFFICES ASSUME NEW k \in touched'
                 PROVE  tk'[k].chal # "none" /\ (tk'[k].chal = "pending" => BasisPassed(tk[k])')
    BY DEF TouchedInv
  <2>2. k \in Takeovers
    BY <1>1, <2>1, TablesStep DEF Tables
  <2>3. tk[k].chal # "none" /\ tk[k] # NoTakeover
    BY <1>2, <1>4, <1>n, <2>1 DEF TouchedInv
  <2>4. /\ tk'[k].chal # "none" /\ (tk'[k].chal = "pending" => tk[k].chal = "pending")
        /\ tk'[k].run = tk[k].run
    BY <1>5, <2>2, <2>3 DEF Goes
  <2>5. tk'[k].basis = tk[k].basis
    BY <1>5, <2>1, <2>2, <2>3 DEF BasisMoves
  <2>6. ASSUME tk'[k].chal = "pending", tk[k].run \notin closed', tk[k].basis.epoch = rec'[tk[k].run].epoch
        PROVE  tk[k].basis.ver < bind'[tk[k].basis.owner].ver
    <3>1. /\ tk[k].run \notin closed /\ tk[k].basis.epoch = rec[tk[k].run].epoch
          /\ tk[k].basis.ver <= bind[tk[k].basis.owner].ver
          /\ bind'[tk[k].basis.owner].ver >= bind[tk[k].basis.owner].ver
          /\ bind'[tk[k].basis.owner].ver > bind[tk[k].basis.owner].ver \/ k \notin touched' \ touched
      BY <1>r, <2>2, <2>3, <2>6
    <3>2. k \in touched => tk[k].basis.ver < bind[tk[k].basis.owner].ver
      BY <1>2, <2>4, <2>6, <3>1 DEF TouchedInv, BasisPassed
    <3> QED
      BY <1>n, <2>1, <2>2, <2>3, <3>1, <3>2
  <2> QED
    BY <2>4, <2>5, <2>6 DEF BasisPassed
<1> QED
  BY <1>2, <1>6, <1>7, <1>8, ConfirmStep DEF ShownInv

(* What a human confirms is what the challenge showed: as long as no run is   *)
(* recovered, nothing was committed on the run, and its owner and epoch are   *)
(* the same, since the challenge was issued, however it was reissued.  With   *)
(* recovery it fails: owner, epoch and version of another run are the same.  *)
THEOREM ConfirmedIsShown == ASSUME "recover" \notin Calls
                            PROVE  Spec => ConfirmedAsShown
<1>1. Init => ShownInv
  <2>1. SUFFICES ASSUME Init PROVE ShownInv
    OBVIOUS
  <2>2. \A t \in Threads : th[t].pc = "idle"
    BY <2>1, IdleShape DEF Init
  <2> QED
    BY <2>1, <2>2 DEF Init, ShownInv, EndsAreClosed, OwnerIsBound, BasisInv, TouchedInv, ConfirmInv, NoRecord
<1>2. OwnershipInv /\ ShownInv /\ [Next]_vars => ShownInv'
  BY ShownStep
<1>3. ASSUME OwnershipInv, ShownInv, [Next]_vars, NEW k \in Takeovers,
             tk[k].chal = "pending", tk'[k].chal = "confirmed"
      PROVE  k \notin touched
  <2>1. SUFFICES ASSUME k \in touched PROVE FALSE
    OBVIOUS
  <2>2. Shapes /\ HandInv /\ Tables /\ Requests
    BY <1>3 DEF OwnershipInv, Shapes
  <2>3. tk[k] # NoTakeover
    BY <1>3 DEF NoTakeover
  <2>4. PICK t \in Threads : CommitTransfer(t) /\ th[t].k = k
    BY <1>3, <2>2, <2>3, RequestsStep DEF Goes
  <2>5. th[t].run = tk[k].run /\ (tk[k].run \notin closed \/ rec[tk[k].run].status # "active")
    BY <1>3, <2>4 DEF ShownInv, ConfirmInv, CommitTransfer
  <2>6. /\ rec[th[t].run].status = "active" /\ tk[k].basis.owner = rec[th[t].run].owner
        /\ tk[k].basis.epoch = rec[th[t].run].epoch
        /\ tk[k].basis.ver = bind[rec[th[t].run].owner].ver /\ rec[th[t].run].owner \in Sessions
    BY <2>2, <2>4, Transferred, Zenon
  <2>7. tk[k].basis.ver < bind[tk[k].basis.owner].ver
    BY <1>3, <2>1, <2>5, <2>6 DEF ShownInv, TouchedInv, BasisPassed
  <2>8. bind[rec[th[t].run].owner].ver \in Nat
    BY <2>2, <2>6, OwnershipAssumption DEF Tables, Bindings
  <2> QED
    BY <2>6, <2>7, <2>8
<1>4. OwnershipInv /\ ShownInv /\ [Next]_vars =>
        [\A k \in Takeovers :
           (tk[k].chal = "pending" /\ tk'[k].chal = "confirmed") => k \notin touched]_vars
  BY <1>3
<1> QED
  BY <1>1, <1>2, <1>4, OwnershipInvariant, PTL DEF Spec, ConfirmedAsShown

==============================================================================
