-------------------------- MODULE PushBarrierProofs --------------------------
(***************************************************************************)
(* Proofs about PushBarrier, for any number of sessions, repos, callers,   *)
(* commits, transfers, boundary epochs, failures and any bound of the      *)
(* retry chain.                                                            *)
(***************************************************************************)
EXTENDS PushBarrier, FiniteSetTheorems, SequenceTheorems, TLAPS

------------------------------------------------------------------------------
(* The types of all tables, handlers and edges; TypeOK is a part of it.       *)

Keys == [repo : Repos, bepoch : 1 .. MaxEpoch, index : 1 .. MaxRetryChain]

EdgeRows == [pc : {"idle", "gate", "push", "report", "waiting"},
             todo : Seq(Keys), reports : Seq(Reports), head : Heads \cup {NoHead}]

SubmitRows == [pc : {"idle", "commit", "load", "read", "write"}, epoch : Nat,
               report : Reports \cup {None}, copy : Verdicts \cup {None},
               server : Heads \cup {NoHead}]

RequestRows == [pc : {"idle", "bind", "bindwrite", "active", "commission",
                      "insert", "timeout", "supersede", "check"},
                todo : SUBSET Repos, repo : Repos \cup {None},
                copy : [Repos -> Verdicts \cup {None}],
                owner : Sessions \cup {None}, oepoch : Nat, index : Nat]

(* Worktrees and server refs; the owner has a worktree of every repo.        *)
GitTypes ==
    /\ owner \in Sessions /\ oepoch \in 1 .. (MaxTransfers + 1)
    /\ local \in [Sessions -> [Repos -> Heads \cup {NoHead}]]
    /\ seen \in [Sessions -> [Repos -> Heads \cup {NoHead}]]
    /\ remote \in [Repos -> Heads] /\ commits \in Heads
    /\ onServer \in [Repos -> SUBSET Heads]
    /\ hooks \subseteq [repo : Repos, head : Heads]
    /\ \A r \in Repos : local[owner][r] \in Heads /\ remote[r] \in onServer[r]
    /\ claim \in Sessions \cup {None}
    /\ failures \in 0 .. MaxFailures

ChainTypes ==
    /\ chain \in [Repos -> [1 .. MaxEpoch -> Seq(Commands)]]
    /\ \A r \in Repos, e \in 1 .. MaxEpoch : Len(chain[r][e]) <= MaxRetryChain

RowTypes ==
    /\ verdict \in [Repos -> Verdicts \cup {None}]
    /\ fresh \in [Repos -> Heads \cup {NoHead}]

(* An edge has a command in hand while it executes, and a report in hand      *)
(* while it reports; it pushes a head.                                       *)
EdgeShape(e) ==
    /\ e.pc \in {"gate", "push"} => e.todo # << >>
    /\ e.pc \in {"report", "waiting"} => e.reports # << >>
    /\ e.pc = "push" => e.head \in Heads

EdgeTypes ==
    /\ edge \in [Sessions -> EdgeRows]
    /\ \A s \in Sessions : EdgeShape(edge[s])

SubmitShape(h) ==
    /\ h.pc # "idle" => h.report \in Reports
    /\ h.pc \in {"read", "write"} => h.copy \in Verdicts

SubmitTypes ==
    /\ submit \in [Sessions -> SubmitRows]
    /\ \A s \in Sessions : SubmitShape(submit[s])

(* A request has a row of every repo it bound, and writes only pending ones.  *)
RequestShape(a) ==
    /\ a.pc \in {"bindwrite", "insert", "timeout", "supersede"} => a.repo \in Repos
    /\ a.pc = "bindwrite" => a.copy[a.repo].status = "pending"
    /\ a.pc \in {"bind", "bindwrite"} => \A r \in Repos : r \notin a.todo => a.copy[r] \in Verdicts
    /\ a.pc = "bindwrite" => a.repo \notin a.todo
    /\ a.pc \in {"active", "commission", "insert", "timeout", "supersede"} => \A r \in Repos : a.copy[r] \in Verdicts
    /\ a.pc \in {"commission", "insert", "timeout", "supersede"} => a.owner \in Sessions
    /\ a.pc = "check" => \A r \in a.todo : a.copy[r] \in Verdicts

RequestTypes ==
    /\ req \in [Requesters -> RequestRows]
    /\ \A q \in Requesters : RequestShape(req[q])

(* What a request has bound is a row, and rows are never deleted.            *)
RowsBound ==
    \A q \in Requesters, r \in Repos :
       \/ /\ req[q].pc \in {"bind", "bindwrite"} /\ r \notin req[q].todo
          /\ req[q].pc = "bindwrite" => r # req[q].repo
       \/ req[q].pc \in {"active", "commission", "insert", "timeout", "supersede"}
       => verdict[r] \in Verdicts

(* The index a request remembers between its read of a chain and its write:    *)
(* the place to insert at comes right behind commands that have ended, or has *)
(* been taken since; the place of the command found timed out is there.       *)
Placed(a) ==
    LET commands == chain[a.repo][a.copy[a.repo].bepoch]
    IN  /\ a.pc = "insert" => /\ a.index \in 1 .. MaxRetryChain /\ a.index <= Len(commands) + 1
                              /\ \A i \in 1 .. (a.index - 1) : ~IsOpen(commands[i])
        /\ a.pc \in {"timeout", "supersede"} => a.index \in 1 .. Len(commands)

PlacesHold == \A q \in Requesters : Placed(req[q])

Shapes == /\ GitTypes /\ ChainTypes /\ RowTypes /\ EdgeTypes /\ SubmitTypes
          /\ RequestTypes /\ RowsBound /\ PlacesHold

------------------------------------------------------------------------------
(* What the helpers of the edge loop return.                                 *)

(* Every open command of a session is one of finitely many.                   *)
LEMMA OpenForIsFinite ==
  ASSUME NEW s \in Sessions
  PROVE  OpenFor(s) \subseteq Keys /\ Cardinality(OpenFor(s)) \in Nat
<1> DEFINE P == (Repos \X (1 .. MaxEpoch)) \X (1 .. MaxRetryChain)
           f == [p \in P |-> [repo |-> p[1][1], bepoch |-> p[1][2], index |-> p[2]]]
<1>1. IsFiniteSet(1 .. MaxEpoch) /\ IsFiniteSet(1 .. MaxRetryChain)
  BY PushBarrierAssumption, FS_Interval
<1>2. IsFiniteSet(Repos \X (1 .. MaxEpoch))
  BY <1>1, PushBarrierAssumption, FS_Product
<1>3. IsFiniteSet(P)
  BY <1>1, <1>2, FS_Product
<1>4. f \in Surjection(P, Keys)
  <2>1. f \in [P -> Keys]
    BY DEF Keys
  <2>2. ASSUME NEW k \in Keys PROVE \E p \in P : f[p] = k
    <3>1. <<<<k.repo, k.bepoch>>, k.index>> \in P
      BY DEF Keys
    <3>2. f[<<<<k.repo, k.bepoch>>, k.index>>] = k
      BY <3>1 DEF Keys
    <3> QED
      BY <3>1, <3>2
  <2> QED
    BY <2>1, <2>2 DEF Surjection
<1>5. IsFiniteSet(Keys)
  BY <1>3, <1>4, FS_Surjection
<1>6. OpenFor(s) \subseteq Keys
  BY DEF OpenFor, Keys
<1> QED
  BY <1>5, <1>6, FS_Subset, FS_CardinalityType

(* The first element of a queue, and the rest.                               *)
LEMMA FirstAndRest ==
  ASSUME NEW S, NEW q \in Seq(S), q # << >>
  PROVE  /\ Head(q) \in S /\ Head(q) = q[1] /\ 1 \in DOMAIN q
         /\ Tail(q) \in Seq(S)
         /\ Len(q) # 1 => Tail(q) # << >>
         /\ \A i \in DOMAIN Tail(q) : i + 1 \in DOMAIN q /\ Tail(q)[i] = q[i + 1]
<1>1. Len(q) \in Nat \ {0} /\ DOMAIN q = 1 .. Len(q)
  BY EmptySeq, LenProperties
<1>2. /\ Head(q) \in S /\ Tail(q) \in Seq(S) /\ Len(Tail(q)) = Len(q) - 1
      /\ \A i \in 1 .. Len(Tail(q)) : Tail(q)[i] = q[i + 1]
  BY HeadTailProperties
<1>3. DOMAIN Tail(q) = 1 .. (Len(q) - 1)
  BY <1>2, LenProperties
<1>4. Head(q) = q[1]
  BY <1>1
<1>5. Len(q) # 1 => Tail(q) # << >>
  <2>1. PICK t \in Seq(S) : t = Tail(q)
    BY <1>2
  <2>2. Len(t) = Len(q) - 1
    BY <1>2, <2>1
  <2>3. t = << >> => Len(t) = 0
    OBVIOUS
  <2>4. Len(q) # 1 => t # << >>
    BY <1>1, <2>2, <2>3
  <2> QED
    BY <2>1, <2>4, Zenon
<1> QED
  BY <1>1, <1>2, <1>3, <1>4, <1>5

(* A queue with one more element.                                            *)
LEMMA OneMore ==
  ASSUME NEW S, NEW q \in Seq(S), NEW x \in S
  PROVE  /\ Append(q, x) \in Seq(S) /\ Append(q, x) # << >>
         /\ Len(Append(q, x)) = Len(q) + 1
         /\ \A i \in DOMAIN Append(q, x) :
              \/ i \in DOMAIN q /\ Append(q, x)[i] = q[i]
              \/ i = Len(q) + 1 /\ Append(q, x)[i] = x
         /\ \A i \in DOMAIN q : i \in DOMAIN Append(q, x) /\ Append(q, x)[i] = q[i]
OBVIOUS

(* The edge after a report of the command in hand.                           *)
LEMMA ReportedShape ==
  ASSUME NEW e \in EdgeRows, e.todo # << >>,
         NEW outcome \in Outcomes, NEW head \in Heads \cup {NoHead}
  PROVE  /\ Reported(e, outcome, head) \in EdgeRows
         /\ EdgeShape(Reported(e, outcome, head))
         /\ Reported(e, outcome, head).todo = Tail(e.todo)
         /\ Reported(e, outcome, head).reports =
              Append(e.reports, [repo |-> Head(e.todo).repo, bepoch |-> Head(e.todo).bepoch,
                                 index |-> Head(e.todo).index,
                                 outcome |-> outcome, head |-> head])
<1> DEFINE k == [repo |-> Head(e.todo).repo, bepoch |-> Head(e.todo).bepoch,
                 index |-> Head(e.todo).index, outcome |-> outcome, head |-> head]
           pc2 == IF Len(e.todo) = 1 THEN "report" ELSE "gate"
<1>1. e.todo \in Seq(Keys) /\ e.reports \in Seq(Reports)
  BY DEF EdgeRows
<1>2. Head(e.todo) \in Keys /\ Tail(e.todo) \in Seq(Keys)
      /\ (Len(e.todo) # 1 => Tail(e.todo) # << >>)
  BY <1>1, FirstAndRest
<1>3. k \in Reports
  BY SMTT(20), <1>2, PushBarrierAssumption DEF Keys, Reports
<1>4. Append(e.reports, k) \in Seq(Reports) /\ Append(e.reports, k) # << >>
  BY <1>1, <1>3, OneMore
<1> HIDE DEF k
<1>5. /\ Reported(e, outcome, head).pc = pc2
      /\ Reported(e, outcome, head).todo = Tail(e.todo)
      /\ Reported(e, outcome, head).reports = Append(e.reports, k)
      /\ Reported(e, outcome, head).head = NoHead
  BY DEF Reported, EdgeRows, k
<1>6. Reported(e, outcome, head) \in EdgeRows
  BY <1>2, <1>4 DEF Reported, EdgeRows, k
<1> QED
  BY <1>2, <1>4, <1>5, <1>6 DEF EdgeShape, k

(* The edge after the answer to its first report.                            *)
LEMMA AnswerShape ==
  ASSUME NEW e \in EdgeRows, e.reports # << >>
  PROVE  /\ Answer(e) \in EdgeRows /\ EdgeShape(Answer(e))
         /\ Answer(e).todo = e.todo \/ Answer(e).todo = << >>
         /\ Answer(e).reports = Tail(e.reports) \/ Answer(e).reports = << >>
<1>1. e.reports \in Seq(Reports) /\ e.todo \in Seq(Keys)
  BY DEF EdgeRows
<1>2. Tail(e.reports) \in Seq(Reports) /\ (Len(e.reports) # 1 => Tail(e.reports) # << >>)
  BY <1>1, FirstAndRest
<1>3. EdgeIdle \in EdgeRows /\ EdgeShape(EdgeIdle) /\ EdgeIdle.todo = << >> /\ EdgeIdle.reports = << >>
  BY DEF EdgeIdle, EdgeRows, EdgeShape
<1>4. CASE Len(e.reports) = 1
  BY <1>3, <1>4 DEF Answer
<1>5. CASE Len(e.reports) # 1
  BY <1>2, <1>5 DEF Answer, EdgeRows, EdgeShape
<1> QED
  BY <1>4, <1>5

LEMMA EdgeIdleShape == EdgeIdle \in EdgeRows /\ EdgeShape(EdgeIdle)
BY DEF EdgeIdle, EdgeRows, EdgeShape

------------------------------------------------------------------------------
(* The retry chains.                                                         *)

(* What a command c may become: it keeps its session and its epoch, it is not *)
(* opened again, and once it has ended it stays as it is.                    *)
Later(c, d) ==
    /\ d.session = c.session /\ d.oepoch = c.oepoch
    /\ IsOpen(d) => IsOpen(c)
    /\ ~IsOpen(c) => d = c

(* A chain q may become p: its commands go on, new ones come behind them.     *)
Extends(q, p) ==
    /\ Len(q) <= Len(p)
    /\ \A i \in 1 .. Len(q) : Later(q[i], p[i])

ChainStep == \A r \in Repos, e \in 1 .. MaxEpoch : Extends(chain[r][e], chain'[r][e])

(* No command but the last of a chain is open. *)
LastOpen(q) == \A i \in DOMAIN q : IsOpen(q[i]) => i = Len(q)

LEMMA FunctionIsSeq ==
  ASSUME NEW S, NEW n \in Nat, NEW f \in [1 .. n -> S]
  PROVE  f \in Seq(S) /\ Len(f) = n /\ DOMAIN f = 1 .. n
OBVIOUS

(* One chain is replaced by one that extends it. *)
LEMMA ChainReplaced ==
  ASSUME ChainTypes, NEW r \in Repos, NEW e \in 1 .. MaxEpoch, NEW p \in Seq(Commands),
         Len(p) <= MaxRetryChain, Extends(chain[r][e], p),
         chain' = [chain EXCEPT ![r][e] = p]
  PROVE  ChainTypes' /\ ChainStep
<1>1. /\ \A r2 \in Repos : r2 # r => chain'[r2] = chain[r2]
      /\ chain'[r] = [chain[r] EXCEPT ![e] = p]
      /\ chain' \in [Repos -> [1 .. MaxEpoch -> Seq(Commands)]]
  BY DEF ChainTypes
<1>2. chain'[r][e] = p /\ \A e2 \in 1 .. MaxEpoch : e2 # e => chain'[r][e2] = chain[r][e2]
  BY <1>1 DEF ChainTypes
<1>3. \A r2 \in Repos, e2 \in 1 .. MaxEpoch :
        chain'[r2][e2] = chain[r2][e2] \/ (r2 = r /\ e2 = e)
  BY <1>1, <1>2
<1>4. \A r2 \in Repos, e2 \in 1 .. MaxEpoch : chain[r2][e2] \in Seq(Commands)
  BY DEF ChainTypes
<1>5. \A q \in Seq(Commands) : Extends(q, q)
  BY DEF Extends, Later
<1>6. ASSUME NEW r2 \in Repos, NEW e2 \in 1 .. MaxEpoch
      PROVE  Len(chain'[r2][e2]) <= MaxRetryChain /\ Extends(chain[r2][e2], chain'[r2][e2])
  <2>1. CASE chain'[r2][e2] = chain[r2][e2]
    BY <1>4, <1>5, <2>1 DEF ChainTypes
  <2>2. CASE r2 = r /\ e2 = e
    BY <1>2, <2>2
  <2> QED
    BY <1>3, <2>1, <2>2
<1> QED
  BY <1>1, <1>6 DEF ChainTypes, ChainStep

(* The chains are left alone. *)
LEMMA ChainKept ==
  ASSUME ChainTypes, UNCHANGED chain
  PROVE  ChainTypes' /\ ChainStep
<1>1. \A r \in Repos, e \in 1 .. MaxEpoch : chain[r][e] \in Seq(Commands)
  BY DEF ChainTypes
<1>2. \A q \in Seq(Commands) : Extends(q, q)
  BY DEF Extends, Later
<1> QED
  BY <1>1, <1>2 DEF ChainTypes, ChainStep

(* The fetch of an edge stamps its open commands and ends none. *)
LEMMA FetchStamps ==
  ASSUME ChainTypes, NEW s \in Sessions, EdgeFetch(s)
  PROVE  /\ ChainTypes' /\ ChainStep
         /\ \A r \in Repos, e \in 1 .. MaxEpoch :
              /\ DOMAIN chain'[r][e] = DOMAIN chain[r][e]
              /\ Len(chain'[r][e]) = Len(chain[r][e])
              /\ \A i \in DOMAIN chain[r][e] :
                   /\ IsOpen(chain'[r][e][i]) <=> IsOpen(chain[r][e][i])
                   /\ chain'[r][e][i].status \in {chain[r][e][i].status, "delivered"}
<1> DEFINE stamped(c) == IF c.session = s /\ c.status = "created"
                         THEN [c EXCEPT !.status = "delivered"] ELSE c
<1>1. chain' = [r \in Repos |-> [e \in 1 .. MaxEpoch |->
                  [i \in DOMAIN chain[r][e] |-> stamped(chain[r][e][i])]]]
  BY DEF EdgeFetch
<1>2. \A c \in Commands : /\ stamped(c) \in Commands /\ Later(c, stamped(c))
                          /\ IsOpen(stamped(c)) <=> IsOpen(c)
                          /\ stamped(c).status \in {c.status, "delivered"}
  BY DEF Commands, Later, IsOpen, OpenStatuses
<1> HIDE DEF stamped
<1>3. ASSUME NEW r \in Repos, NEW e \in 1 .. MaxEpoch
      PROVE  /\ chain'[r][e] \in Seq(Commands) /\ Len(chain'[r][e]) = Len(chain[r][e])
             /\ Extends(chain[r][e], chain'[r][e])
             /\ DOMAIN chain'[r][e] = DOMAIN chain[r][e]
             /\ \A i \in DOMAIN chain[r][e] :
                   /\ IsOpen(chain'[r][e][i]) <=> IsOpen(chain[r][e][i])
                   /\ chain'[r][e][i].status \in {chain[r][e][i].status, "delivered"}
    <2>1. chain[r][e] \in Seq(Commands)
      BY DEF ChainTypes
    <2>2. PICK q \in Seq(Commands) : q = chain[r][e]
      BY <2>1
    <2>3. Len(q) \in Nat /\ DOMAIN q = 1 .. Len(q) /\ \A i \in 1 .. Len(q) : q[i] \in Commands
      BY LenProperties, ElementOfSeq
    <2>4. chain'[r][e] = [i \in 1 .. Len(q) |-> stamped(q[i])]
      BY <1>1, <2>2, <2>3
    <2>5. [i \in 1 .. Len(q) |-> stamped(q[i])] \in [1 .. Len(q) -> Commands]
      BY <1>2, <2>3
    <2>6. chain'[r][e] \in Seq(Commands) /\ Len(chain'[r][e]) = Len(q) /\ DOMAIN chain'[r][e] = 1 .. Len(q)
      BY <2>3, <2>4, <2>5, FunctionIsSeq
    <2>7. \A i \in 1 .. Len(q) : chain'[r][e][i] = stamped(q[i])
      BY <2>4
    <2> QED
      BY <1>2, <2>2, <2>3, <2>6, <2>7 DEF Extends
<1>4. chain' \in [Repos -> [1 .. MaxEpoch -> Seq(Commands)]]
  <2>1. \A r \in Repos, e \in 1 .. MaxEpoch :
          [i \in DOMAIN chain[r][e] |-> stamped(chain[r][e][i])] \in Seq(Commands)
    BY <1>1, <1>3
  <2> QED
    BY <1>1, <2>1
<1>5. \A r \in Repos, e \in 1 .. MaxEpoch : Len(chain'[r][e]) <= MaxRetryChain
  BY <1>3 DEF ChainTypes
<1> QED
  BY <1>3, <1>4, <1>5 DEF ChainTypes, ChainStep

------------------------------------------------------------------------------
(* What an edge has in hand, and what the result handler works on.            *)

Known(s, k) ==
    /\ k.index \in 1 .. Len(chain[k.repo][k.bepoch])
    /\ Cmd(k).session = s

(* A report is of a command of its session, and a push it reports happened.   *)
Sound(s, k) == Known(s, k) /\ (k.outcome = "pushed" => k.head \in onServer[k.repo])

EdgeInv ==
    \A s \in Sessions :
       /\ \A i \in DOMAIN edge[s].todo : Known(s, edge[s].todo[i])
       /\ \A i \in DOMAIN edge[s].reports : Sound(s, edge[s].reports[i])

(* The command a handler works on, from the commit on: it has ended with the  *)
(* reported outcome, and the row that was read is a row it may resolve.       *)
SubmitHolds(h, s) ==
    h.pc # "idle" =>
      /\ Sound(s, h.report)
      /\ h.server \in onServer[h.report.repo] \cup {NoHead}
      /\ h.pc \in {"load", "read", "write"} =>
           /\ ~IsOpen(Cmd(h.report))
           /\ Cmd(h.report).outcome = h.report.outcome /\ Cmd(h.report).head = h.report.head
           /\ h.report.outcome = "pushed" => Cmd(h.report).status = "completed"
      /\ h.pc \in {"read", "write"} =>
           h.copy.bepoch = h.report.bepoch /\ h.copy.oepoch = Cmd(h.report).oepoch

SubmitInv == \A s \in Sessions : SubmitHolds(submit[s], s)

(* The open command k of the owner's session ends with its outcome, and no     *)
(* other command changes.                                                     *)
EndsWith(k) ==
    /\ IsOpen(Cmd(k)) /\ Cmd(k).session = owner
    /\ chain'[k.repo][k.bepoch][k.index].status = IF k.outcome = "command_error" THEN "failed" ELSE "completed"
    /\ chain'[k.repo][k.bepoch][k.index].outcome = k.outcome
    /\ chain'[k.repo][k.bepoch][k.index].head = k.head
    /\ \A r \in Repos, e \in 1 .. MaxEpoch :
         /\ DOMAIN chain'[r][e] = DOMAIN chain[r][e] /\ Len(chain'[r][e]) = Len(chain[r][e])
         /\ \A i \in DOMAIN chain[r][e] :
              \/ chain'[r][e][i] = chain[r][e][i]
              \/ r = k.repo /\ e = k.bepoch /\ i = k.index

(* The commit transaction ends the reported command of the session that owns. *)
LEMMA CommitEnds ==
  ASSUME Shapes, SubmitInv, NEW s \in Sessions, SubmitCommit(s), CommitAdmitted(s)
  PROVE  /\ ChainTypes' /\ ChainStep
         /\ EndsWith(submit[s].report)
<1>0. submit[s].pc = "commit" /\ submit[s].report \in Reports
  BY DEF SubmitCommit, Shapes, SubmitTypes, SubmitShape
<1>1. PICK k \in Reports : k = submit[s].report
  BY <1>0
<1>2. /\ k.repo \in Repos /\ k.bepoch \in 1 .. MaxEpoch /\ k.outcome \in Outcomes
      /\ k.head \in Heads \cup {NoHead}
  BY DEF Reports
<1>3. k.index \in 1 .. Len(chain[k.repo][k.bepoch]) /\ Cmd(k).session = s
  BY <1>0, <1>1 DEF SubmitInv, SubmitHolds, Sound, Known
<1>4. owner = s /\ IsOpen(Cmd(k))
  BY <1>1 DEF CommitAdmitted
<1>5. PICK q \in Seq(Commands) : q = chain[k.repo][k.bepoch]
  BY <1>2 DEF Shapes, ChainTypes
<1>6. q[k.index] \in Commands /\ Cmd(k) = q[k.index] /\ DOMAIN q = 1 .. Len(q) /\ Len(q) \in Nat
      /\ Len(q) <= MaxRetryChain
  BY <1>2, <1>3, <1>5, ElementOfSeq, LenProperties DEF Cmd, Shapes, ChainTypes
<1>7. PICK c : c = [q[k.index] EXCEPT
                      !.status = IF k.outcome = "command_error" THEN "failed" ELSE "completed",
                      !.outcome = k.outcome, !.head = k.head]
  OBVIOUS
<1>8. /\ c \in Commands /\ Later(q[k.index], c)
      /\ c.status = IF k.outcome = "command_error" THEN "failed" ELSE "completed"
      /\ c.outcome = k.outcome /\ c.head = k.head
  BY <1>2, <1>4, <1>6, <1>7 DEF Commands, Outcomes, Later, IsOpen, OpenStatuses
<1>9. PICK p : p = [q EXCEPT ![k.index] = c]
  OBVIOUS
<1>10. /\ p \in Seq(Commands) /\ Len(p) = Len(q) /\ DOMAIN p = DOMAIN q
       /\ p[k.index] = c /\ \A i \in DOMAIN q : i # k.index => p[i] = q[i]
  BY <1>3, <1>5, <1>6, <1>8, <1>9, ExceptSeq, LenProperties
<1>11. chain' = [chain EXCEPT ![k.repo][k.bepoch] = p]
  <2>1. chain' = [chain EXCEPT ![k.repo][k.bepoch][k.index] =
           [@ EXCEPT !.status = IF k.outcome = "command_error" THEN "failed" ELSE "completed",
                     !.outcome = k.outcome, !.head = k.head]]
    BY <1>1 DEF SubmitCommit
  <2> QED
    BY <1>5, <1>7, <1>9, <2>1
<1>12. Extends(q, p)
  BY <1>6, <1>8, <1>10 DEF Extends, Later
<1>13. ChainTypes' /\ ChainStep
  BY <1>2, <1>5, <1>6, <1>10, <1>11, <1>12, ChainReplaced DEF Shapes
<1>14. /\ chain'[k.repo][k.bepoch] = p
       /\ \A r \in Repos, e \in 1 .. MaxEpoch :
            chain'[r][e] = chain[r][e] \/ (r = k.repo /\ e = k.bepoch)
  BY <1>2, <1>11 DEF Shapes, ChainTypes
<1>15. ASSUME NEW r \in Repos, NEW e \in 1 .. MaxEpoch
       PROVE  /\ DOMAIN chain'[r][e] = DOMAIN chain[r][e] /\ Len(chain'[r][e]) = Len(chain[r][e])
              /\ \A i \in DOMAIN chain[r][e] :
                   \/ chain'[r][e][i] = chain[r][e][i]
                   \/ r = k.repo /\ e = k.bepoch /\ i = k.index
  BY <1>5, <1>10, <1>14
<1>16. /\ chain'[k.repo][k.bepoch][k.index].status = IF k.outcome = "command_error" THEN "failed" ELSE "completed"
       /\ chain'[k.repo][k.bepoch][k.index].outcome = k.outcome
       /\ chain'[k.repo][k.bepoch][k.index].head = k.head
  BY <1>8, <1>10, <1>14
<1>17. Cmd(k).session = owner
  BY <1>3, <1>4
<1>18. EndsWith(k)
  BY <1>4, <1>15, <1>16, <1>17 DEF EndsWith
<1> QED
  BY <1>1, <1>13, <1>18

(* A request puts one command behind the others, when none of them is open,   *)
(* or nothing if the place it has read is taken by now.                       *)
LEMMA InsertAppends ==
  ASSUME Shapes, NEW q \in Requesters, InsertCommand(q)
  PROVE  /\ ChainTypes' /\ ChainStep
         /\ \/ UNCHANGED chain
            \/ \E r \in Repos, e \in 1 .. MaxEpoch, c \in Commands :
                 /\ c.status = "created"
                 /\ chain'[r][e] = Append(chain[r][e], c)
                 /\ \A r2 \in Repos, e2 \in 1 .. MaxEpoch :
                      chain'[r2][e2] = chain[r2][e2] \/ (r2 = r /\ e2 = e)
                 /\ \A i \in DOMAIN chain[r][e] : ~IsOpen(chain[r][e][i])
<1>1. /\ req[q] \in RequestRows /\ req[q].owner \in Sessions /\ req[q].repo \in Repos
      /\ req[q].copy[req[q].repo] \in Verdicts
      /\ req[q].oepoch \in Nat /\ req[q].pc = "insert" /\ Placed(req[q])
  BY DEF InsertCommand, Shapes, RequestTypes, RequestShape, RequestRows, PlacesHold
<1>2. PICK r \in Repos : r = req[q].repo
  BY <1>1
<1>3. PICK e \in 1 .. MaxEpoch : e = req[q].copy[r].bepoch
  BY <1>1, <1>2 DEF Verdicts
<1>4. PICK c : c = [status |-> "created", session |-> req[q].owner, oepoch |-> req[q].oepoch,
                    outcome |-> None, head |-> NoHead]
  OBVIOUS
<1>5. c \in Commands /\ c.status = "created"
  BY <1>1, <1>4 DEF Commands, OpenStatuses
<1>6. PICK p \in Seq(Commands) : p = chain[r][e]
  BY DEF Shapes, ChainTypes
<1>7. CASE ~NoConflict(p, req[q].index)
  <2>1. UNCHANGED chain
    BY <1>2, <1>3, <1>6, <1>7 DEF InsertCommand
  <2> QED
    BY <2>1, ChainKept DEF Shapes
<1>8. CASE NoConflict(p, req[q].index)
  <2>1. chain' = [chain EXCEPT ![r][e] = Append(p, c)]
    BY <1>2, <1>3, <1>4, <1>6, <1>8 DEF InsertCommand
  <2>2. /\ Append(p, c) \in Seq(Commands) /\ Len(Append(p, c)) = Len(p) + 1
        /\ \A i \in DOMAIN p : Append(p, c)[i] = p[i]
        /\ Len(p) \in Nat /\ DOMAIN p = 1 .. Len(p)
    BY <1>5, OneMore, LenProperties
  <2>3. Len(p) < MaxRetryChain /\ \A i \in DOMAIN p : ~IsOpen(p[i])
    <3>1. /\ req[q].index \in 1 .. MaxRetryChain /\ req[q].index <= Len(p) + 1
          /\ \A i \in 1 .. (req[q].index - 1) : ~IsOpen(p[i])
      BY <1>1, <1>2, <1>3, <1>6 DEF Placed
    <3>2. Len(p) < req[q].index
      BY <1>8 DEF NoConflict
    <3>3. req[q].index - 1 = Len(p) /\ Len(p) < MaxRetryChain
      BY <2>2, <3>1, <3>2, PushBarrierAssumption
    <3> QED
      BY <2>2, <3>1, <3>3
  <2>4. Extends(p, Append(p, c))
    BY <2>2 DEF Extends, Later
  <2>5. ChainTypes' /\ ChainStep
    <3>1. Len(Append(p, c)) <= MaxRetryChain
      BY <2>2, <2>3, PushBarrierAssumption
    <3>2. PICK w \in Seq(Commands) : w = Append(p, c)
      BY <2>2
    <3>3. Extends(chain[r][e], w) /\ Len(w) <= MaxRetryChain /\ chain' = [chain EXCEPT ![r][e] = w]
      BY <1>6, <2>1, <2>4, <3>1, <3>2
    <3> QED
      BY <3>3, ChainReplaced DEF Shapes
  <2>6. /\ chain'[r][e] = Append(p, c)
        /\ \A r2 \in Repos, e2 \in 1 .. MaxEpoch :
             chain'[r2][e2] = chain[r2][e2] \/ (r2 = r /\ e2 = e)
    BY <2>1 DEF Shapes, ChainTypes
  <2>7. /\ c.status = "created"
        /\ chain'[r][e] = Append(chain[r][e], c)
        /\ \A i \in DOMAIN chain[r][e] : ~IsOpen(chain[r][e][i])
    BY <1>5, <1>6, <2>3, <2>6
  <2>8. \E r1 \in Repos, e1 \in 1 .. MaxEpoch, c1 \in Commands :
          /\ c1.status = "created"
          /\ chain'[r1][e1] = Append(chain[r1][e1], c1)
          /\ \A r2 \in Repos, e2 \in 1 .. MaxEpoch :
               chain'[r2][e2] = chain[r2][e2] \/ (r2 = r1 /\ e2 = e1)
          /\ \A i \in DOMAIN chain[r1][e1] : ~IsOpen(chain[r1][e1][i])
    BY <1>5, <2>6, <2>7, Zenon
  <2> QED
    BY <2>5, <2>8
<1> QED
  BY <1>7, <1>8

(* A timeout supersedes the command that was found, if it is still open.      *)
LEMMA TimeoutSupersedes ==
  ASSUME Shapes, NEW q \in Requesters, SupersedeCommand(q)
  PROVE  /\ ChainTypes' /\ ChainStep
         /\ \A r \in Repos, e \in 1 .. MaxEpoch :
              /\ DOMAIN chain'[r][e] = DOMAIN chain[r][e] /\ Len(chain'[r][e]) = Len(chain[r][e])
              /\ \A i \in DOMAIN chain[r][e] :
                   \/ chain'[r][e][i] = chain[r][e][i]
                   \/ chain'[r][e][i].status = "superseded"
<1>1. /\ req[q].repo \in Repos /\ req[q].copy[req[q].repo] \in Verdicts
      /\ req[q].pc = "supersede" /\ Placed(req[q])
  BY DEF SupersedeCommand, Shapes, RequestTypes, RequestShape, PlacesHold
<1>2. PICK r \in Repos : r = req[q].repo
  BY <1>1
<1>3. PICK e \in 1 .. MaxEpoch : e = req[q].copy[req[q].repo].bepoch
  BY <1>1 DEF Verdicts
<1>4. PICK p \in Seq(Commands) : p = chain[r][e]
  BY DEF Shapes, ChainTypes
<1>5. Len(p) \in Nat /\ DOMAIN p = 1 .. Len(p) /\ \A i \in 1 .. Len(p) : p[i] \in Commands
  BY LenProperties, ElementOfSeq
<1>6. PICK k \in 1 .. Len(p) : k = req[q].index
  BY <1>1, <1>2, <1>3, <1>4 DEF Placed
<1>7. PICK c : c = [p[k] EXCEPT !.status = "superseded"]
  OBVIOUS
<1>8. CASE ~IsOpen(p[k])
  <2>1. UNCHANGED chain
    BY <1>2, <1>3, <1>4, <1>6, <1>8 DEF SupersedeCommand
  <2> QED
    BY <2>1, ChainKept DEF Shapes
<1>9. CASE IsOpen(p[k])
  <2>1. c \in Commands /\ Later(p[k], c) /\ c.status = "superseded"
    <3>1. PICK d \in Commands : d = p[k]
      BY <1>5, <1>6
    <3>2. c \in Commands /\ c.status = "superseded" /\ c.session = d.session /\ c.oepoch = d.oepoch
      BY <1>7, <3>1 DEF Commands
    <3>3. ~IsOpen(c) /\ IsOpen(d)
      BY <1>9, <3>1, <3>2 DEF IsOpen, OpenStatuses
    <3> QED
      BY <3>1, <3>2, <3>3 DEF Later
  <2>2. PICK w : w = [p EXCEPT ![k] = c]
    OBVIOUS
  <2>3. /\ w \in Seq(Commands) /\ Len(w) = Len(p) /\ DOMAIN w = DOMAIN p
        /\ w[k] = c /\ \A i \in DOMAIN p : i # k => w[i] = p[i]
    BY <1>5, <1>6, <2>1, <2>2, ExceptSeq, LenProperties
  <2>4. chain' = [chain EXCEPT ![r][e] = w]
    <3>1. chain' = [chain EXCEPT ![r][e][k].status = "superseded"]
      BY <1>2, <1>3, <1>4, <1>6, <1>9 DEF SupersedeCommand
    <3> QED
      BY <1>4, <1>7, <2>2, <3>1
  <2>5. Extends(p, w)
    BY <1>5, <1>6, <2>1, <2>3 DEF Extends, Later
  <2>6. Len(p) <= MaxRetryChain
    BY <1>4 DEF Shapes, ChainTypes
  <2>7. ChainTypes' /\ ChainStep
    BY <1>4, <2>3, <2>4, <2>5, <2>6, ChainReplaced DEF Shapes
  <2>8. /\ chain'[r][e] = w
        /\ \A r2 \in Repos, e2 \in 1 .. MaxEpoch :
             chain'[r2][e2] = chain[r2][e2] \/ (r2 = r /\ e2 = e)
    BY <2>4 DEF Shapes, ChainTypes
  <2>9. ASSUME NEW r2 \in Repos, NEW e2 \in 1 .. MaxEpoch
        PROVE  /\ DOMAIN chain'[r2][e2] = DOMAIN chain[r2][e2]
               /\ Len(chain'[r2][e2]) = Len(chain[r2][e2])
               /\ \A i \in DOMAIN chain[r2][e2] :
                    \/ chain'[r2][e2][i] = chain[r2][e2][i]
                    \/ chain'[r2][e2][i].status = "superseded"
    <3>1. CASE chain'[r2][e2] = chain[r2][e2]
      BY <3>1
    <3>2. CASE r2 = r /\ e2 = e
      BY <1>4, <1>6, <2>1, <2>3, <2>8, <3>2
    <3> QED
      BY <2>8, <3>1, <3>2
  <2> QED
    BY <2>7, <2>9
<1> QED
  BY <1>8, <1>9

(* Every step takes the chains on.                                           *)
LEMMA ChainsGoOn ==
  ASSUME Shapes, SubmitInv, [Next]_vars
  PROVE  ChainTypes' /\ ChainStep
<1> USE DEF gitVars, rowVars
<1>s. ChainTypes
  BY DEF Shapes
<1>u. ASSUME UNCHANGED chain PROVE ChainTypes' /\ ChainStep
  BY <1>s, <1>u, ChainKept
<1>1. ASSUME NEW s \in Sessions, NEW r \in Repos, LocalCommit(s, r)
      PROVE  ChainTypes' /\ ChainStep
  BY <1>1, <1>u DEF LocalCommit
<1>2. ASSUME NEW h \in hooks, NEW known \in BOOLEAN, RegisterCommit(h, known)
      PROVE  ChainTypes' /\ ChainStep
  BY <1>2, <1>u DEF RegisterCommit
<1>3. ASSUME NEW s \in Sessions, Takeover(s)
      PROVE  ChainTypes' /\ ChainStep
  BY <1>3, <1>u DEF Takeover
<1>4. ASSUME NEW s \in Sessions, EdgeDies(s)
      PROVE  ChainTypes' /\ ChainStep
  BY <1>4, <1>u DEF EdgeDies
<1>5. ASSUME NEW s \in Sessions, EdgeFetch(s)
      PROVE  ChainTypes' /\ ChainStep
  BY <1>5, <1>s, FetchStamps
<1>6. ASSUME NEW s \in Sessions, EdgeGate(s)
      PROVE  ChainTypes' /\ ChainStep
  BY <1>6, <1>u DEF EdgeGate
<1>7. ASSUME NEW s \in Sessions, EdgePush(s)
      PROVE  ChainTypes' /\ ChainStep
  BY <1>7, <1>u DEF EdgePush
<1>8. ASSUME NEW s \in Sessions, SubmitRejected(s)
      PROVE  ChainTypes' /\ ChainStep
  BY <1>8, <1>u DEF SubmitRejected
<1>9. ASSUME NEW s \in Sessions, SubmitAdmitted(s)
      PROVE  ChainTypes' /\ ChainStep
  BY <1>9, <1>u DEF SubmitAdmitted
<1>10. ASSUME NEW s \in Sessions, SubmitCommit(s)
      PROVE  ChainTypes' /\ ChainStep
  <2>1. CASE CommitAdmitted(s)
    BY <1>10, <2>1, CommitEnds
  <2>2. CASE ~CommitAdmitted(s)
    BY <1>10, <1>u, <2>2 DEF SubmitCommit
  <2> QED
    BY <2>1, <2>2
<1>11. ASSUME NEW s \in Sessions, SubmitLoad(s)
      PROVE  ChainTypes' /\ ChainStep
  BY <1>11, <1>u DEF SubmitLoad
<1>12. ASSUME NEW s \in Sessions, SubmitServerRead(s)
      PROVE  ChainTypes' /\ ChainStep
  BY <1>12, <1>u DEF SubmitServerRead
<1>13. ASSUME NEW s \in Sessions, SubmitWrite(s)
      PROVE  ChainTypes' /\ ChainStep
  BY <1>13, <1>u DEF SubmitWrite
<1>14. ASSUME NEW q \in Requesters, RequestBarrier(q)
      PROVE  ChainTypes' /\ ChainStep
  BY <1>14, <1>u DEF RequestBarrier
<1>15. ASSUME NEW q \in Requesters, BindWrite(q)
      PROVE  ChainTypes' /\ ChainStep
  BY <1>15, <1>u DEF BindWrite
<1>16. ASSUME NEW q \in Requesters, ReadActive(q)
      PROVE  ChainTypes' /\ ChainStep
  BY <1>16, <1>u DEF ReadActive
<1>17. ASSUME NEW q \in Requesters, SupersedeCommand(q)
      PROVE  ChainTypes' /\ ChainStep
  BY <1>17, TimeoutSupersedes
<1>18. ASSUME NEW q \in Requesters, ListVerdicts(q)
      PROVE  ChainTypes' /\ ChainStep
  BY <1>18, <1>u DEF ListVerdicts
<1>19. ASSUME NEW q \in Requesters, NEW r \in Repos, BindLoad(q, r)
      PROVE  ChainTypes' /\ ChainStep
  BY <1>19, <1>u DEF BindLoad
<1>20. ASSUME NEW q \in Requesters, NEW r \in Repos, NextCommandId(q, r)
      PROVE  ChainTypes' /\ ChainStep
  BY <1>20, <1>u DEF NextCommandId
<1>21. ASSUME NEW q \in Requesters, NEW r \in Repos, CommissionWait(q, r)
      PROVE  ChainTypes' /\ ChainStep
  BY <1>21, <1>u DEF CommissionWait
<1>22. ASSUME NEW q \in Requesters, NEW r \in Repos, CommissionTimeout(q, r)
      PROVE  ChainTypes' /\ ChainStep
  BY <1>22, <1>u DEF CommissionTimeout
<1>23. ASSUME NEW q \in Requesters, NEW r \in Repos, CheckServer(q, r)
      PROVE  ChainTypes' /\ ChainStep
  BY <1>23, <1>u DEF CheckServer
<1>24. ASSUME NEW q \in Requesters, CommissionFails(q)
      PROVE  ChainTypes' /\ ChainStep
  BY <1>24, <1>u DEF CommissionFails
<1>25. CASE BackendCrash
  BY <1>25, <1>u DEF BackendCrash
<1>26. CASE UNCHANGED vars
  BY <1>26, <1>u DEF vars
<1>27. ASSUME NEW q \in Requesters, InsertCommand(q)
      PROVE  ChainTypes' /\ ChainStep
  BY <1>27, InsertAppends
<1>28. ASSUME NEW q \in Requesters, BlockTimedOut(q)
      PROVE  ChainTypes' /\ ChainStep
  BY <1>28, <1>u DEF BlockTimedOut
<1> QED
  BY <1>1, <1>2, <1>3, <1>4, <1>5, <1>6, <1>7, <1>8, <1>9, <1>10, <1>11,
     <1>12, <1>13, <1>14, <1>15, <1>16, <1>17, <1>18, <1>19, <1>20, <1>21,
     <1>22, <1>23, <1>24, <1>25, <1>26, <1>27, <1>28
     DEF Next, EdgeStep, SubmitStep, RequestStep

------------------------------------------------------------------------------
(* Type correctness, table by table.                                         *)

LEMMA CommandInHand ==
  ASSUME EdgeTypes, NEW s \in Sessions, edge[s].pc \in {"gate", "push"}
  PROVE  /\ edge[s] \in EdgeRows /\ edge[s].todo \in Seq(Keys) /\ edge[s].todo # << >>
         /\ Head(edge[s].todo) \in Keys /\ Head(edge[s].todo).repo \in Repos
<1>1. edge[s] \in EdgeRows /\ edge[s].todo \in Seq(Keys) /\ edge[s].todo # << >>
  BY DEF EdgeTypes, EdgeShape, EdgeRows
<1>2. Head(edge[s].todo) \in Keys
  BY <1>1, FirstAndRest
<1> QED
  BY <1>1, <1>2 DEF Keys

LEMMA ReportInHand ==
  ASSUME EdgeTypes, NEW s \in Sessions, edge[s].pc \in {"report", "waiting"}
  PROVE  /\ edge[s] \in EdgeRows /\ edge[s].reports \in Seq(Reports) /\ edge[s].reports # << >>
         /\ Head(edge[s].reports) \in Reports /\ Head(edge[s].reports) = edge[s].reports[1]
         /\ 1 \in DOMAIN edge[s].reports
<1>1. edge[s] \in EdgeRows /\ edge[s].reports \in Seq(Reports) /\ edge[s].reports # << >>
  BY DEF EdgeTypes, EdgeShape, EdgeRows
<1> QED
  BY <1>1, FirstAndRest

(* The worktrees, the server and the counters; the server ref keeps its       *)
(* history.                                                                  *)
LEMMA GitStep ==
  ASSUME Shapes, [Next]_vars
  PROVE  GitTypes' /\ \A x \in Repos : onServer[x] \subseteq onServer'[x]
<1> USE PushBarrierAssumption DEF gitVars, rowVars, Fails, Disturbable
<1>g. GitTypes
  BY DEF Shapes
<1>u. ASSUME UNCHANGED <<owner, oepoch, gitVars, claim, failures>>
      PROVE  GitTypes' /\ \A x \in Repos : onServer[x] \subseteq onServer'[x]
  BY <1>g, <1>u DEF GitTypes
<1>f. ASSUME UNCHANGED <<owner, oepoch, gitVars>>, failures' \in 0 .. MaxFailures,
             claim' \in Sessions \cup {None}
      PROVE  GitTypes' /\ \A x \in Repos : onServer[x] \subseteq onServer'[x]
  BY <1>g, <1>f DEF GitTypes
<1>n. Fails => failures' \in 0 .. MaxFailures
  BY <1>g DEF GitTypes
<1>c. claim \in Sessions \cup {None} /\ failures \in 0 .. MaxFailures
  BY <1>g DEF GitTypes
<1>1. ASSUME NEW s \in Sessions, NEW r \in Repos, LocalCommit(s, r)
      PROVE  GitTypes' /\ \A x \in Repos : onServer[x] \subseteq onServer'[x]
  BY <1>1, <1>g DEF LocalCommit, GitTypes, Heads, NoHead
<1>2. ASSUME NEW h \in hooks, NEW known \in BOOLEAN, RegisterCommit(h, known)
      PROVE  GitTypes' /\ \A x \in Repos : onServer[x] \subseteq onServer'[x]
  BY <1>2, <1>g DEF RegisterCommit, GitTypes
<1>3. ASSUME NEW s \in Sessions, Takeover(s)
      PROVE  GitTypes' /\ \A x \in Repos : onServer[x] \subseteq onServer'[x]
  <2>1. oepoch' \in 1 .. (MaxTransfers + 1)
    BY <1>3, <1>g DEF Takeover, GitTypes
  <2>2. local'[s] = remote /\ local' \in [Sessions -> [Repos -> Heads \cup {NoHead}]]
        /\ seen' \in [Sessions -> [Repos -> Heads \cup {NoHead}]]
    BY <1>3, <1>g DEF Takeover, GitTypes
  <2> QED
    BY <1>3, <1>g, <2>1, <2>2 DEF Takeover, GitTypes
<1>4. ASSUME NEW s \in Sessions, EdgeDies(s)
      PROVE  GitTypes' /\ \A x \in Repos : onServer[x] \subseteq onServer'[x]
  BY <1>4, <1>f, <1>n, <1>c DEF EdgeDies
<1>5. ASSUME NEW s \in Sessions, EdgeFetch(s)
      PROVE  GitTypes' /\ \A x \in Repos : onServer[x] \subseteq onServer'[x]
  BY <1>5, <1>u DEF EdgeFetch
<1>6. ASSUME NEW s \in Sessions, EdgeGate(s)
      PROVE  GitTypes' /\ \A x \in Repos : onServer[x] \subseteq onServer'[x]
  BY <1>6, <1>f, <1>n, <1>c DEF EdgeGate
<1>7. ASSUME NEW s \in Sessions, EdgePush(s)
      PROVE  GitTypes' /\ \A x \in Repos : onServer[x] \subseteq onServer'[x]
  <2>1. PICK r \in Repos : r = Head(edge[s].todo).repo
    BY <1>7, CommandInHand DEF EdgePush, Shapes
  <2>2. PICK h \in Heads : h = edge[s].head
    BY <1>7 DEF EdgePush, Shapes, EdgeTypes, EdgeShape
  <2>3. CASE /\ remote' = [remote EXCEPT ![r] = h]
             /\ onServer' = [q \in Repos |-> onServer[q] \cup {remote'[q]}]
             /\ seen' = [seen EXCEPT ![s][r] = h] /\ UNCHANGED failures
    <3>1. remote' \in [Repos -> Heads] /\ seen' \in [Sessions -> [Repos -> Heads \cup {NoHead}]]
      BY <1>g, <2>3 DEF GitTypes
    <3>2. onServer' \in [Repos -> SUBSET Heads]
          /\ \A x \in Repos : onServer[x] \subseteq onServer'[x] /\ remote'[x] \in onServer'[x]
      BY <1>g, <2>3, <3>1 DEF GitTypes
    <3> QED
      BY <1>7, <1>g, <2>3, <3>1, <3>2 DEF EdgePush, GitTypes
  <2>4. CASE UNCHANGED <<seen, remote, onServer>> /\ (Fails \/ UNCHANGED failures)
    BY <1>7, <1>f, <1>n, <1>c, <2>4 DEF EdgePush
  <2> QED
    BY <1>7, <2>1, <2>2, <2>3, <2>4 DEF EdgePush
<1>8. ASSUME NEW s \in Sessions, SubmitRejected(s)
      PROVE  GitTypes' /\ \A x \in Repos : onServer[x] \subseteq onServer'[x]
  BY <1>8, <1>u DEF SubmitRejected
<1>9. ASSUME NEW s \in Sessions, SubmitAdmitted(s)
      PROVE  GitTypes' /\ \A x \in Repos : onServer[x] \subseteq onServer'[x]
  BY <1>9, <1>f, <1>c DEF SubmitAdmitted
<1>10. ASSUME NEW s \in Sessions, SubmitCommit(s)
      PROVE  GitTypes' /\ \A x \in Repos : onServer[x] \subseteq onServer'[x]
  BY <1>10, <1>f, <1>c DEF SubmitCommit, Finish
<1>11. ASSUME NEW s \in Sessions, SubmitLoad(s)
      PROVE  GitTypes' /\ \A x \in Repos : onServer[x] \subseteq onServer'[x]
  BY <1>11, <1>f, <1>c DEF SubmitLoad, Finish
<1>12. ASSUME NEW s \in Sessions, SubmitServerRead(s)
      PROVE  GitTypes' /\ \A x \in Repos : onServer[x] \subseteq onServer'[x]
  BY <1>12, <1>f, <1>n, <1>c DEF SubmitServerRead
<1>13. ASSUME NEW s \in Sessions, SubmitWrite(s)
      PROVE  GitTypes' /\ \A x \in Repos : onServer[x] \subseteq onServer'[x]
  BY <1>13, <1>f, <1>c DEF SubmitWrite, Finish
<1>14. ASSUME NEW q \in Requesters, RequestBarrier(q)
      PROVE  GitTypes' /\ \A x \in Repos : onServer[x] \subseteq onServer'[x]
  BY <1>14, <1>u DEF RequestBarrier
<1>15. ASSUME NEW q \in Requesters, BindWrite(q)
      PROVE  GitTypes' /\ \A x \in Repos : onServer[x] \subseteq onServer'[x]
  BY <1>15, <1>u DEF BindWrite
<1>16. ASSUME NEW q \in Requesters, ReadActive(q)
      PROVE  GitTypes' /\ \A x \in Repos : onServer[x] \subseteq onServer'[x]
  BY <1>16, <1>u DEF ReadActive
<1>17. ASSUME NEW q \in Requesters, SupersedeCommand(q)
      PROVE  GitTypes' /\ \A x \in Repos : onServer[x] \subseteq onServer'[x]
  BY <1>17, <1>u DEF SupersedeCommand
<1>18. ASSUME NEW q \in Requesters, ListVerdicts(q)
      PROVE  GitTypes' /\ \A x \in Repos : onServer[x] \subseteq onServer'[x]
  BY <1>18, <1>u DEF ListVerdicts
<1>19. ASSUME NEW q \in Requesters, NEW r \in Repos, BindLoad(q, r)
      PROVE  GitTypes' /\ \A x \in Repos : onServer[x] \subseteq onServer'[x]
  BY <1>19, <1>u DEF BindLoad
<1>20. ASSUME NEW q \in Requesters, NEW r \in Repos, NextCommandId(q, r)
      PROVE  GitTypes' /\ \A x \in Repos : onServer[x] \subseteq onServer'[x]
  BY <1>20, <1>u DEF NextCommandId
<1>21. ASSUME NEW q \in Requesters, NEW r \in Repos, CommissionWait(q, r)
      PROVE  GitTypes' /\ \A x \in Repos : onServer[x] \subseteq onServer'[x]
  BY <1>21, <1>u DEF CommissionWait
<1>22. ASSUME NEW q \in Requesters, NEW r \in Repos, CommissionTimeout(q, r)
      PROVE  GitTypes' /\ \A x \in Repos : onServer[x] \subseteq onServer'[x]
  BY <1>22, <1>u DEF CommissionTimeout
<1>23. ASSUME NEW q \in Requesters, NEW r \in Repos, CheckServer(q, r)
      PROVE  GitTypes' /\ \A x \in Repos : onServer[x] \subseteq onServer'[x]
  BY <1>23, <1>f, <1>n, <1>c DEF CheckServer
<1>24. ASSUME NEW q \in Requesters, CommissionFails(q)
      PROVE  GitTypes' /\ \A x \in Repos : onServer[x] \subseteq onServer'[x]
  BY <1>24, <1>f, <1>n, <1>c DEF CommissionFails
<1>25. CASE BackendCrash
  BY <1>25, <1>f, <1>n, <1>c DEF BackendCrash
<1>26. CASE UNCHANGED vars
  BY <1>26, <1>u DEF vars
<1>27. ASSUME NEW q \in Requesters, InsertCommand(q)
      PROVE  GitTypes' /\ \A x \in Repos : onServer[x] \subseteq onServer'[x]
  BY <1>27, <1>u DEF InsertCommand
<1>28. ASSUME NEW q \in Requesters, BlockTimedOut(q)
      PROVE  GitTypes' /\ \A x \in Repos : onServer[x] \subseteq onServer'[x]
  BY <1>28, <1>u DEF BlockTimedOut
<1> QED
  BY <1>1, <1>2, <1>3, <1>4, <1>5, <1>6, <1>7, <1>8, <1>9, <1>10, <1>11,
     <1>12, <1>13, <1>14, <1>15, <1>16, <1>17, <1>18, <1>19, <1>20, <1>21,
     <1>22, <1>23, <1>24, <1>25, <1>26, <1>27, <1>28
     DEF Next, EdgeStep, SubmitStep, RequestStep

(* Verdicts and freshness rows. *)
LEMMA RowStep ==
  ASSUME Shapes, [Next]_vars
  PROVE  RowTypes' /\ \A x \in Repos : verdict[x] \in Verdicts => verdict'[x] \in Verdicts
<1> USE DEF gitVars, rowVars
<1>g. RowTypes
  BY DEF Shapes
<1>u. ASSUME UNCHANGED <<verdict, fresh>> PROVE RowTypes' /\ \A x \in Repos : verdict[x] \in Verdicts => verdict'[x] \in Verdicts
  BY <1>g, <1>u DEF RowTypes
<1>v. ASSUME NEW r \in Repos, NEW v \in Verdicts, verdict' = [verdict EXCEPT ![r] = v], UNCHANGED fresh
      PROVE  RowTypes' /\ \A x \in Repos : verdict[x] \in Verdicts => verdict'[x] \in Verdicts
  BY <1>g, <1>v DEF RowTypes
<1>1. ASSUME NEW s \in Sessions, NEW r \in Repos, LocalCommit(s, r)
      PROVE  RowTypes' /\ \A x \in Repos : verdict[x] \in Verdicts => verdict'[x] \in Verdicts
  BY <1>1, <1>u DEF LocalCommit
<1>2. ASSUME NEW h \in hooks, NEW known \in BOOLEAN, RegisterCommit(h, known)
      PROVE  RowTypes' /\ \A x \in Repos : verdict[x] \in Verdicts => verdict'[x] \in Verdicts
  <2>1. ASSUME NEW x \in Repos, verdict[x] # None, verdict[x].bepoch < MaxEpoch
        PROVE  [verdict[x] EXCEPT !.status = "superseded", !.bepoch = @ + 1, !.head = NoHead] \in Verdicts
    <3>1. PICK v \in Verdicts : v = verdict[x]
      BY <1>g, <2>1 DEF RowTypes
    <3>2. v.bepoch + 1 \in 1 .. MaxEpoch
      BY <2>1, <3>1, PushBarrierAssumption DEF Verdicts
    <3> QED
      BY <3>1, <3>2 DEF Verdicts, Statuses
  <2>2. \A x \in Repos : verdict'[x] = verdict[x] \/ verdict'[x] \in Verdicts
    BY <1>2, <2>1 DEF RegisterCommit
  <2>3. verdict' \in [Repos -> Verdicts \cup {None}]
    <3>1. verdict' = [x \in Repos |-> verdict'[x]]
      BY <1>2 DEF RegisterCommit
    <3>2. \A x \in Repos : verdict'[x] \in Verdicts \cup {None}
      BY <1>g, <2>2 DEF RowTypes
    <3> QED
      BY <3>1, <3>2
  <2> QED
    BY <1>2, <1>g, <2>2, <2>3 DEF RegisterCommit, RowTypes
<1>3. ASSUME NEW s \in Sessions, Takeover(s)
      PROVE  RowTypes' /\ \A x \in Repos : verdict[x] \in Verdicts => verdict'[x] \in Verdicts
  BY <1>3, <1>u DEF Takeover
<1>4. ASSUME NEW s \in Sessions, EdgeDies(s)
      PROVE  RowTypes' /\ \A x \in Repos : verdict[x] \in Verdicts => verdict'[x] \in Verdicts
  BY <1>4, <1>u DEF EdgeDies
<1>5. ASSUME NEW s \in Sessions, EdgeFetch(s)
      PROVE  RowTypes' /\ \A x \in Repos : verdict[x] \in Verdicts => verdict'[x] \in Verdicts
  BY <1>5, <1>u DEF EdgeFetch
<1>6. ASSUME NEW s \in Sessions, EdgeGate(s)
      PROVE  RowTypes' /\ \A x \in Repos : verdict[x] \in Verdicts => verdict'[x] \in Verdicts
  BY <1>6, <1>u DEF EdgeGate
<1>7. ASSUME NEW s \in Sessions, EdgePush(s)
      PROVE  RowTypes' /\ \A x \in Repos : verdict[x] \in Verdicts => verdict'[x] \in Verdicts
  BY <1>7, <1>u DEF EdgePush
<1>8. ASSUME NEW s \in Sessions, SubmitRejected(s)
      PROVE  RowTypes' /\ \A x \in Repos : verdict[x] \in Verdicts => verdict'[x] \in Verdicts
  BY <1>8, <1>u DEF SubmitRejected
<1>9. ASSUME NEW s \in Sessions, SubmitAdmitted(s)
      PROVE  RowTypes' /\ \A x \in Repos : verdict[x] \in Verdicts => verdict'[x] \in Verdicts
  BY <1>9, <1>u DEF SubmitAdmitted
<1>10. ASSUME NEW s \in Sessions, SubmitCommit(s)
      PROVE  RowTypes' /\ \A x \in Repos : verdict[x] \in Verdicts => verdict'[x] \in Verdicts
  BY <1>10, <1>u DEF SubmitCommit
<1>11. ASSUME NEW s \in Sessions, SubmitLoad(s)
      PROVE  RowTypes' /\ \A x \in Repos : verdict[x] \in Verdicts => verdict'[x] \in Verdicts
  <2>1. submit[s].report \in Reports
    BY <1>11 DEF SubmitLoad, Shapes, SubmitTypes, SubmitShape
  <2>2. PICK k \in Reports : k = submit[s].report
    BY <2>1
  <2>3. fresh' = [fresh EXCEPT ![k.repo] = Freshness(@, k)] /\ UNCHANGED verdict
    BY <1>11, <2>2 DEF SubmitLoad
  <2>4. k.repo \in Repos /\ k.head \in Heads \cup {NoHead}
    BY DEF Reports
  <2> QED
    BY <1>g, <2>3, <2>4 DEF RowTypes, Freshness
<1>12. ASSUME NEW s \in Sessions, SubmitServerRead(s)
      PROVE  RowTypes' /\ \A x \in Repos : verdict[x] \in Verdicts => verdict'[x] \in Verdicts
  BY <1>12, <1>u DEF SubmitServerRead
<1>13. ASSUME NEW s \in Sessions, SubmitWrite(s)
      PROVE  RowTypes' /\ \A x \in Repos : verdict[x] \in Verdicts => verdict'[x] \in Verdicts
  <2>1. submit[s].report \in Reports /\ submit[s].copy \in Verdicts
    BY <1>13 DEF SubmitWrite, Shapes, SubmitTypes, SubmitShape
  <2>2. PICK r \in Repos : r = submit[s].report.repo
    BY <2>1 DEF Reports
  <2>3. PICK v : v = [submit[s].copy EXCEPT !.head = submit[s].report.head,
              !.status = IF Verified(submit[s].report, submit[s].server) THEN "passed" ELSE "blocked_backlog"]
    OBVIOUS
  <2>4. v \in Verdicts
    BY <2>1, <2>3 DEF Verdicts, Reports, Statuses
  <2>5. verdict' = [verdict EXCEPT ![r] = v] /\ UNCHANGED fresh
    BY <1>13, <2>2, <2>3 DEF SubmitWrite
  <2> QED
    BY <1>v, <2>4, <2>5
<1>14. ASSUME NEW q \in Requesters, RequestBarrier(q)
      PROVE  RowTypes' /\ \A x \in Repos : verdict[x] \in Verdicts => verdict'[x] \in Verdicts
  BY <1>14, <1>u DEF RequestBarrier
<1>15. ASSUME NEW q \in Requesters, BindWrite(q)
      PROVE  RowTypes' /\ \A x \in Repos : verdict[x] \in Verdicts => verdict'[x] \in Verdicts
  <2>1. req[q].repo \in Repos /\ req[q].copy[req[q].repo] \in Verdicts
    BY <1>15 DEF BindWrite, Shapes, RequestTypes, RequestShape
  <2> QED
    BY <1>15, <1>v, <2>1 DEF BindWrite
<1>16. ASSUME NEW q \in Requesters, ReadActive(q)
      PROVE  RowTypes' /\ \A x \in Repos : verdict[x] \in Verdicts => verdict'[x] \in Verdicts
  BY <1>16, <1>u DEF ReadActive
<1>17. ASSUME NEW q \in Requesters, SupersedeCommand(q)
      PROVE  RowTypes' /\ \A x \in Repos : verdict[x] \in Verdicts => verdict'[x] \in Verdicts
  BY <1>17, <1>u DEF SupersedeCommand
<1>18. ASSUME NEW q \in Requesters, ListVerdicts(q)
      PROVE  RowTypes' /\ \A x \in Repos : verdict[x] \in Verdicts => verdict'[x] \in Verdicts
  BY <1>18, <1>u DEF ListVerdicts
<1>19. ASSUME NEW q \in Requesters, NEW r \in Repos, BindLoad(q, r)
      PROVE  RowTypes' /\ \A x \in Repos : verdict[x] \in Verdicts => verdict'[x] \in Verdicts
  BY <1>19, <1>u DEF BindLoad
<1>20. ASSUME NEW q \in Requesters, NEW r \in Repos, NextCommandId(q, r)
      PROVE  RowTypes' /\ \A x \in Repos : verdict[x] \in Verdicts => verdict'[x] \in Verdicts
  BY <1>20, <1>u DEF NextCommandId
<1>21. ASSUME NEW q \in Requesters, NEW r \in Repos, CommissionWait(q, r)
      PROVE  RowTypes' /\ \A x \in Repos : verdict[x] \in Verdicts => verdict'[x] \in Verdicts
  BY <1>21, <1>u DEF CommissionWait
<1>22. ASSUME NEW q \in Requesters, NEW r \in Repos, CommissionTimeout(q, r)
      PROVE  RowTypes' /\ \A x \in Repos : verdict[x] \in Verdicts => verdict'[x] \in Verdicts
  BY <1>22, <1>u DEF CommissionTimeout
<1>23. ASSUME NEW q \in Requesters, NEW r \in Repos, CheckServer(q, r)
      PROVE  RowTypes' /\ \A x \in Repos : verdict[x] \in Verdicts => verdict'[x] \in Verdicts
  <2>1. req[q].copy[r] \in Verdicts
    BY <1>23 DEF CheckServer, Shapes, RequestTypes, RequestShape
  <2>2. [req[q].copy[r] EXCEPT !.status = "blocked_backlog"] \in Verdicts
    BY <2>1 DEF Verdicts, Statuses
  <2>3. UNCHANGED verdict \/ verdict' = [verdict EXCEPT ![r] = [req[q].copy[r] EXCEPT !.status = "blocked_backlog"]]
    BY <1>23 DEF CheckServer
  <2>4. UNCHANGED fresh
    BY <1>23 DEF CheckServer
  <2> QED
    BY <1>u, <1>v, <2>2, <2>3, <2>4
<1>24. ASSUME NEW q \in Requesters, CommissionFails(q)
      PROVE  RowTypes' /\ \A x \in Repos : verdict[x] \in Verdicts => verdict'[x] \in Verdicts
  BY <1>24, <1>u DEF CommissionFails
<1>25. CASE BackendCrash
  BY <1>25, <1>u DEF BackendCrash
<1>26. CASE UNCHANGED vars
  BY <1>26, <1>u DEF vars
<1>27. ASSUME NEW q \in Requesters, InsertCommand(q)
      PROVE  RowTypes' /\ \A x \in Repos : verdict[x] \in Verdicts => verdict'[x] \in Verdicts
  BY <1>27, <1>u DEF InsertCommand
<1>28. ASSUME NEW q \in Requesters, BlockTimedOut(q)
      PROVE  RowTypes' /\ \A x \in Repos : verdict[x] \in Verdicts => verdict'[x] \in Verdicts
  <2>1. req[q].repo \in Repos /\ req[q].copy[req[q].repo] \in Verdicts
    BY <1>28 DEF BlockTimedOut, Shapes, RequestTypes, RequestShape
  <2>2. PICK v : v = [req[q].copy[req[q].repo] EXCEPT !.status = "blocked_backlog", !.head = NoHead]
    OBVIOUS
  <2>3. v \in Verdicts
    BY <2>1, <2>2 DEF Verdicts, Statuses, NoHead
  <2>4. verdict' = [verdict EXCEPT ![req[q].repo] = v] /\ UNCHANGED fresh
    BY <1>28, <2>2 DEF BlockTimedOut
  <2> QED
    BY <1>v, <2>1, <2>3, <2>4
<1> QED
  BY <1>1, <1>2, <1>3, <1>4, <1>5, <1>6, <1>7, <1>8, <1>9, <1>10, <1>11,
     <1>12, <1>13, <1>14, <1>15, <1>16, <1>17, <1>18, <1>19, <1>20, <1>21,
     <1>22, <1>23, <1>24, <1>25, <1>26, <1>27, <1>28
     DEF Next, EdgeStep, SubmitStep, RequestStep

(* The edge loops. *)
LEMMA EdgeStepTypes ==
  ASSUME Shapes, [Next]_vars
  PROVE  EdgeTypes'
<1> USE DEF gitVars, rowVars
<1>g. EdgeTypes
  BY DEF Shapes
<1>u. ASSUME UNCHANGED edge PROVE EdgeTypes'
  BY <1>g, <1>u DEF EdgeTypes
<1>e. ASSUME NEW s \in Sessions, NEW e \in EdgeRows, EdgeShape(e), edge' = [edge EXCEPT ![s] = e]
      PROVE  EdgeTypes'
  BY <1>g, <1>e DEF EdgeTypes
<1>p. ASSUME NEW s \in Sessions, Finish(s) PROVE EdgeTypes'
  <2>1. CASE edge[s].pc = "waiting"
    <3>1. edge[s] \in EdgeRows /\ edge[s].reports # << >>
      BY <1>g, <2>1, ReportInHand
    <3>2. Answer(edge[s]) \in EdgeRows /\ EdgeShape(Answer(edge[s]))
      BY <3>1, AnswerShape
    <3> QED
      BY <1>e, <1>p, <2>1, <3>2 DEF Finish
  <2>2. CASE edge[s].pc # "waiting"
    BY <1>p, <1>u, <2>2 DEF Finish
  <2> QED
    BY <2>1, <2>2
<1>1. ASSUME NEW s \in Sessions, NEW r \in Repos, LocalCommit(s, r)
      PROVE  EdgeTypes'
  BY <1>1, <1>u DEF LocalCommit
<1>2. ASSUME NEW h \in hooks, NEW known \in BOOLEAN, RegisterCommit(h, known)
      PROVE  EdgeTypes'
  BY <1>2, <1>u DEF RegisterCommit
<1>3. ASSUME NEW s \in Sessions, Takeover(s)
      PROVE  EdgeTypes'
  BY <1>3, <1>u DEF Takeover
<1>4. ASSUME NEW s \in Sessions, EdgeDies(s)
      PROVE  EdgeTypes'
  BY <1>4, <1>e, EdgeIdleShape DEF EdgeDies
<1>5. ASSUME NEW s \in Sessions, EdgeFetch(s)
      PROVE  EdgeTypes'
  <2>1. PICK order \in [1 .. Cardinality(OpenFor(s)) -> OpenFor(s)] :
          edge' = IF order = << >> THEN edge
                  ELSE [edge EXCEPT ![s] = [EdgeIdle EXCEPT !.pc = "gate", !.todo = order]]
    BY <1>5 DEF EdgeFetch
  <2>2. order \in Seq(Keys)
    <3>1. order \in [1 .. Cardinality(OpenFor(s)) -> Keys]
      BY OpenForIsFinite
    <3> QED
      BY <3>1, OpenForIsFinite, FunctionIsSeq
  <2>3. [EdgeIdle EXCEPT !.pc = "gate", !.todo = order] \in EdgeRows
    BY <2>2, EdgeIdleShape DEF EdgeRows
  <2>4. order # << >> => EdgeShape([EdgeIdle EXCEPT !.pc = "gate", !.todo = order])
    BY DEF EdgeIdle, EdgeShape
  <2> QED
    BY <1>e, <1>u, <2>1, <2>3, <2>4
<1>6. ASSUME NEW s \in Sessions, EdgeGate(s)
      PROVE  EdgeTypes'
  <2>1. edge[s] \in EdgeRows /\ edge[s].todo # << >> /\ Head(edge[s].todo).repo \in Repos
    BY <1>6, <1>g, CommandInHand DEF EdgeGate
  <2>2. ASSUME NEW outcome \in Outcomes, edge' = [edge EXCEPT ![s] = Reported(edge[s], outcome, NoHead)]
        PROVE  EdgeTypes'
    <3>1. Reported(edge[s], outcome, NoHead) \in EdgeRows /\ EdgeShape(Reported(edge[s], outcome, NoHead))
      BY <2>1, ReportedShape
    <3> QED
      BY <1>e, <2>2, <3>1
  <2>3. ASSUME owner = s, edge' = [edge EXCEPT ![s].pc = "push", ![s].head = local[s][Head(edge[s].todo).repo]]
        PROVE  EdgeTypes'
    <3>1. local[s][Head(edge[s].todo).repo] \in Heads
      BY <2>1, <2>3 DEF Shapes, GitTypes
    <3>2. PICK h \in Heads : h = local[s][Head(edge[s].todo).repo]
      BY <3>1
    <3>3. PICK e : e = [edge[s] EXCEPT !.pc = "push", !.head = h]
      OBVIOUS
    <3>4. e \in EdgeRows /\ EdgeShape(e)
      BY <2>1, <3>3 DEF EdgeRows, EdgeShape
    <3>5. edge' = [edge EXCEPT ![s] = e]
      BY <2>3, <3>2, <3>3
    <3> QED
      BY <1>e, <3>4, <3>5
  <2> QED
    BY <1>6, <2>2, <2>3 DEF EdgeGate, Outcomes
<1>7. ASSUME NEW s \in Sessions, EdgePush(s)
      PROVE  EdgeTypes'
  <2>1. edge[s] \in EdgeRows /\ edge[s].todo # << >>
    BY <1>7, <1>g, CommandInHand DEF EdgePush
  <2>2. edge[s].head \in Heads \cup {NoHead}
    BY <2>1 DEF EdgeRows
  <2>3. ASSUME NEW outcome \in Outcomes, edge' = [edge EXCEPT ![s] = Reported(edge[s], outcome, edge[s].head)]
        PROVE  EdgeTypes'
    <3>1. /\ Reported(edge[s], outcome, edge[s].head) \in EdgeRows
          /\ EdgeShape(Reported(edge[s], outcome, edge[s].head))
      BY <2>1, <2>2, ReportedShape
    <3> QED
      BY <1>e, <2>3, <3>1
  <2>4. \A accepted, moved : PushReport(accepted, moved) \in Outcomes
    BY DEF PushReport, Outcomes
  <2> QED
    BY <1>7, <2>3, <2>4 DEF EdgePush
<1>8. ASSUME NEW s \in Sessions, SubmitRejected(s)
      PROVE  EdgeTypes'
  <2>1. edge[s] \in EdgeRows /\ edge[s].reports # << >>
    BY <1>8, <1>g, ReportInHand DEF SubmitRejected
  <2>2. Answer(edge[s]) \in EdgeRows /\ EdgeShape(Answer(edge[s]))
    BY <2>1, AnswerShape
  <2> QED
    BY <1>8, <1>e, <2>2 DEF SubmitRejected
<1>9. ASSUME NEW s \in Sessions, SubmitAdmitted(s)
      PROVE  EdgeTypes'
  <2>1. edge[s] \in EdgeRows /\ edge[s].reports # << >>
    BY <1>9, <1>g, ReportInHand DEF SubmitAdmitted
  <2>2. PICK e : e = [edge[s] EXCEPT !.pc = "waiting"]
    OBVIOUS
  <2>3. e \in EdgeRows /\ EdgeShape(e)
    BY <2>1, <2>2 DEF EdgeRows, EdgeShape
  <2>4. edge' = [edge EXCEPT ![s] = e]
    BY <1>9, <2>2 DEF SubmitAdmitted
  <2> QED
    BY <1>e, <2>3, <2>4
<1>10. ASSUME NEW s \in Sessions, SubmitCommit(s)
      PROVE  EdgeTypes'
  <2>1. CASE Finish(s)
    BY <1>p, <2>1
  <2>2. CASE UNCHANGED edge
    BY <1>u, <2>2
  <2> QED
    BY <1>10, <2>1, <2>2 DEF SubmitCommit
<1>11. ASSUME NEW s \in Sessions, SubmitLoad(s)
      PROVE  EdgeTypes'
  <2>1. CASE Finish(s)
    BY <1>p, <2>1
  <2>2. CASE UNCHANGED edge
    BY <1>u, <2>2
  <2> QED
    BY <1>11, <2>1, <2>2 DEF SubmitLoad
<1>12. ASSUME NEW s \in Sessions, SubmitServerRead(s)
      PROVE  EdgeTypes'
  BY <1>12, <1>u DEF SubmitServerRead
<1>13. ASSUME NEW s \in Sessions, SubmitWrite(s)
      PROVE  EdgeTypes'
  BY <1>13, <1>p DEF SubmitWrite
<1>14. ASSUME NEW q \in Requesters, RequestBarrier(q)
      PROVE  EdgeTypes'
  BY <1>14, <1>u DEF RequestBarrier
<1>15. ASSUME NEW q \in Requesters, BindWrite(q)
      PROVE  EdgeTypes'
  BY <1>15, <1>u DEF BindWrite
<1>16. ASSUME NEW q \in Requesters, ReadActive(q)
      PROVE  EdgeTypes'
  BY <1>16, <1>u DEF ReadActive
<1>17. ASSUME NEW q \in Requesters, SupersedeCommand(q)
      PROVE  EdgeTypes'
  BY <1>17, <1>u DEF SupersedeCommand
<1>18. ASSUME NEW q \in Requesters, ListVerdicts(q)
      PROVE  EdgeTypes'
  BY <1>18, <1>u DEF ListVerdicts
<1>19. ASSUME NEW q \in Requesters, NEW r \in Repos, BindLoad(q, r)
      PROVE  EdgeTypes'
  BY <1>19, <1>u DEF BindLoad
<1>20. ASSUME NEW q \in Requesters, NEW r \in Repos, NextCommandId(q, r)
      PROVE  EdgeTypes'
  BY <1>20, <1>u DEF NextCommandId
<1>21. ASSUME NEW q \in Requesters, NEW r \in Repos, CommissionWait(q, r)
      PROVE  EdgeTypes'
  BY <1>21, <1>u DEF CommissionWait
<1>22. ASSUME NEW q \in Requesters, NEW r \in Repos, CommissionTimeout(q, r)
      PROVE  EdgeTypes'
  BY <1>22, <1>u DEF CommissionTimeout
<1>23. ASSUME NEW q \in Requesters, NEW r \in Repos, CheckServer(q, r)
      PROVE  EdgeTypes'
  BY <1>23, <1>u DEF CheckServer
<1>24. ASSUME NEW q \in Requesters, CommissionFails(q)
      PROVE  EdgeTypes'
  BY <1>24, <1>u DEF CommissionFails
<1>25. CASE BackendCrash
  BY <1>25, <1>g, EdgeIdleShape DEF BackendCrash, EdgeTypes
<1>26. CASE UNCHANGED vars
  BY <1>26, <1>u DEF vars
<1>27. ASSUME NEW q \in Requesters, InsertCommand(q)
      PROVE  EdgeTypes'
  BY <1>27, <1>u DEF InsertCommand
<1>28. ASSUME NEW q \in Requesters, BlockTimedOut(q)
      PROVE  EdgeTypes'
  BY <1>28, <1>u DEF BlockTimedOut
<1> QED
  BY <1>1, <1>2, <1>3, <1>4, <1>5, <1>6, <1>7, <1>8, <1>9, <1>10, <1>11,
     <1>12, <1>13, <1>14, <1>15, <1>16, <1>17, <1>18, <1>19, <1>20, <1>21,
     <1>22, <1>23, <1>24, <1>25, <1>26, <1>27, <1>28
     DEF Next, EdgeStep, SubmitStep, RequestStep

(* The result handlers. *)
LEMMA SubmitStepTypes ==
  ASSUME Shapes, [Next]_vars
  PROVE  SubmitTypes'
<1> USE DEF gitVars, rowVars
<1>g. SubmitTypes
  BY DEF Shapes
<1>u. ASSUME UNCHANGED submit PROVE SubmitTypes'
  BY <1>g, <1>u DEF SubmitTypes
<1>e. ASSUME NEW s \in Sessions, NEW h \in SubmitRows, SubmitShape(h), submit' = [submit EXCEPT ![s] = h]
      PROVE  SubmitTypes'
  BY <1>g, <1>e DEF SubmitTypes
<1>i. SubmitIdle \in SubmitRows /\ SubmitShape(SubmitIdle)
  BY DEF SubmitIdle, SubmitRows, SubmitShape
<1>p. ASSUME NEW s \in Sessions, Finish(s) PROVE SubmitTypes'
  BY <1>e, <1>i, <1>p DEF Finish
<1>1. ASSUME NEW s \in Sessions, NEW r \in Repos, LocalCommit(s, r)
      PROVE  SubmitTypes'
  BY <1>1, <1>u DEF LocalCommit
<1>2. ASSUME NEW h \in hooks, NEW known \in BOOLEAN, RegisterCommit(h, known)
      PROVE  SubmitTypes'
  BY <1>2, <1>u DEF RegisterCommit
<1>3. ASSUME NEW s \in Sessions, Takeover(s)
      PROVE  SubmitTypes'
  BY <1>3, <1>u DEF Takeover
<1>4. ASSUME NEW s \in Sessions, EdgeDies(s)
      PROVE  SubmitTypes'
  BY <1>4, <1>u DEF EdgeDies
<1>5. ASSUME NEW s \in Sessions, EdgeFetch(s)
      PROVE  SubmitTypes'
  BY <1>5, <1>u DEF EdgeFetch
<1>6. ASSUME NEW s \in Sessions, EdgeGate(s)
      PROVE  SubmitTypes'
  BY <1>6, <1>u DEF EdgeGate
<1>7. ASSUME NEW s \in Sessions, EdgePush(s)
      PROVE  SubmitTypes'
  BY <1>7, <1>u DEF EdgePush
<1>8. ASSUME NEW s \in Sessions, SubmitRejected(s)
      PROVE  SubmitTypes'
  BY <1>8, <1>u DEF SubmitRejected
<1>9. ASSUME NEW s \in Sessions, SubmitAdmitted(s)
      PROVE  SubmitTypes'
  <2>1. Head(edge[s].reports) \in Reports
    BY <1>9, ReportInHand DEF SubmitAdmitted, Shapes
  <2>2. oepoch \in Nat
    BY PushBarrierAssumption DEF Shapes, GitTypes
  <2>3. PICK h : h = [SubmitIdle EXCEPT !.pc = "commit", !.epoch = oepoch, !.report = Head(edge[s].reports)]
    OBVIOUS
  <2>4. h \in SubmitRows /\ SubmitShape(h)
    BY <2>1, <2>2, <2>3 DEF SubmitIdle, SubmitRows, SubmitShape
  <2> QED
    BY <1>9, <1>e, <2>3, <2>4 DEF SubmitAdmitted
<1>10. ASSUME NEW s \in Sessions, SubmitCommit(s)
      PROVE  SubmitTypes'
  <2>1. CASE Finish(s)
    BY <1>p, <2>1
  <2>2. CASE submit' = [submit EXCEPT ![s].pc = "load"]
    <3>1. PICK h : h = [submit[s] EXCEPT !.pc = "load"]
      OBVIOUS
    <3>2. submit[s] \in SubmitRows /\ SubmitShape(submit[s]) /\ submit[s].pc = "commit"
      BY <1>10, <1>g DEF SubmitCommit, SubmitTypes
    <3>3. h \in SubmitRows /\ SubmitShape(h)
      BY <3>1, <3>2 DEF SubmitRows, SubmitShape
    <3>4. submit' = [submit EXCEPT ![s] = h]
      BY <2>2, <3>1
    <3> QED
      BY <1>e, <3>3, <3>4
  <2> QED
    BY <1>10, <2>1, <2>2 DEF SubmitCommit
<1>11. ASSUME NEW s \in Sessions, SubmitLoad(s)
      PROVE  SubmitTypes'
  <2>1. CASE Finish(s)
    BY <1>p, <2>1
  <2>2. CASE ~Finish(s)
    <3>1. PICK w \in {"write", "read"} : w = IF submit[s].report.outcome = "command_error" THEN "write" ELSE "read"
      OBVIOUS
    <3>2. PICK h : h = [submit[s] EXCEPT !.copy = verdict[submit[s].report.repo], !.pc = w]
      OBVIOUS
    <3>3. submit' = [submit EXCEPT ![s] = h] /\ verdict[submit[s].report.repo] # None
      BY <1>11, <2>2, <3>1, <3>2 DEF SubmitLoad
    <3>4. /\ submit[s] \in SubmitRows /\ submit[s].report \in Reports
          /\ verdict[submit[s].report.repo] \in Verdicts
      BY <1>11, <1>g, <3>3 DEF SubmitLoad, SubmitTypes, SubmitShape, Shapes, RowTypes, Reports
    <3>5. h \in SubmitRows /\ SubmitShape(h)
      BY <3>1, <3>2, <3>4 DEF SubmitRows, SubmitShape
    <3> QED
      BY <1>e, <3>3, <3>5
  <2> QED
    BY <2>1, <2>2
<1>12. ASSUME NEW s \in Sessions, SubmitServerRead(s)
      PROVE  SubmitTypes'
  <2>1. /\ submit[s] \in SubmitRows /\ submit[s].report \in Reports /\ submit[s].copy \in Verdicts
    BY <1>12, <1>g DEF SubmitServerRead, SubmitTypes, SubmitShape
  <2>2. PICK server \in {remote[submit[s].report.repo], NoHead} :
          submit' = [submit EXCEPT ![s].server = server, ![s].pc = "write"]
    BY <1>12 DEF SubmitServerRead
  <2>3. server \in Heads \cup {NoHead}
    BY <2>1 DEF Shapes, GitTypes, Reports
  <2>4. PICK h : h = [submit[s] EXCEPT !.server = server, !.pc = "write"]
    OBVIOUS
  <2>5. h \in SubmitRows /\ SubmitShape(h)
    BY <2>1, <2>3, <2>4 DEF SubmitRows, SubmitShape
  <2>6. submit' = [submit EXCEPT ![s] = h]
    BY <2>2, <2>4
  <2> QED
    BY <1>e, <2>5, <2>6
<1>13. ASSUME NEW s \in Sessions, SubmitWrite(s)
      PROVE  SubmitTypes'
  BY <1>13, <1>p DEF SubmitWrite
<1>14. ASSUME NEW q \in Requesters, RequestBarrier(q)
      PROVE  SubmitTypes'
  BY <1>14, <1>u DEF RequestBarrier
<1>15. ASSUME NEW q \in Requesters, BindWrite(q)
      PROVE  SubmitTypes'
  BY <1>15, <1>u DEF BindWrite
<1>16. ASSUME NEW q \in Requesters, ReadActive(q)
      PROVE  SubmitTypes'
  BY <1>16, <1>u DEF ReadActive
<1>17. ASSUME NEW q \in Requesters, SupersedeCommand(q)
      PROVE  SubmitTypes'
  BY <1>17, <1>u DEF SupersedeCommand
<1>18. ASSUME NEW q \in Requesters, ListVerdicts(q)
      PROVE  SubmitTypes'
  BY <1>18, <1>u DEF ListVerdicts
<1>19. ASSUME NEW q \in Requesters, NEW r \in Repos, BindLoad(q, r)
      PROVE  SubmitTypes'
  BY <1>19, <1>u DEF BindLoad
<1>20. ASSUME NEW q \in Requesters, NEW r \in Repos, NextCommandId(q, r)
      PROVE  SubmitTypes'
  BY <1>20, <1>u DEF NextCommandId
<1>21. ASSUME NEW q \in Requesters, NEW r \in Repos, CommissionWait(q, r)
      PROVE  SubmitTypes'
  BY <1>21, <1>u DEF CommissionWait
<1>22. ASSUME NEW q \in Requesters, NEW r \in Repos, CommissionTimeout(q, r)
      PROVE  SubmitTypes'
  BY <1>22, <1>u DEF CommissionTimeout
<1>23. ASSUME NEW q \in Requesters, NEW r \in Repos, CheckServer(q, r)
      PROVE  SubmitTypes'
  BY <1>23, <1>u DEF CheckServer
<1>24. ASSUME NEW q \in Requesters, CommissionFails(q)
      PROVE  SubmitTypes'
  BY <1>24, <1>u DEF CommissionFails
<1>25. CASE BackendCrash
  BY <1>25, <1>g, <1>i DEF BackendCrash, SubmitTypes
<1>26. CASE UNCHANGED vars
  BY <1>26, <1>u DEF vars
<1>27. ASSUME NEW q \in Requesters, InsertCommand(q)
      PROVE  SubmitTypes'
  BY <1>27, <1>u DEF InsertCommand
<1>28. ASSUME NEW q \in Requesters, BlockTimedOut(q)
      PROVE  SubmitTypes'
  BY <1>28, <1>u DEF BlockTimedOut
<1> QED
  BY <1>1, <1>2, <1>3, <1>4, <1>5, <1>6, <1>7, <1>8, <1>9, <1>10, <1>11,
     <1>12, <1>13, <1>14, <1>15, <1>16, <1>17, <1>18, <1>19, <1>20, <1>21,
     <1>22, <1>23, <1>24, <1>25, <1>26, <1>27, <1>28
     DEF Next, EdgeStep, SubmitStep, RequestStep

(* The boundary requests. *)
LEMMA RequestStepTypes ==
  ASSUME Shapes, [Next]_vars
  PROVE  RequestTypes'
<1> USE DEF gitVars, rowVars
<1>g. RequestTypes
  BY DEF Shapes
<1>u. ASSUME UNCHANGED req PROVE RequestTypes'
  BY <1>g, <1>u DEF RequestTypes
<1>e. ASSUME NEW q \in Requesters, NEW a \in RequestRows, RequestShape(a), req' = [req EXCEPT ![q] = a]
      PROVE  RequestTypes'
  BY <1>g, <1>e DEF RequestTypes
<1>i. RequestIdle \in RequestRows /\ RequestShape(RequestIdle)
  BY DEF RequestIdle, RequestRows, RequestShape
<1>q. \A q \in Requesters : req[q] \in RequestRows /\ RequestShape(req[q])
  BY <1>g DEF RequestTypes
<1>n. oepoch \in Nat /\ owner \in Sessions
  BY PushBarrierAssumption DEF Shapes, GitTypes
<1>1. ASSUME NEW s \in Sessions, NEW r \in Repos, LocalCommit(s, r)
      PROVE  RequestTypes'
  BY <1>1, <1>u DEF LocalCommit
<1>2. ASSUME NEW h \in hooks, NEW known \in BOOLEAN, RegisterCommit(h, known)
      PROVE  RequestTypes'
  BY <1>2, <1>u DEF RegisterCommit
<1>3. ASSUME NEW s \in Sessions, Takeover(s)
      PROVE  RequestTypes'
  BY <1>3, <1>u DEF Takeover
<1>4. ASSUME NEW s \in Sessions, EdgeDies(s)
      PROVE  RequestTypes'
  BY <1>4, <1>u DEF EdgeDies
<1>5. ASSUME NEW s \in Sessions, EdgeFetch(s)
      PROVE  RequestTypes'
  BY <1>5, <1>u DEF EdgeFetch
<1>6. ASSUME NEW s \in Sessions, EdgeGate(s)
      PROVE  RequestTypes'
  BY <1>6, <1>u DEF EdgeGate
<1>7. ASSUME NEW s \in Sessions, EdgePush(s)
      PROVE  RequestTypes'
  BY <1>7, <1>u DEF EdgePush
<1>8. ASSUME NEW s \in Sessions, SubmitRejected(s)
      PROVE  RequestTypes'
  BY <1>8, <1>u DEF SubmitRejected
<1>9. ASSUME NEW s \in Sessions, SubmitAdmitted(s)
      PROVE  RequestTypes'
  BY <1>9, <1>u DEF SubmitAdmitted
<1>10. ASSUME NEW s \in Sessions, SubmitCommit(s)
      PROVE  RequestTypes'
  BY <1>10, <1>u DEF SubmitCommit
<1>11. ASSUME NEW s \in Sessions, SubmitLoad(s)
      PROVE  RequestTypes'
  BY <1>11, <1>u DEF SubmitLoad
<1>12. ASSUME NEW s \in Sessions, SubmitServerRead(s)
      PROVE  RequestTypes'
  BY <1>12, <1>u DEF SubmitServerRead
<1>13. ASSUME NEW s \in Sessions, SubmitWrite(s)
      PROVE  RequestTypes'
  BY <1>13, <1>u DEF SubmitWrite
<1>14. ASSUME NEW q \in Requesters, RequestBarrier(q)
      PROVE  RequestTypes'
  <2>1. PICK a : a = [RequestIdle EXCEPT !.pc = "bind", !.todo = Repos, !.oepoch = oepoch]
    OBVIOUS
  <2>2. a \in RequestRows /\ RequestShape(a)
    BY <1>14, <1>q, <1>n, <2>1 DEF RequestBarrier, RequestRows, RequestShape, RequestIdle
  <2>3. req' = [req EXCEPT ![q] = a]
    BY <1>14, <2>1 DEF RequestBarrier
  <2> QED
    BY <1>e, <2>2, <2>3
<1>15. ASSUME NEW q \in Requesters, BindWrite(q)
      PROVE  RequestTypes'
  <2>1. PICK a : a = [req[q] EXCEPT !.pc = IF req[q].todo = {} THEN "active" ELSE "bind", !.repo = None]
    OBVIOUS
  <2>2. a \in RequestRows /\ RequestShape(a)
    BY ZenonT(40), <1>15, <1>q, <1>n, <2>1 DEF BindWrite, RequestRows, RequestShape
  <2>3. req' = [req EXCEPT ![q] = a]
    BY <1>15, <2>1 DEF BindWrite
  <2> QED
    BY <1>e, <2>2, <2>3
<1>16. ASSUME NEW q \in Requesters, ReadActive(q)
      PROVE  RequestTypes'
  <2>1. PICK a : a = [req[q] EXCEPT !.pc = "commission", !.owner = owner, !.oepoch = oepoch,
          !.todo = {r \in Repos : req[q].copy[r].status # "passed"}]
    OBVIOUS
  <2>2. a \in RequestRows /\ RequestShape(a)
    BY ZenonT(40), <1>16, <1>q, <1>n, <2>1 DEF ReadActive, RequestRows, RequestShape
  <2>3. req' = [req EXCEPT ![q] = a]
    BY <1>16, <2>1 DEF ReadActive
  <2> QED
    BY <1>e, <2>2, <2>3
<1>17. ASSUME NEW q \in Requesters, SupersedeCommand(q)
      PROVE  RequestTypes'
  <2>1. PICK a : a = NextRepo(req[q])
    OBVIOUS
  <2>2. a \in RequestRows /\ RequestShape(a)
    BY ZenonT(40), <1>17, <1>q, <1>n, <2>1 DEF SupersedeCommand, NextRepo, RequestRows, RequestShape
  <2>3. req' = [req EXCEPT ![q] = a]
    BY <1>17, <2>1 DEF SupersedeCommand
  <2> QED
    BY <1>e, <2>2, <2>3
<1>18. ASSUME NEW q \in Requesters, ListVerdicts(q)
      PROVE  RequestTypes'
  <2>1. Listed \in RequestRows /\ RequestShape(Listed)
    <3>1. verdict \in [Repos -> Verdicts \cup {None}] /\ \A r \in Repos : verdict[r] \in Verdicts
      BY <1>18 DEF ListVerdicts, Shapes, RowTypes, RowsBound
    <3>2. CASE {r \in Repos : verdict[r].status = "passed"} = {}
      BY <1>i, <3>2 DEF Listed
    <3>3. CASE {r \in Repos : verdict[r].status = "passed"} # {}
      BY <3>1, <3>3 DEF Listed, RequestIdle, RequestRows, RequestShape
    <3> QED
      BY <3>2, <3>3
  <2> QED
    BY <1>18, <1>e, <2>1 DEF ListVerdicts
<1>19. ASSUME NEW q \in Requesters, NEW r \in Repos, BindLoad(q, r)
      PROVE  RequestTypes'
  <2>1. PICK v : v = NextBinding(verdict[r], req[q].oepoch)
    OBVIOUS
  <2>2. v.bepoch <= MaxEpoch /\ r \in req[q].todo /\ req[q].pc = "bind"
    BY <1>19, <2>1 DEF BindLoad
  <2>3. v \in Verdicts /\ (v # verdict[r] => v.status = "pending")
    <3>1. verdict[r] \in Verdicts \cup {None} /\ req[q].oepoch \in Nat
      BY <1>q DEF Shapes, RowTypes, RequestRows
    <3>2. CASE verdict[r] = None
      BY <2>1, <3>1, <3>2, PushBarrierAssumption DEF NextBinding, Verdicts, Statuses, NoHead
    <3>3. CASE verdict[r] # None
      <4>1. PICK w \in Verdicts : w = verdict[r]
        BY <3>1, <3>3
      <4>2. CASE w.status \in {"pending", "passed"}
        BY <2>1, <3>3, <4>1, <4>2 DEF NextBinding
      <4>3. CASE w.status = "superseded"
        <5>1. v = [w EXCEPT !.status = "pending", !.oepoch = req[q].oepoch]
          BY <2>1, <3>3, <4>1, <4>3 DEF NextBinding
        <5> QED
          BY <3>1, <5>1 DEF Verdicts, Statuses
      <4>4. CASE w.status = "blocked_backlog"
        <5>1. v = [w EXCEPT !.status = "pending", !.oepoch = req[q].oepoch, !.bepoch = @ + 1, !.head = NoHead]
          BY <2>1, <3>3, <4>1, <4>4 DEF NextBinding
        <5>2. w.bepoch + 1 = v.bepoch /\ w.bepoch \in Nat
          BY <5>1, PushBarrierAssumption DEF Verdicts
        <5>3. w.bepoch + 1 \in 1 .. MaxEpoch
          BY <2>2, <5>2, PushBarrierAssumption
        <5> QED
          BY <3>1, <5>1, <5>3 DEF Verdicts, Statuses
      <4> QED
        BY <4>1, <4>2, <4>3, <4>4 DEF Verdicts, Statuses
    <3> QED
      BY <3>2, <3>3
  <2>4. PICK c : c = [req[q].copy EXCEPT ![r] = v]
    OBVIOUS
  <2>5. c \in [Repos -> Verdicts \cup {None}] /\ c[r] = v /\ \A x \in Repos : x # r => c[x] = req[q].copy[x]
    BY <1>q, <2>3, <2>4 DEF RequestRows
  <2>6. PICK a : a = [req[q] EXCEPT !.copy = c, !.todo = @ \ {r},
              !.repo = IF v # verdict[r] THEN r ELSE None,
              !.pc = IF v # verdict[r] THEN "bindwrite"
                     ELSE IF req[q].todo = {r} THEN "active" ELSE "bind"]
    OBVIOUS
  <2>7. /\ a.copy = c /\ a.todo = req[q].todo \ {r} /\ a.repo = IF v # verdict[r] THEN r ELSE None
        /\ a.pc = IF v # verdict[r] THEN "bindwrite" ELSE IF req[q].todo = {r} THEN "active" ELSE "bind"
        /\ a.owner = req[q].owner /\ a.oepoch = req[q].oepoch
    BY <1>q, <2>6 DEF RequestRows
  <2>8. a \in RequestRows
    BY ZenonT(40), <1>q, <2>5, <2>6 DEF RequestRows
  <2>9. RequestShape(a)
    BY <1>q, <2>2, <2>3, <2>5, <2>7 DEF RequestShape
  <2>10. req' = [req EXCEPT ![q] = a]
    BY <1>19, <2>1, <2>4, <2>6 DEF BindLoad
  <2> QED
    BY <1>e, <2>8, <2>9, <2>10
<1>20. ASSUME NEW q \in Requesters, NEW r \in Repos, NextCommandId(q, r)
      PROVE  RequestTypes'
  <2>1. /\ req[q] \in RequestRows /\ RequestShape(req[q]) /\ req[q].pc = "commission"
        /\ req[q].copy[r] \in Verdicts
    BY <1>20, <1>q DEF NextCommandId, RequestShape
  <2>2. PICK e \in 1 .. MaxEpoch : e = req[q].copy[r].bepoch
    BY <2>1 DEF Verdicts
  <2>3. Len(chain[r][e]) + 1 \in Nat
    BY LenProperties DEF Shapes, ChainTypes
  <2>4. PICK n \in Nat : n = Len(chain[r][req[q].copy[r].bepoch]) + 1
    BY <2>2, <2>3
  <2>5. PICK a : a = [req[q] EXCEPT !.pc = "insert", !.todo = @ \ {r}, !.repo = r,
                            !.index = Len(chain[r][req[q].copy[r].bepoch]) + 1]
    OBVIOUS
  <2>6. a = [req[q] EXCEPT !.pc = "insert", !.todo = @ \ {r}, !.repo = r, !.index = n]
    BY <2>4, <2>5
  <2>7. a \in RequestRows /\ RequestShape(a)
    BY ZenonT(40), <2>1, <2>6 DEF RequestRows, RequestShape
  <2>8. req' = [req EXCEPT ![q] = a]
    BY <1>20, <2>5 DEF NextCommandId
  <2> QED
    BY <1>e, <2>7, <2>8
<1>21. ASSUME NEW q \in Requesters, NEW r \in Repos, CommissionWait(q, r)
      PROVE  RequestTypes'
  <2>1. PICK a : a = [req[q] EXCEPT !.todo = @ \ {r}]
    OBVIOUS
  <2>2. a \in RequestRows /\ RequestShape(a)
    BY <1>21, <1>q, <1>n, <2>1 DEF CommissionWait, RequestRows, RequestShape
  <2>3. req' = [req EXCEPT ![q] = a]
    BY <1>21, <2>1 DEF CommissionWait
  <2> QED
    BY <1>e, <2>2, <2>3
<1>22. ASSUME NEW q \in Requesters, NEW r \in Repos, CommissionTimeout(q, r)
      PROVE  RequestTypes'
  <2>1. PICK i \in Nat : req' = [req EXCEPT ![q].pc = "timeout", ![q].todo = @ \ {r}, ![q].repo = r, ![q].index = i]
    <3>1. req[q].copy[r].bepoch \in 1 .. MaxEpoch
      BY <1>22 DEF CommissionTimeout, Shapes, RequestTypes, RequestShape, Verdicts
    <3>2. PICK p \in Seq(Commands) : p = chain[r][req[q].copy[r].bepoch]
      BY <3>1 DEF Shapes, ChainTypes
    <3>3. DOMAIN p = 1 .. Len(p)
      BY LenProperties
    <3>4. \A i \in DOMAIN p : i \in Nat
      BY <3>3
    <3> QED
      BY <1>22, <3>2, <3>4 DEF CommissionTimeout
  <2>2. PICK a : a = [req[q] EXCEPT !.pc = "timeout", !.todo = @ \ {r}, !.repo = r, !.index = i]
    OBVIOUS
  <2>3. a \in RequestRows /\ RequestShape(a)
    BY ZenonT(40), <1>22, <1>q, <1>n, <2>2 DEF CommissionTimeout, NextRepo, RequestRows, RequestShape
  <2>4. req' = [req EXCEPT ![q] = a]
    BY <2>1, <2>2
  <2> QED
    BY <1>e, <2>3, <2>4
<1>23. ASSUME NEW q \in Requesters, NEW r \in Repos, CheckServer(q, r)
      PROVE  RequestTypes'
  <2>1. Checked(req[q], r) \in RequestRows /\ RequestShape(Checked(req[q], r))
    <3>1. CASE req[q].todo = {r}
      BY <1>i, <3>1 DEF Checked
    <3>2. CASE req[q].todo # {r}
      BY <1>23, <1>q, <3>2 DEF CheckServer, Checked, RequestRows, RequestShape
    <3> QED
      BY <3>1, <3>2
  <2> QED
    BY <1>23, <1>e, <2>1 DEF CheckServer
<1>24. ASSUME NEW q \in Requesters, CommissionFails(q)
      PROVE  RequestTypes'
  <2>1. PICK a : a = [NextRepo(req[q]) EXCEPT !.todo = {}]
    OBVIOUS
  <2>2. a \in RequestRows /\ RequestShape(a)
    BY ZenonT(40), <1>24, <1>q, <1>n, <2>1 DEF CommissionFails, NextRepo, RequestRows, RequestShape
  <2>3. req' = [req EXCEPT ![q] = a]
    BY <1>24, <2>1 DEF CommissionFails
  <2> QED
    BY <1>e, <2>2, <2>3
<1>25. CASE BackendCrash
  BY <1>25, <1>g, <1>i DEF BackendCrash, RequestTypes
<1>26. CASE UNCHANGED vars
  BY <1>26, <1>u DEF vars
<1>27. ASSUME NEW q \in Requesters, InsertCommand(q)
      PROVE  RequestTypes'
  <2>1. PICK a : a = NextRepo(req[q])
    OBVIOUS
  <2>2. a \in RequestRows /\ RequestShape(a)
    BY ZenonT(40), <1>27, <1>q, <1>n, <2>1 DEF InsertCommand, NextRepo, RequestRows, RequestShape
  <2>3. req' = [req EXCEPT ![q] = a]
    BY <1>27, <2>1 DEF InsertCommand
  <2> QED
    BY <1>e, <2>2, <2>3
<1>28. ASSUME NEW q \in Requesters, BlockTimedOut(q)
      PROVE  RequestTypes'
  <2>1. PICK a : a = [req[q] EXCEPT !.pc = "supersede"]
    OBVIOUS
  <2>2. a \in RequestRows /\ RequestShape(a)
    BY ZenonT(40), <1>28, <1>q, <1>n, <2>1 DEF BlockTimedOut, NextRepo, RequestRows, RequestShape
  <2>3. req' = [req EXCEPT ![q] = a]
    BY <1>28, <2>1 DEF BlockTimedOut
  <2> QED
    BY <1>e, <2>2, <2>3
<1> QED
  BY <1>1, <1>2, <1>3, <1>4, <1>5, <1>6, <1>7, <1>8, <1>9, <1>10, <1>11,
     <1>12, <1>13, <1>14, <1>15, <1>16, <1>17, <1>18, <1>19, <1>20, <1>21,
     <1>22, <1>23, <1>24, <1>25, <1>26, <1>27, <1>28
     DEF Next, EdgeStep, SubmitStep, RequestStep

(* Rows that were bound stay. *)
LEMMA RowsBoundStep ==
  ASSUME Shapes, RowTypes', \A x \in Repos : verdict[x] \in Verdicts => verdict'[x] \in Verdicts,
         [Next]_vars
  PROVE  RowsBound'
<1> USE DEF gitVars, rowVars
<1>g. RowsBound /\ \A q \in Requesters : req[q] \in RequestRows
  BY DEF Shapes, RequestTypes
<1>s. \A x \in Repos : verdict[x] \in Verdicts => verdict'[x] \in Verdicts
  OBVIOUS
<1>u. ASSUME UNCHANGED req PROVE RowsBound'
  BY <1>g, <1>s, <1>u DEF RowsBound
<1>e. ASSUME NEW q \in Requesters, NEW a, req' = [req EXCEPT ![q] = a],
             \A r \in Repos :
               \/ /\ a.pc \in {"bind", "bindwrite"} /\ r \notin a.todo
                  /\ a.pc = "bindwrite" => r # a.repo
               \/ a.pc \in {"active", "commission", "insert", "timeout", "supersede"}
               => verdict'[r] \in Verdicts
      PROVE  RowsBound'
  <2>1. req'[q] = a /\ \A x \in Requesters : x # q => req'[x] = req[x]
    BY <1>e DEF Shapes, RequestTypes
  <2> QED
    BY <1>g, <1>s, <1>e, <2>1 DEF RowsBound
<1>1. ASSUME NEW s \in Sessions, NEW r \in Repos, LocalCommit(s, r)
      PROVE  RowsBound'
  BY <1>1, <1>u DEF LocalCommit
<1>2. ASSUME NEW h \in hooks, NEW known \in BOOLEAN, RegisterCommit(h, known)
      PROVE  RowsBound'
  BY <1>2, <1>u DEF RegisterCommit
<1>3. ASSUME NEW s \in Sessions, Takeover(s)
      PROVE  RowsBound'
  BY <1>3, <1>u DEF Takeover
<1>4. ASSUME NEW s \in Sessions, EdgeDies(s)
      PROVE  RowsBound'
  BY <1>4, <1>u DEF EdgeDies
<1>5. ASSUME NEW s \in Sessions, EdgeFetch(s)
      PROVE  RowsBound'
  BY <1>5, <1>u DEF EdgeFetch
<1>6. ASSUME NEW s \in Sessions, EdgeGate(s)
      PROVE  RowsBound'
  BY <1>6, <1>u DEF EdgeGate
<1>7. ASSUME NEW s \in Sessions, EdgePush(s)
      PROVE  RowsBound'
  BY <1>7, <1>u DEF EdgePush
<1>8. ASSUME NEW s \in Sessions, SubmitRejected(s)
      PROVE  RowsBound'
  BY <1>8, <1>u DEF SubmitRejected
<1>9. ASSUME NEW s \in Sessions, SubmitAdmitted(s)
      PROVE  RowsBound'
  BY <1>9, <1>u DEF SubmitAdmitted
<1>10. ASSUME NEW s \in Sessions, SubmitCommit(s)
      PROVE  RowsBound'
  BY <1>10, <1>u DEF SubmitCommit
<1>11. ASSUME NEW s \in Sessions, SubmitLoad(s)
      PROVE  RowsBound'
  BY <1>11, <1>u DEF SubmitLoad
<1>12. ASSUME NEW s \in Sessions, SubmitServerRead(s)
      PROVE  RowsBound'
  BY <1>12, <1>u DEF SubmitServerRead
<1>13. ASSUME NEW s \in Sessions, SubmitWrite(s)
      PROVE  RowsBound'
  BY <1>13, <1>u DEF SubmitWrite
<1>14. ASSUME NEW q \in Requesters, RequestBarrier(q)
      PROVE  RowsBound'
  <2>1. PICK a : a = [RequestIdle EXCEPT !.pc = "bind", !.todo = Repos, !.oepoch = oepoch]
    OBVIOUS
  <2>2. req' = [req EXCEPT ![q] = a]
    BY <1>14, <2>1 DEF RequestBarrier
  <2>3. \A r2 \in Repos :
          \/ /\ a.pc \in {"bind", "bindwrite"} /\ r2 \notin a.todo
             /\ a.pc = "bindwrite" => r2 # a.repo
          \/ a.pc \in {"active", "commission", "insert", "timeout", "supersede"}
          => verdict'[r2] \in Verdicts
    BY <1>14, <1>g, <1>s, <2>1 DEF RequestBarrier, RequestRows, RowsBound, RequestIdle
  <2> QED
    BY <1>e, <2>2, <2>3
<1>15. ASSUME NEW q \in Requesters, BindWrite(q)
      PROVE  RowsBound'
  <2>1. verdict'[req[q].repo] \in Verdicts
    BY <1>15 DEF BindWrite, Shapes, RowTypes, RequestTypes, RequestShape
  <2>2. PICK a : a = [req[q] EXCEPT !.pc = IF req[q].todo = {} THEN "active" ELSE "bind", !.repo = None]
    OBVIOUS
  <2>3. req' = [req EXCEPT ![q] = a]
    BY <1>15, <2>2 DEF BindWrite
  <2>4. \A r2 \in Repos :
          \/ /\ a.pc \in {"bind", "bindwrite"} /\ r2 \notin a.todo
             /\ a.pc = "bindwrite" => r2 # a.repo
          \/ a.pc \in {"active", "commission", "insert", "timeout", "supersede"}
          => verdict'[r2] \in Verdicts
    BY <1>15, <1>g, <1>s, <2>2, <2>1 DEF BindWrite, RequestRows, RowsBound, RequestIdle
  <2> QED
    BY <1>e, <2>3, <2>4
<1>16. ASSUME NEW q \in Requesters, ReadActive(q)
      PROVE  RowsBound'
  <2>1. PICK a : a = [req[q] EXCEPT !.pc = "commission", !.owner = owner, !.oepoch = oepoch,
          !.todo = {r \in Repos : req[q].copy[r].status # "passed"}]
    OBVIOUS
  <2>2. req' = [req EXCEPT ![q] = a]
    BY <1>16, <2>1 DEF ReadActive
  <2>3. \A r2 \in Repos :
          \/ /\ a.pc \in {"bind", "bindwrite"} /\ r2 \notin a.todo
             /\ a.pc = "bindwrite" => r2 # a.repo
          \/ a.pc \in {"active", "commission", "insert", "timeout", "supersede"}
          => verdict'[r2] \in Verdicts
    BY <1>16, <1>g, <1>s, <2>1 DEF ReadActive, RequestRows, RowsBound, RequestIdle
  <2> QED
    BY <1>e, <2>2, <2>3
<1>17. ASSUME NEW q \in Requesters, SupersedeCommand(q)
      PROVE  RowsBound'
  <2>1. PICK a : a = NextRepo(req[q])
    OBVIOUS
  <2>2. req' = [req EXCEPT ![q] = a]
    BY <1>17, <2>1 DEF SupersedeCommand
  <2>3. \A r2 \in Repos :
          \/ /\ a.pc \in {"bind", "bindwrite"} /\ r2 \notin a.todo
             /\ a.pc = "bindwrite" => r2 # a.repo
          \/ a.pc \in {"active", "commission", "insert", "timeout", "supersede"}
          => verdict'[r2] \in Verdicts
    BY <1>17, <1>g, <1>s, <2>1 DEF SupersedeCommand, NextRepo, RequestRows, RowsBound
  <2> QED
    BY <1>e, <2>2, <2>3
<1>18. ASSUME NEW q \in Requesters, ListVerdicts(q)
      PROVE  RowsBound'
  <2>1. Listed.pc \in {"idle", "check"}
    BY DEF Listed, RequestIdle
  <2> QED
    BY <1>18, <1>e, <2>1 DEF ListVerdicts
<1>19. ASSUME NEW q \in Requesters, NEW r \in Repos, BindLoad(q, r)
      PROVE  RowsBound'
  <2>1. PICK v : v = NextBinding(verdict[r], req[q].oepoch)
    OBVIOUS
  <2>2. v = verdict[r] => verdict[r] \in Verdicts
    <3>1. req'[q].copy[r] = v /\ r \notin req'[q].todo /\ req'[q].pc \in {"bind", "bindwrite", "active"}
      BY <1>19, <1>g, <2>1 DEF BindLoad, RequestRows, Shapes, RequestTypes
    <3>2. v \in Verdicts
      BY <3>1, RequestStepTypes DEF RequestTypes, RequestShape
    <3> QED
      BY <3>2
  <2>3. req[q].pc = "bind" /\ r \in req[q].todo
    BY <1>19 DEF BindLoad
  <2>4. PICK a : a = [req[q] EXCEPT !.copy[r] = v, !.todo = @ \ {r},
              !.repo = IF v # verdict[r] THEN r ELSE None,
              !.pc = IF v # verdict[r] THEN "bindwrite"
                     ELSE IF req[q].todo = {r} THEN "active" ELSE "bind"]
    OBVIOUS
  <2>5. /\ a.todo = req[q].todo \ {r} /\ a.repo = IF v # verdict[r] THEN r ELSE None
        /\ a.pc = IF v # verdict[r] THEN "bindwrite" ELSE IF req[q].todo = {r} THEN "active" ELSE "bind"
    BY <1>g, <2>4 DEF RequestRows
  <2>6. req' = [req EXCEPT ![q] = a]
    BY <1>19, <2>1, <2>4 DEF BindLoad
  <2>7. \A r2 \in Repos :
          \/ /\ a.pc \in {"bind", "bindwrite"} /\ r2 \notin a.todo
             /\ a.pc = "bindwrite" => r2 # a.repo
          \/ a.pc \in {"active", "commission", "insert", "timeout", "supersede"}
          => verdict'[r2] \in Verdicts
    BY <1>g, <1>s, <2>2, <2>3, <2>5 DEF RowsBound
  <2> QED
    BY <1>e, <2>6, <2>7
<1>20. ASSUME NEW q \in Requesters, NEW r \in Repos, NextCommandId(q, r)
      PROVE  RowsBound'
  <2>1. PICK a : a = [req[q] EXCEPT !.pc = "insert", !.todo = @ \ {r}, !.repo = r,
                            !.index = Len(chain[r][req[q].copy[r].bepoch]) + 1]
    OBVIOUS
  <2>2. req' = [req EXCEPT ![q] = a]
    BY <1>20, <2>1 DEF NextCommandId
  <2>3. \A r2 \in Repos :
          \/ /\ a.pc \in {"bind", "bindwrite"} /\ r2 \notin a.todo
             /\ a.pc = "bindwrite" => r2 # a.repo
          \/ a.pc \in {"active", "commission", "insert", "timeout", "supersede"}
          => verdict'[r2] \in Verdicts
    BY <1>20, <1>g, <1>s, <2>1 DEF NextCommandId, NextRepo, RequestRows, RowsBound
  <2> QED
    BY <1>e, <2>2, <2>3
<1>21. ASSUME NEW q \in Requesters, NEW r \in Repos, CommissionWait(q, r)
      PROVE  RowsBound'
  <2>1. PICK a : a = [req[q] EXCEPT !.todo = @ \ {r}]
    OBVIOUS
  <2>2. req' = [req EXCEPT ![q] = a]
    BY <1>21, <2>1 DEF CommissionWait
  <2>3. \A r2 \in Repos :
          \/ /\ a.pc \in {"bind", "bindwrite"} /\ r2 \notin a.todo
             /\ a.pc = "bindwrite" => r2 # a.repo
          \/ a.pc \in {"active", "commission", "insert", "timeout", "supersede"}
          => verdict'[r2] \in Verdicts
    BY <1>21, <1>g, <1>s, <2>1 DEF CommissionWait, RequestRows, RowsBound, RequestIdle
  <2> QED
    BY <1>e, <2>2, <2>3
<1>22. ASSUME NEW q \in Requesters, NEW r \in Repos, CommissionTimeout(q, r)
      PROVE  RowsBound'
  <2>1. PICK i \in Nat : req' = [req EXCEPT ![q].pc = "timeout", ![q].todo = @ \ {r}, ![q].repo = r, ![q].index = i]
    <3>1. req[q].copy[r].bepoch \in 1 .. MaxEpoch
      BY <1>22 DEF CommissionTimeout, Shapes, RequestTypes, RequestShape, Verdicts
    <3>2. PICK p \in Seq(Commands) : p = chain[r][req[q].copy[r].bepoch]
      BY <3>1 DEF Shapes, ChainTypes
    <3>3. DOMAIN p = 1 .. Len(p)
      BY LenProperties
    <3>4. \A i \in DOMAIN p : i \in Nat
      BY <3>3
    <3> QED
      BY <1>22, <3>2, <3>4 DEF CommissionTimeout
  <2>2. PICK a : a = [req[q] EXCEPT !.pc = "timeout", !.todo = @ \ {r}, !.repo = r, !.index = i]
    OBVIOUS
  <2>3. req' = [req EXCEPT ![q] = a]
    BY <2>1, <2>2
  <2>4. \A r2 \in Repos :
          \/ /\ a.pc \in {"bind", "bindwrite"} /\ r2 \notin a.todo
             /\ a.pc = "bindwrite" => r2 # a.repo
          \/ a.pc \in {"active", "commission", "insert", "timeout", "supersede"}
          => verdict'[r2] \in Verdicts
    BY <1>22, <1>g, <1>s, <2>2 DEF CommissionTimeout, NextRepo, RequestRows, RowsBound
  <2> QED
    BY <1>e, <2>3, <2>4
<1>23. ASSUME NEW q \in Requesters, NEW r \in Repos, CheckServer(q, r)
      PROVE  RowsBound'
  <2>1. Checked(req[q], r).pc \in {"idle", "check"}
    BY <1>23, <1>g DEF CheckServer, Checked, RequestIdle, RequestRows
  <2> QED
    BY <1>23, <1>e, <2>1 DEF CheckServer
<1>24. ASSUME NEW q \in Requesters, CommissionFails(q)
      PROVE  RowsBound'
  <2>1. PICK a : a = [NextRepo(req[q]) EXCEPT !.todo = {}]
    OBVIOUS
  <2>2. req' = [req EXCEPT ![q] = a]
    BY <1>24, <2>1 DEF CommissionFails
  <2>3. \A r2 \in Repos :
          \/ /\ a.pc \in {"bind", "bindwrite"} /\ r2 \notin a.todo
             /\ a.pc = "bindwrite" => r2 # a.repo
          \/ a.pc \in {"active", "commission", "insert", "timeout", "supersede"}
          => verdict'[r2] \in Verdicts
    BY <1>24, <1>g, <1>s, <2>1 DEF CommissionFails, NextRepo, RequestRows, RowsBound
  <2> QED
    BY <1>e, <2>2, <2>3
<1>25. CASE BackendCrash
  BY <1>25 DEF BackendCrash, RequestIdle, RowsBound
<1>26. CASE UNCHANGED vars
  BY <1>26, <1>u DEF vars
<1>27. ASSUME NEW q \in Requesters, InsertCommand(q)
      PROVE  RowsBound'
  <2>1. PICK a : a = NextRepo(req[q])
    OBVIOUS
  <2>2. req' = [req EXCEPT ![q] = a]
    BY <1>27, <2>1 DEF InsertCommand
  <2>3. \A r2 \in Repos :
          \/ /\ a.pc \in {"bind", "bindwrite"} /\ r2 \notin a.todo
             /\ a.pc = "bindwrite" => r2 # a.repo
          \/ a.pc \in {"active", "commission", "insert", "timeout", "supersede"}
          => verdict'[r2] \in Verdicts
    BY <1>27, <1>g, <1>s, <2>1 DEF InsertCommand, NextRepo, RequestRows, RowsBound
  <2> QED
    BY <1>e, <2>2, <2>3
<1>28. ASSUME NEW q \in Requesters, BlockTimedOut(q)
      PROVE  RowsBound'
  <2>1. PICK a : a = [req[q] EXCEPT !.pc = "supersede"]
    OBVIOUS
  <2>2. req' = [req EXCEPT ![q] = a]
    BY <1>28, <2>1 DEF BlockTimedOut
  <2>3. \A r2 \in Repos :
          \/ /\ a.pc \in {"bind", "bindwrite"} /\ r2 \notin a.todo
             /\ a.pc = "bindwrite" => r2 # a.repo
          \/ a.pc \in {"active", "commission", "insert", "timeout", "supersede"}
          => verdict'[r2] \in Verdicts
    BY <1>28, <1>g, <1>s, <2>1 DEF BlockTimedOut, NextRepo, RequestRows, RowsBound
  <2> QED
    BY <1>e, <2>2, <2>3
<1> QED
  BY <1>1, <1>2, <1>3, <1>4, <1>5, <1>6, <1>7, <1>8, <1>9, <1>10, <1>11,
     <1>12, <1>13, <1>14, <1>15, <1>16, <1>17, <1>18, <1>19, <1>20, <1>21,
     <1>22, <1>23, <1>24, <1>25, <1>26, <1>27, <1>28
     DEF Next, EdgeStep, SubmitStep, RequestStep

(* A remembered index stays one: chains grow, and what has ended stays so.    *)
LEMMA PlacedStays ==
  ASSUME ChainTypes, ChainTypes', ChainStep, NEW a \in RequestRows, RequestShape(a), Placed(a)
  PROVE  Placed(a)'
<1>1. CASE a.pc \notin {"insert", "timeout", "supersede"}
  BY <1>1 DEF Placed
<1>2. CASE a.pc \in {"insert", "timeout", "supersede"}
  <2>1. a.repo \in Repos /\ a.copy[a.repo] \in Verdicts
    BY <1>2 DEF RequestShape
  <2>2. PICK r \in Repos, e \in 1 .. MaxEpoch : r = a.repo /\ e = a.copy[a.repo].bepoch
    BY <2>1 DEF Verdicts
  <2>3. PICK p \in Seq(Commands), w \in Seq(Commands) : p = chain[r][e] /\ w = chain'[r][e]
    BY DEF ChainTypes
  <2>4. /\ DOMAIN p = 1 .. Len(p) /\ Len(p) \in Nat
        /\ DOMAIN w = 1 .. Len(w) /\ Len(w) \in Nat
    BY LenProperties
  <2>5. Len(p) <= Len(w) /\ \A i \in 1 .. Len(p) : ~IsOpen(p[i]) => w[i] = p[i]
    BY <2>3, <2>4 DEF ChainStep, Extends, Later
  <2>6. /\ a.pc = "insert" => /\ a.index \in 1 .. MaxRetryChain /\ a.index <= Len(p) + 1
                              /\ \A i \in 1 .. (a.index - 1) : ~IsOpen(p[i])
        /\ a.pc \in {"timeout", "supersede"} => a.index \in 1 .. Len(p)
    BY <2>2, <2>3 DEF Placed
  <2>7. /\ a.pc = "insert" => /\ a.index \in 1 .. MaxRetryChain /\ a.index <= Len(w) + 1
                              /\ \A i \in 1 .. (a.index - 1) : ~IsOpen(w[i])
        /\ a.pc \in {"timeout", "supersede"} => a.index \in 1 .. Len(w)
    <3>1. ASSUME a.pc = "insert"
          PROVE  /\ a.index \in 1 .. MaxRetryChain /\ a.index <= Len(w) + 1
                 /\ \A i \in 1 .. (a.index - 1) : ~IsOpen(w[i])
      <4>1. /\ a.index \in 1 .. MaxRetryChain /\ a.index <= Len(p) + 1
            /\ \A i \in 1 .. (a.index - 1) : ~IsOpen(p[i])
        BY <2>6, <3>1
      <4>2. a.index \in 1 .. MaxRetryChain /\ a.index <= Len(w) + 1
        BY <2>4, <2>5, <4>1, PushBarrierAssumption
      <4>3. ASSUME NEW i \in 1 .. (a.index - 1) PROVE ~IsOpen(w[i])
        <5>1. i \in 1 .. Len(p)
          BY <2>4, <4>1, PushBarrierAssumption
        <5> QED
          BY <2>5, <4>1, <5>1
      <4> QED
        BY <4>2, <4>3
    <3>2. a.pc \in {"timeout", "supersede"} => a.index \in 1 .. Len(w)
      BY <2>4, <2>5, <2>6
    <3> QED
      BY <3>1, <3>2
  <2> QED
    BY <2>2, <2>3, <2>7 DEF Placed
<1> QED
  BY <1>1, <1>2

(* Requests remember only such indices. *)
LEMMA PlacesStep ==
  ASSUME Shapes, ChainTypes', ChainStep, [Next]_vars
  PROVE  PlacesHold'
<1> USE DEF gitVars, rowVars
<1>g. \A q \in Requesters : req[q] \in RequestRows /\ RequestShape(req[q]) /\ Placed(req[q])
  BY DEF Shapes, RequestTypes, PlacesHold
<1>c. ChainTypes
  BY DEF Shapes
<1>k. ASSUME NEW q \in Requesters, req'[q] = req[q] PROVE Placed(req[q])'
  <2>1. PICK a \in RequestRows : a = req[q]
    BY <1>g
  <2>2. RequestShape(a) /\ Placed(a)
    BY <1>g, <2>1
  <2>3. Placed(a)'
    BY <1>c, <2>2, PlacedStays
  <2> QED
    BY <1>k, <2>1, <2>3 DEF Placed
<1>u. ASSUME UNCHANGED req PROVE PlacesHold'
  BY <1>k, <1>u DEF PlacesHold
<1>e. ASSUME NEW q \in Requesters, NEW a, req' = [req EXCEPT ![q] = a], Placed(a)'
      PROVE  PlacesHold'
  <2>1. req'[q] = a /\ \A x \in Requesters : x # q => req'[x] = req[x]
    BY <1>e DEF Shapes, RequestTypes
  <2>2. Placed(req[q])'
    BY <1>e, <2>1 DEF Placed
  <2> QED
    BY <1>k, <2>1, <2>2 DEF PlacesHold
<1>n. ASSUME NEW q \in Requesters, NEW a, req' = [req EXCEPT ![q] = a],
             a.pc \notin {"insert", "timeout", "supersede"}
      PROVE  PlacesHold'
  <2>1. Placed(a)'
    BY <1>n DEF Placed
  <2> QED
    BY <1>e, <1>n, <2>1
<1>1. ASSUME NEW s \in Sessions, NEW r \in Repos, LocalCommit(s, r)
      PROVE  PlacesHold'
  BY <1>1, <1>u DEF LocalCommit
<1>2. ASSUME NEW h \in hooks, NEW known \in BOOLEAN, RegisterCommit(h, known)
      PROVE  PlacesHold'
  BY <1>2, <1>u DEF RegisterCommit
<1>3. ASSUME NEW s \in Sessions, Takeover(s)
      PROVE  PlacesHold'
  BY <1>3, <1>u DEF Takeover
<1>4. ASSUME NEW s \in Sessions, EdgeDies(s)
      PROVE  PlacesHold'
  BY <1>4, <1>u DEF EdgeDies
<1>5. ASSUME NEW s \in Sessions, EdgeFetch(s)
      PROVE  PlacesHold'
  BY <1>5, <1>u DEF EdgeFetch
<1>6. ASSUME NEW s \in Sessions, EdgeGate(s)
      PROVE  PlacesHold'
  BY <1>6, <1>u DEF EdgeGate
<1>7. ASSUME NEW s \in Sessions, EdgePush(s)
      PROVE  PlacesHold'
  BY <1>7, <1>u DEF EdgePush
<1>8. ASSUME NEW s \in Sessions, SubmitRejected(s)
      PROVE  PlacesHold'
  BY <1>8, <1>u DEF SubmitRejected
<1>9. ASSUME NEW s \in Sessions, SubmitAdmitted(s)
      PROVE  PlacesHold'
  BY <1>9, <1>u DEF SubmitAdmitted
<1>10. ASSUME NEW s \in Sessions, SubmitCommit(s)
      PROVE  PlacesHold'
  BY <1>10, <1>u DEF SubmitCommit
<1>11. ASSUME NEW s \in Sessions, SubmitLoad(s)
      PROVE  PlacesHold'
  BY <1>11, <1>u DEF SubmitLoad
<1>12. ASSUME NEW s \in Sessions, SubmitServerRead(s)
      PROVE  PlacesHold'
  BY <1>12, <1>u DEF SubmitServerRead
<1>13. ASSUME NEW s \in Sessions, SubmitWrite(s)
      PROVE  PlacesHold'
  BY <1>13, <1>u DEF SubmitWrite
<1>14. ASSUME NEW q \in Requesters, RequestBarrier(q)
      PROVE  PlacesHold'
  <2>1. PICK a : a = [RequestIdle EXCEPT !.pc = "bind", !.todo = Repos, !.oepoch = oepoch]
    OBVIOUS
  <2>2. req' = [req EXCEPT ![q] = a]
    BY <1>14, <2>1 DEF RequestBarrier
  <2>3. a.pc \notin {"insert", "timeout", "supersede"}
    BY <1>14, <1>g, <2>1 DEF RequestBarrier, RequestRows, NextRepo, Listed, Checked, RequestIdle
  <2> QED
    BY <1>n, <2>2, <2>3
<1>15. ASSUME NEW q \in Requesters, BindWrite(q)
      PROVE  PlacesHold'
  <2>1. PICK a : a = [req[q] EXCEPT !.pc = IF req[q].todo = {} THEN "active" ELSE "bind", !.repo = None]
    OBVIOUS
  <2>2. req' = [req EXCEPT ![q] = a]
    BY <1>15, <2>1 DEF BindWrite
  <2>3. a.pc \notin {"insert", "timeout", "supersede"}
    BY <1>15, <1>g, <2>1 DEF BindWrite, RequestRows, NextRepo, Listed, Checked, RequestIdle
  <2> QED
    BY <1>n, <2>2, <2>3
<1>16. ASSUME NEW q \in Requesters, ReadActive(q)
      PROVE  PlacesHold'
  <2>1. PICK a : a = [req[q] EXCEPT !.pc = "commission", !.owner = owner, !.oepoch = oepoch,
                            !.todo = {r \in Repos : req[q].copy[r].status # "passed"}]
    OBVIOUS
  <2>2. req' = [req EXCEPT ![q] = a]
    BY <1>16, <2>1 DEF ReadActive
  <2>3. a.pc \notin {"insert", "timeout", "supersede"}
    BY <1>16, <1>g, <2>1 DEF ReadActive, RequestRows, NextRepo, Listed, Checked, RequestIdle
  <2> QED
    BY <1>n, <2>2, <2>3
<1>17. ASSUME NEW q \in Requesters, SupersedeCommand(q)
      PROVE  PlacesHold'
  <2>1. PICK a : a = NextRepo(req[q])
    OBVIOUS
  <2>2. req' = [req EXCEPT ![q] = a]
    BY <1>17, <2>1 DEF SupersedeCommand
  <2>3. a.pc \notin {"insert", "timeout", "supersede"}
    BY <1>17, <1>g, <2>1 DEF SupersedeCommand, RequestRows, NextRepo, Listed, Checked, RequestIdle
  <2> QED
    BY <1>n, <2>2, <2>3
<1>18. ASSUME NEW q \in Requesters, ListVerdicts(q)
      PROVE  PlacesHold'
  <2>1. PICK a : a = Listed
    OBVIOUS
  <2>2. req' = [req EXCEPT ![q] = a]
    BY <1>18, <2>1 DEF ListVerdicts
  <2>3. a.pc \notin {"insert", "timeout", "supersede"}
    BY <1>18, <1>g, <2>1 DEF ListVerdicts, RequestRows, NextRepo, Listed, Checked, RequestIdle
  <2> QED
    BY <1>n, <2>2, <2>3
<1>19. ASSUME NEW q \in Requesters, NEW r \in Repos, BindLoad(q, r)
      PROVE  PlacesHold'
  <2>1. PICK a : a = [req[q] EXCEPT !.copy[r] = NextBinding(verdict[r], req[q].oepoch), !.todo = @ \ {r},
              !.repo = IF NextBinding(verdict[r], req[q].oepoch) # verdict[r] THEN r ELSE None,
              !.pc = IF NextBinding(verdict[r], req[q].oepoch) # verdict[r] THEN "bindwrite"
                     ELSE IF req[q].todo = {r} THEN "active" ELSE "bind"]
    OBVIOUS
  <2>2. req' = [req EXCEPT ![q] = a]
    BY <1>19, <2>1 DEF BindLoad
  <2>3. a.pc \notin {"insert", "timeout", "supersede"}
    BY <1>19, <1>g, <2>1 DEF BindLoad, RequestRows, NextRepo, Listed, Checked, RequestIdle
  <2> QED
    BY <1>n, <2>2, <2>3
<1>20. ASSUME NEW q \in Requesters, NEW r \in Repos, NextCommandId(q, r)
      PROVE  PlacesHold'
  <2>1. req[q].copy[r] \in Verdicts /\ req[q].copy[r].bepoch \in 1 .. MaxEpoch
    BY <1>20, <1>g DEF NextCommandId, RequestShape, Verdicts
  <2>2. PICK e \in 1 .. MaxEpoch : e = req[q].copy[r].bepoch
    BY <2>1
  <2>3. PICK p \in Seq(Commands) : p = chain[r][e]
    BY <1>c DEF ChainTypes
  <2>4. DOMAIN p = 1 .. Len(p) /\ Len(p) \in Nat
    BY LenProperties
  <2>5. PICK a : a = [req[q] EXCEPT !.pc = "insert", !.todo = @ \ {r}, !.repo = r, !.index = Len(p) + 1]
    OBVIOUS
  <2>6. req' = [req EXCEPT ![q] = a] /\ UNCHANGED chain
    BY <1>20, <2>2, <2>3, <2>5 DEF NextCommandId
  <2>7. /\ a.pc = "insert" /\ a.repo = r /\ a.index = Len(p) + 1 /\ a.copy = req[q].copy
    BY <1>g, <2>5 DEF RequestRows
  <2>8. Len(p) < MaxRetryChain /\ \A i \in DOMAIN p : ~IsOpen(p[i])
    BY <1>20, <2>2, <2>3 DEF NextCommandId, MayCommission
  <2>9. /\ Len(p) + 1 \in 1 .. MaxRetryChain /\ Len(p) + 1 <= Len(p) + 1
        /\ \A i \in 1 .. (Len(p) + 1 - 1) : ~IsOpen(p[i])
    BY <2>4, <2>8, PushBarrierAssumption
  <2>10. Placed(a)'
    <3>1. chain'[a.repo][a.copy[a.repo].bepoch] = p
      BY <2>2, <2>3, <2>6, <2>7
    <3> QED
      BY <2>7, <2>9, <3>1 DEF Placed
  <2> QED
    BY <1>e, <2>6, <2>10
<1>21. ASSUME NEW q \in Requesters, NEW r \in Repos, CommissionWait(q, r)
      PROVE  PlacesHold'
  <2>1. PICK a : a = [req[q] EXCEPT !.todo = @ \ {r}]
    OBVIOUS
  <2>2. req' = [req EXCEPT ![q] = a]
    BY <1>21, <2>1 DEF CommissionWait
  <2>3. a.pc \notin {"insert", "timeout", "supersede"}
    BY <1>21, <1>g, <2>1 DEF CommissionWait, RequestRows, NextRepo, Listed, Checked, RequestIdle
  <2> QED
    BY <1>n, <2>2, <2>3
<1>22. ASSUME NEW q \in Requesters, NEW r \in Repos, CommissionTimeout(q, r)
      PROVE  PlacesHold'
  <2>1. req[q].copy[r] \in Verdicts /\ req[q].copy[r].bepoch \in 1 .. MaxEpoch
    BY <1>22, <1>g DEF CommissionTimeout, RequestShape, Verdicts
  <2>2. PICK e \in 1 .. MaxEpoch : e = req[q].copy[r].bepoch
    BY <2>1
  <2>3. PICK p \in Seq(Commands) : p = chain[r][e]
    BY <1>c DEF ChainTypes
  <2>4. DOMAIN p = 1 .. Len(p)
    BY LenProperties
  <2>5. PICK i \in 1 .. Len(p) : req' = [req EXCEPT ![q].pc = "timeout", ![q].todo = @ \ {r},
                                                   ![q].repo = r, ![q].index = i]
    BY <1>22, <2>2, <2>3, <2>4 DEF CommissionTimeout
  <2>6. PICK a : a = [req[q] EXCEPT !.pc = "timeout", !.todo = @ \ {r}, !.repo = r, !.index = i]
    OBVIOUS
  <2>7. req' = [req EXCEPT ![q] = a] /\ UNCHANGED chain
    BY <1>22, <2>5, <2>6 DEF CommissionTimeout
  <2>8. /\ a.pc = "timeout" /\ a.repo = r /\ a.index = i /\ a.copy = req[q].copy
    BY <1>g, <2>6 DEF RequestRows
  <2>9. Placed(a)'
    BY <2>2, <2>3, <2>7, <2>8 DEF Placed
  <2> QED
    BY <1>e, <2>7, <2>9
<1>23. ASSUME NEW q \in Requesters, NEW r \in Repos, CheckServer(q, r)
      PROVE  PlacesHold'
  <2>1. PICK a : a = Checked(req[q], r)
    OBVIOUS
  <2>2. req' = [req EXCEPT ![q] = a]
    BY <1>23, <2>1 DEF CheckServer
  <2>3. a.pc \notin {"insert", "timeout", "supersede"}
    BY <1>23, <1>g, <2>1 DEF CheckServer, RequestRows, NextRepo, Listed, Checked, RequestIdle
  <2> QED
    BY <1>n, <2>2, <2>3
<1>24. ASSUME NEW q \in Requesters, CommissionFails(q)
      PROVE  PlacesHold'
  <2>1. PICK a : a = [NextRepo(req[q]) EXCEPT !.todo = {}]
    OBVIOUS
  <2>2. req' = [req EXCEPT ![q] = a]
    BY <1>24, <2>1 DEF CommissionFails
  <2>3. a.pc \notin {"insert", "timeout", "supersede"}
    BY <1>24, <1>g, <2>1 DEF CommissionFails, RequestRows, NextRepo, Listed, Checked, RequestIdle
  <2> QED
    BY <1>n, <2>2, <2>3
<1>25. CASE BackendCrash
  BY <1>25 DEF BackendCrash, RequestIdle, PlacesHold, Placed
<1>26. CASE UNCHANGED vars
  BY <1>26, <1>u DEF vars
<1>27. ASSUME NEW q \in Requesters, InsertCommand(q)
      PROVE  PlacesHold'
  <2>1. PICK a : a = NextRepo(req[q])
    OBVIOUS
  <2>2. req' = [req EXCEPT ![q] = a]
    BY <1>27, <2>1 DEF InsertCommand
  <2>3. a.pc \notin {"insert", "timeout", "supersede"}
    BY <1>27, <1>g, <2>1 DEF InsertCommand, RequestRows, NextRepo, Listed, Checked, RequestIdle
  <2> QED
    BY <1>n, <2>2, <2>3
<1>28. ASSUME NEW q \in Requesters, BlockTimedOut(q)
      PROVE  PlacesHold'
  <2>1. PICK a : a = [req[q] EXCEPT !.pc = "supersede"]
    OBVIOUS
  <2>2. req' = [req EXCEPT ![q] = a] /\ UNCHANGED chain
    BY <1>28, <2>1 DEF BlockTimedOut
  <2>3. /\ a.pc = "supersede" /\ a.repo = req[q].repo /\ a.index = req[q].index
        /\ a.copy = req[q].copy
    BY <1>g, <2>1 DEF RequestRows
  <2>4. req[q].pc = "timeout" /\ Placed(req[q])
    BY <1>28, <1>g DEF BlockTimedOut
  <2>5. Placed(a)'
    BY <2>2, <2>3, <2>4 DEF Placed
  <2> QED
    BY <1>e, <2>2, <2>5
<1> QED
  BY <1>1, <1>2, <1>3, <1>4, <1>5, <1>6, <1>7, <1>8, <1>9, <1>10, <1>11,
     <1>12, <1>13, <1>14, <1>15, <1>16, <1>17, <1>18, <1>19, <1>20, <1>21,
     <1>22, <1>23, <1>24, <1>25, <1>26, <1>27, <1>28
     DEF Next, EdgeStep, SubmitStep, RequestStep

------------------------------------------------------------------------------
(* What edges and handlers have in hand stays true.                          *)

LEMMA KnownStays ==
  ASSUME ChainTypes, ChainTypes', ChainStep, NEW s, NEW k,
         k.repo \in Repos, k.bepoch \in 1 .. MaxEpoch, Known(s, k)
  PROVE  Known(s, k)' /\ Later(Cmd(k), Cmd(k)')
<1>1. /\ Extends(chain[k.repo][k.bepoch], chain'[k.repo][k.bepoch])
      /\ k.index \in 1 .. Len(chain[k.repo][k.bepoch])
  BY DEF ChainStep, Known
<1>2. chain[k.repo][k.bepoch] \in Seq(Commands) /\ chain'[k.repo][k.bepoch] \in Seq(Commands)
  BY DEF ChainTypes
<1>3. Len(chain[k.repo][k.bepoch]) \in Nat /\ Len(chain'[k.repo][k.bepoch]) \in Nat
  BY <1>2, LenProperties
<1>4. Len(chain[k.repo][k.bepoch]) <= Len(chain'[k.repo][k.bepoch])
      /\ Later(chain[k.repo][k.bepoch][k.index], chain'[k.repo][k.bepoch][k.index])
  BY <1>1 DEF Extends
<1>5. k.index \in 1 .. Len(chain'[k.repo][k.bepoch])
  BY SMTT(20), <1>1, <1>3, <1>4
<1> QED
  BY <1>4, <1>5 DEF Known, Cmd, Later

LEMMA SoundStays ==
  ASSUME ChainTypes, ChainTypes', ChainStep, \A x \in Repos : onServer[x] \subseteq onServer'[x],
         NEW s, NEW k, k.repo \in Repos, k.bepoch \in 1 .. MaxEpoch, Sound(s, k)
  PROVE  Sound(s, k)'
BY KnownStays DEF Sound

(* Everything in two queues is known, and sound. *)
Queues(s, todo, reports) ==
    /\ todo \in Seq(Keys) /\ reports \in Seq(Reports)
    /\ \A i \in DOMAIN todo : Known(s, todo[i])
    /\ \A i \in DOMAIN reports : Sound(s, reports[i])

LEMMA QueuesStay ==
  ASSUME ChainTypes, ChainTypes', ChainStep, \A x \in Repos : onServer[x] \subseteq onServer'[x],
         NEW s, NEW todo, NEW reports, Queues(s, todo, reports)
  PROVE  Queues(s, todo, reports)'
<1>1. todo \in Seq(Keys) /\ reports \in Seq(Reports)
  BY DEF Queues
<1>2. ASSUME NEW i \in DOMAIN todo PROVE Known(s, todo[i])'
  <2>1. todo[i] \in Keys /\ Known(s, todo[i])
    BY <1>1, LenProperties, ElementOfSeq DEF Queues
  <2> QED
    BY <2>1, KnownStays DEF Keys
<1>3. ASSUME NEW i \in DOMAIN reports PROVE Sound(s, reports[i])'
  <2>1. reports[i] \in Reports /\ Sound(s, reports[i])
    BY <1>1, LenProperties, ElementOfSeq DEF Queues
  <2> QED
    BY <2>1, SoundStays DEF Reports
<1> QED
  BY <1>1, <1>2, <1>3 DEF Queues

(* The edge loops: queues of commands and reports of their own session.       *)
LEMMA EdgeInvStep ==
  ASSUME Shapes, Shapes', ChainStep, \A x \in Repos : onServer[x] \subseteq onServer'[x],
         EdgeInv, [Next]_vars
  PROVE  EdgeInv'
<1> USE DEF gitVars, rowVars
<1>g. ChainTypes /\ ChainTypes' /\ EdgeTypes
  BY DEF Shapes
<1>q. ASSUME NEW s \in Sessions PROVE Queues(s, edge[s].todo, edge[s].reports)
  BY <1>g DEF EdgeTypes, EdgeRows, EdgeInv, Queues
<1>t. ASSUME NEW s \in Sessions, NEW todo, NEW reports, Queues(s, todo, reports)
      PROVE  Queues(s, todo, reports)'
  BY <1>g, <1>t, QueuesStay
(* The edge of s holds queues that are sound, the others what they held.      *)
<1>e. ASSUME NEW s \in Sessions, NEW e, edge' = [edge EXCEPT ![s] = e],
             Queues(s, e.todo, e.reports)'
      PROVE  EdgeInv'
  <2>1. edge'[s] = e /\ \A x \in Sessions : x # s => edge'[x] = edge[x]
    BY <1>e, <1>g DEF EdgeTypes
  <2>2. ASSUME NEW x \in Sessions
        PROVE  \E todo, reports : /\ todo = edge'[x].todo /\ reports = edge'[x].reports
                                  /\ Queues(x, todo, reports)'
    <3>1. CASE x = s
      BY <1>e, <2>1, <3>1
    <3>2. CASE x # s
      <4>1. PICK todo, reports : todo = edge[x].todo /\ reports = edge[x].reports
        OBVIOUS
      <4>2. Queues(x, todo, reports)'
        BY <1>q, <1>t, <4>1
      <4> QED
        BY <2>1, <3>2, <4>1, <4>2
    <3> QED
      BY <3>1, <3>2
  <2> QED
    BY <2>2 DEF EdgeInv, Queues
<1>u. ASSUME UNCHANGED edge PROVE EdgeInv'
  <2>1. ASSUME NEW x \in Sessions
        PROVE  \E todo, reports : /\ todo = edge'[x].todo /\ reports = edge'[x].reports
                                  /\ Queues(x, todo, reports)'
    <3>1. PICK todo, reports : todo = edge[x].todo /\ reports = edge[x].reports
      OBVIOUS
    <3>2. Queues(x, todo, reports)'
      BY <1>q, <1>t, <3>1
    <3> QED
      BY <1>u, <3>1, <3>2
  <2> QED
    BY <2>1 DEF EdgeInv, Queues
(* An answered edge has fewer reports. *)
<1>a. ASSUME NEW s \in Sessions, edge[s].pc \in {"report", "waiting"},
             edge' = [edge EXCEPT ![s] = Answer(edge[s])]
      PROVE  EdgeInv'
  <2>1. edge[s] \in EdgeRows /\ edge[s].reports \in Seq(Reports) /\ edge[s].reports # << >>
    BY <1>a, <1>g, ReportInHand
  <2>2. PICK e : e = Answer(edge[s])
    OBVIOUS
  <2>3. /\ e.todo = edge[s].todo \/ e.todo = << >>
        /\ e.reports = Tail(edge[s].reports) \/ e.reports = << >>
        /\ e \in EdgeRows
    BY <2>1, <2>2, AnswerShape
  <2>4. \A i \in DOMAIN e.todo : Known(s, e.todo[i])
    BY <1>q, <2>3 DEF Queues
  <2>5. \A i \in DOMAIN e.reports : Sound(s, e.reports[i])
    <3>1. PICK q \in Seq(Reports) : q = edge[s].reports /\ q # << >>
      BY <2>1
    <3>2. \A i \in DOMAIN q : Sound(s, q[i])
      BY <1>q, <3>1 DEF Queues
    <3>3. \A i \in DOMAIN Tail(q) : i + 1 \in DOMAIN q /\ Tail(q)[i] = q[i + 1]
      BY <3>1, FirstAndRest
    <3>4. \A i \in DOMAIN Tail(q) : Sound(s, Tail(q)[i])
      BY <3>2, <3>3
    <3>5. CASE e.reports = Tail(q)
      BY <3>4, <3>5
    <3>6. CASE e.reports = << >>
      BY <3>6
    <3> QED
      BY <2>3, <3>1, <3>5, <3>6
  <2>6. Queues(s, e.todo, e.reports)
    BY <2>3, <2>4, <2>5 DEF Queues, EdgeRows
  <2>7. Queues(s, e.todo, e.reports)'
    BY <1>t, <2>6
  <2> QED
    BY <1>a, <1>e, <2>2, <2>7
<1>p. ASSUME NEW s \in Sessions, Finish(s) PROVE EdgeInv'
  BY <1>a, <1>p, <1>u DEF Finish
(* The command in hand is reported. *)
<1>r. ASSUME NEW s \in Sessions, edge[s].pc \in {"gate", "push"},
             NEW outcome \in Outcomes, NEW head \in Heads \cup {NoHead},
             outcome = "pushed" => head \in onServer'[Head(edge[s].todo).repo],
             edge' = [edge EXCEPT ![s] = Reported(edge[s], outcome, head)]
      PROVE  EdgeInv'
  <2>1. /\ edge[s] \in EdgeRows /\ edge[s].todo \in Seq(Keys) /\ edge[s].todo # << >>
        /\ edge[s].reports \in Seq(Reports)
    BY <1>g, <1>r, CommandInHand DEF EdgeRows
  <2>2. PICK k \in Keys : k = Head(edge[s].todo)
    BY <2>1, FirstAndRest
  <2>3. PICK x : x = [repo |-> k.repo, bepoch |-> k.bepoch, index |-> k.index,
                      outcome |-> outcome, head |-> head]
    OBVIOUS
  <2>4. PICK e : e = Reported(edge[s], outcome, head)
    OBVIOUS
  <2>5. e \in EdgeRows /\ e.todo = Tail(edge[s].todo) /\ e.reports = Append(edge[s].reports, x)
    BY <1>r, <2>1, <2>2, <2>3, <2>4, ReportedShape
  <2>6. x \in Reports /\ x.repo = k.repo /\ x.bepoch = k.bepoch /\ x.index = k.index
        /\ x.outcome = outcome /\ x.head = head
    BY <2>3, PushBarrierAssumption DEF Keys, Reports
  <2>7. Known(s, k)
    BY <1>q, <2>1, <2>2, FirstAndRest DEF Queues
  <2>8. Known(s, k)'
    BY <1>g, <2>7, KnownStays DEF Keys
  <2>9. Sound(s, x)'
    BY <1>r, <2>2, <2>6, <2>8 DEF Sound, Known, Cmd
  <2>10. PICK todo, reports : todo = edge[s].todo /\ reports = edge[s].reports
    OBVIOUS
  <2>11. Queues(s, todo, reports)'
    BY <1>q, <1>t, <2>10
  <2>12. \A i \in DOMAIN e.todo : Known(s, e.todo[i])'
    BY <2>1, <2>5, <2>10, <2>11, FirstAndRest DEF Queues
  <2>13. \A i \in DOMAIN e.reports : Sound(s, e.reports[i])'
    BY <2>1, <2>5, <2>6, <2>9, <2>10, <2>11, OneMore DEF Queues
  <2>14. Queues(s, e.todo, e.reports)'
    BY <2>5, <2>12, <2>13 DEF Queues, EdgeRows
  <2> QED
    BY <1>e, <1>r, <2>4, <2>14
<1>i. ASSUME NEW s \in Sessions PROVE Queues(s, EdgeIdle.todo, EdgeIdle.reports)'
  BY DEF EdgeIdle, Queues
<1>1. ASSUME NEW s \in Sessions, NEW r \in Repos, LocalCommit(s, r)
      PROVE  EdgeInv'
  BY <1>1, <1>u DEF LocalCommit
<1>2. ASSUME NEW h \in hooks, NEW known \in BOOLEAN, RegisterCommit(h, known)
      PROVE  EdgeInv'
  BY <1>2, <1>u DEF RegisterCommit
<1>3. ASSUME NEW s \in Sessions, Takeover(s)
      PROVE  EdgeInv'
  BY <1>3, <1>u DEF Takeover
<1>4. ASSUME NEW s \in Sessions, EdgeDies(s)
      PROVE  EdgeInv'
  BY <1>4, <1>e, <1>i DEF EdgeDies
<1>5. ASSUME NEW s \in Sessions, EdgeFetch(s)
      PROVE  EdgeInv'
  <2>1. PICK order \in [1 .. Cardinality(OpenFor(s)) -> OpenFor(s)] :
          edge' = IF order = << >> THEN edge
                  ELSE [edge EXCEPT ![s] = [EdgeIdle EXCEPT !.pc = "gate", !.todo = order]]
    BY <1>5 DEF EdgeFetch
  <2>2. /\ order \in Seq(Keys) /\ DOMAIN order = 1 .. Cardinality(OpenFor(s))
        /\ \A i \in DOMAIN order : order[i] \in OpenFor(s) /\ order[i] \in Keys
    <3>1. order \in [1 .. Cardinality(OpenFor(s)) -> Keys]
      BY OpenForIsFinite
    <3> QED
      BY <3>1, OpenForIsFinite, FunctionIsSeq
  <2>3. ASSUME NEW k \in OpenFor(s) PROVE Known(s, k)
    <3>1. /\ k.repo \in Repos /\ k.bepoch \in 1 .. MaxEpoch /\ k.index \in 1 .. MaxRetryChain
          /\ k.index <= Len(chain[k.repo][k.bepoch])
          /\ chain[k.repo][k.bepoch][k.index].session = s
      BY DEF OpenFor
    <3>2. Len(chain[k.repo][k.bepoch]) \in Nat
      BY <1>g, <3>1, LenProperties DEF ChainTypes
    <3>3. k.index \in 1 .. Len(chain[k.repo][k.bepoch])
      BY <3>1, <3>2, PushBarrierAssumption
    <3> QED
      BY <3>1, <3>3 DEF Known, Cmd
  <2>4. PICK e : e = [EdgeIdle EXCEPT !.pc = "gate", !.todo = order]
    OBVIOUS
  <2>5. e.todo = order /\ e.reports = << >>
    BY <2>4 DEF EdgeIdle
  <2>6. Queues(s, e.todo, e.reports)
    BY <2>2, <2>3, <2>5 DEF Queues
  <2>7. Queues(s, e.todo, e.reports)'
    BY <1>t, <2>6
  <2> QED
    BY <1>e, <1>u, <2>1, <2>4, <2>7
<1>6. ASSUME NEW s \in Sessions, EdgeGate(s)
      PROVE  EdgeInv'
  <2>1. ASSUME owner = s, edge' = [edge EXCEPT ![s].pc = "push", ![s].head = local[s][Head(edge[s].todo).repo]]
        PROVE  EdgeInv'
    <3>1. PICK h : h = local[s][Head(edge[s].todo).repo]
      OBVIOUS
    <3>2. PICK e : e = [edge[s] EXCEPT !.pc = "push", !.head = h]
      OBVIOUS
    <3>3. e.todo = edge[s].todo /\ e.reports = edge[s].reports
      BY <1>g, <3>2 DEF EdgeTypes, EdgeRows
    <3>4. edge' = [edge EXCEPT ![s] = e]
      BY <2>1, <3>1, <3>2
    <3>5. Queues(s, e.todo, e.reports)'
      BY <1>q, <1>t, <3>3
    <3> QED
      BY <1>e, <3>4, <3>5
  <2> QED
    BY <1>6, <1>r, <2>1 DEF EdgeGate, Outcomes
<1>7. ASSUME NEW s \in Sessions, EdgePush(s)
      PROVE  EdgeInv'
  <2>1. PICK r \in Repos : r = Head(edge[s].todo).repo
    BY <1>7, <1>g, CommandInHand DEF EdgePush
  <2>2. PICK h \in Heads : h = edge[s].head
    BY <1>7, <1>g DEF EdgePush, EdgeTypes, EdgeShape
  <2>3. PICK moved : moved = (local[s][r] # h)
    OBVIOUS
  <2>4. CASE /\ remote' = [remote EXCEPT ![r] = h]
             /\ edge' = [edge EXCEPT ![s] = Reported(edge[s], PushReport(TRUE, moved), h)]
    <3>1. h \in onServer'[r]
      <4>1. remote'[r] = h
        BY <2>4 DEF Shapes, GitTypes
      <4>2. remote'[r] \in onServer'[r]
        BY DEF Shapes, GitTypes
      <4> QED
        BY <4>1, <4>2
    <3>2. PushReport(TRUE, moved) \in Outcomes
      BY DEF PushReport, Outcomes
    <3> QED
      BY <1>7, <1>r, <2>1, <2>4, <3>1, <3>2 DEF EdgePush
  <2>5. CASE edge' = [edge EXCEPT ![s] = Reported(edge[s], PushReport(FALSE, moved), h)]
    <3>1. PushReport(FALSE, moved) \in Outcomes /\ PushReport(FALSE, moved) # "pushed"
      BY DEF PushReport, Outcomes
    <3> QED
      BY <1>7, <1>r, <2>5, <3>1 DEF EdgePush
  <2> QED
    BY <1>7, <2>1, <2>2, <2>3, <2>4, <2>5 DEF EdgePush
<1>8. ASSUME NEW s \in Sessions, SubmitRejected(s)
      PROVE  EdgeInv'
  BY <1>8, <1>a DEF SubmitRejected
<1>9. ASSUME NEW s \in Sessions, SubmitAdmitted(s)
      PROVE  EdgeInv'
  <2>1. PICK e : e = [edge[s] EXCEPT !.pc = "waiting"]
    OBVIOUS
  <2>2. e.todo = edge[s].todo /\ e.reports = edge[s].reports
    BY <1>g, <2>1 DEF EdgeTypes, EdgeRows
  <2>3. edge' = [edge EXCEPT ![s] = e]
    BY <1>9, <2>1 DEF SubmitAdmitted
  <2>4. Queues(s, e.todo, e.reports)'
    BY <1>q, <1>t, <2>2
  <2> QED
    BY <1>e, <2>3, <2>4
<1>10. ASSUME NEW s \in Sessions, SubmitCommit(s)
      PROVE  EdgeInv'
  <2>1. CASE Finish(s)
    BY <1>p, <2>1
  <2>2. CASE UNCHANGED edge
    BY <1>u, <2>2
  <2> QED
    BY <1>10, <2>1, <2>2 DEF SubmitCommit
<1>11. ASSUME NEW s \in Sessions, SubmitLoad(s)
      PROVE  EdgeInv'
  <2>1. CASE Finish(s)
    BY <1>p, <2>1
  <2>2. CASE UNCHANGED edge
    BY <1>u, <2>2
  <2> QED
    BY <1>11, <2>1, <2>2 DEF SubmitLoad
<1>12. ASSUME NEW s \in Sessions, SubmitServerRead(s)
      PROVE  EdgeInv'
  BY <1>12, <1>u DEF SubmitServerRead
<1>13. ASSUME NEW s \in Sessions, SubmitWrite(s)
      PROVE  EdgeInv'
  BY <1>13, <1>p DEF SubmitWrite
<1>14. ASSUME NEW q \in Requesters, RequestBarrier(q)
      PROVE  EdgeInv'
  BY <1>14, <1>u DEF RequestBarrier
<1>15. ASSUME NEW q \in Requesters, BindWrite(q)
      PROVE  EdgeInv'
  BY <1>15, <1>u DEF BindWrite
<1>16. ASSUME NEW q \in Requesters, ReadActive(q)
      PROVE  EdgeInv'
  BY <1>16, <1>u DEF ReadActive
<1>17. ASSUME NEW q \in Requesters, SupersedeCommand(q)
      PROVE  EdgeInv'
  BY <1>17, <1>u DEF SupersedeCommand
<1>18. ASSUME NEW q \in Requesters, ListVerdicts(q)
      PROVE  EdgeInv'
  BY <1>18, <1>u DEF ListVerdicts
<1>19. ASSUME NEW q \in Requesters, NEW r \in Repos, BindLoad(q, r)
      PROVE  EdgeInv'
  BY <1>19, <1>u DEF BindLoad
<1>20. ASSUME NEW q \in Requesters, NEW r \in Repos, NextCommandId(q, r)
      PROVE  EdgeInv'
  BY <1>20, <1>u DEF NextCommandId
<1>21. ASSUME NEW q \in Requesters, NEW r \in Repos, CommissionWait(q, r)
      PROVE  EdgeInv'
  BY <1>21, <1>u DEF CommissionWait
<1>22. ASSUME NEW q \in Requesters, NEW r \in Repos, CommissionTimeout(q, r)
      PROVE  EdgeInv'
  BY <1>22, <1>u DEF CommissionTimeout
<1>23. ASSUME NEW q \in Requesters, NEW r \in Repos, CheckServer(q, r)
      PROVE  EdgeInv'
  BY <1>23, <1>u DEF CheckServer
<1>24. ASSUME NEW q \in Requesters, CommissionFails(q)
      PROVE  EdgeInv'
  BY <1>24, <1>u DEF CommissionFails
<1>25. CASE BackendCrash
  <2>1. ASSUME NEW x \in Sessions
        PROVE  \E todo, reports : /\ todo = edge'[x].todo /\ reports = edge'[x].reports
                                  /\ Queues(x, todo, reports)'
    <3>1. CASE edge[x].pc = "waiting"
      BY <1>25, <1>i, <3>1 DEF BackendCrash
    <3>2. CASE edge[x].pc # "waiting"
      <4>1. PICK todo, reports : todo = edge[x].todo /\ reports = edge[x].reports
        OBVIOUS
      <4>2. Queues(x, todo, reports)'
        BY <1>q, <1>t, <4>1
      <4> QED
        BY <1>25, <3>2, <4>1, <4>2 DEF BackendCrash
    <3> QED
      BY <3>1, <3>2
  <2> QED
    BY <2>1 DEF EdgeInv, Queues
<1>26. CASE UNCHANGED vars
  BY <1>26, <1>u DEF vars
<1>27. ASSUME NEW q \in Requesters, InsertCommand(q)
      PROVE  EdgeInv'
  BY <1>27, <1>u DEF InsertCommand
<1>28. ASSUME NEW q \in Requesters, BlockTimedOut(q)
      PROVE  EdgeInv'
  BY <1>28, <1>u DEF BlockTimedOut
<1> QED
  BY <1>1, <1>2, <1>3, <1>4, <1>5, <1>6, <1>7, <1>8, <1>9, <1>10, <1>11,
     <1>12, <1>13, <1>14, <1>15, <1>16, <1>17, <1>18, <1>19, <1>20, <1>21,
     <1>22, <1>23, <1>24, <1>25, <1>26, <1>27, <1>28
     DEF Next, EdgeStep, SubmitStep, RequestStep

(* The result handlers. *)
LEMMA SubmitInvStep ==
  ASSUME Shapes, Shapes', ChainStep, \A x \in Repos : onServer[x] \subseteq onServer'[x],
         EdgeInv, SubmitInv, [Next]_vars
  PROVE  SubmitInv'
<1> USE DEF gitVars, rowVars
<1>g. ChainTypes /\ ChainTypes' /\ SubmitTypes
  BY DEF Shapes
<1>q. \A s \in Sessions : SubmitHolds(submit[s], s)
                          /\ (submit[s].pc # "idle" => submit[s].report \in Reports)
  BY <1>g DEF SubmitTypes, SubmitShape, SubmitInv
<1>t. ASSUME NEW s \in Sessions, NEW h, SubmitHolds(h, s), h.pc # "idle" => h.report \in Reports
      PROVE  SubmitHolds(h, s)'
  <2>1. CASE h.pc = "idle"
    BY <2>1 DEF SubmitHolds
  <2>2. CASE h.pc # "idle"
    <3>1. PICK k \in Reports : k = h.report
      BY <1>t, <2>2
    <3>2. k.repo \in Repos /\ k.bepoch \in 1 .. MaxEpoch
      BY DEF Reports
    <3>3. Sound(s, k)
      BY <1>t, <2>2, <3>1 DEF SubmitHolds
    <3>4. Sound(s, k)' /\ Later(Cmd(k), Cmd(k)')
      BY <1>g, <3>2, <3>3, SoundStays, KnownStays DEF Sound
    <3>5. ~IsOpen(Cmd(k)) => Cmd(k)' = Cmd(k)
      BY <3>4 DEF Later
    <3>6. onServer[k.repo] \subseteq onServer'[k.repo]
      BY <3>2
    <3>7. ~IsOpen(Cmd(k)) => ~IsOpen(Cmd(k)')
      BY <3>5
    <3> QED
      BY <1>t, <2>2, <3>1, <3>4, <3>5, <3>6, <3>7 DEF SubmitHolds, IsOpen
  <2> QED
    BY <2>1, <2>2
<1>u. ASSUME UNCHANGED submit PROVE SubmitInv'
  <2>1. ASSUME NEW s \in Sessions PROVE \E h : h = submit'[s] /\ SubmitHolds(h, s)'
    <3>1. PICK h : h = submit[s]
      OBVIOUS
    <3> QED
      BY <1>q, <1>t, <1>u, <3>1
  <2> QED
    BY <2>1 DEF SubmitInv
<1>e. ASSUME NEW s \in Sessions, NEW h, submit' = [submit EXCEPT ![s] = h], SubmitHolds(h, s)'
      PROVE  SubmitInv'
  <2>1. submit'[s] = h /\ \A x \in Sessions : x # s => submit'[x] = submit[x]
    BY <1>g, <1>e DEF SubmitTypes
  <2>2. ASSUME NEW x \in Sessions PROVE \E w : w = submit'[x] /\ SubmitHolds(w, x)'
    <3>1. PICK w : w = submit[x]
      OBVIOUS
    <3>2. SubmitHolds(w, x)'
      BY <1>q, <1>t, <3>1
    <3> QED
      BY <1>e, <2>1, <3>1, <3>2
  <2> QED
    BY <2>2 DEF SubmitInv
<1>i. ASSUME NEW s \in Sessions PROVE SubmitHolds(SubmitIdle, s)'
  BY DEF SubmitHolds, SubmitIdle
<1>p. ASSUME NEW s \in Sessions, Finish(s) PROVE SubmitInv'
  BY <1>e, <1>i, <1>p DEF Finish
<1>1. ASSUME NEW s \in Sessions, NEW r \in Repos, LocalCommit(s, r)
      PROVE  SubmitInv'
  BY <1>1, <1>u DEF LocalCommit
<1>2. ASSUME NEW h \in hooks, NEW known \in BOOLEAN, RegisterCommit(h, known)
      PROVE  SubmitInv'
  BY <1>2, <1>u DEF RegisterCommit
<1>3. ASSUME NEW s \in Sessions, Takeover(s)
      PROVE  SubmitInv'
  BY <1>3, <1>u DEF Takeover
<1>4. ASSUME NEW s \in Sessions, EdgeDies(s)
      PROVE  SubmitInv'
  BY <1>4, <1>u DEF EdgeDies
<1>5. ASSUME NEW s \in Sessions, EdgeFetch(s)
      PROVE  SubmitInv'
  BY <1>5, <1>u DEF EdgeFetch
<1>6. ASSUME NEW s \in Sessions, EdgeGate(s)
      PROVE  SubmitInv'
  BY <1>6, <1>u DEF EdgeGate
<1>7. ASSUME NEW s \in Sessions, EdgePush(s)
      PROVE  SubmitInv'
  BY <1>7, <1>u DEF EdgePush
<1>8. ASSUME NEW s \in Sessions, SubmitRejected(s)
      PROVE  SubmitInv'
  BY <1>8, <1>u DEF SubmitRejected
<1>9. ASSUME NEW s \in Sessions, SubmitAdmitted(s)
      PROVE  SubmitInv'
  <2>1. PICK k \in Reports : k = Head(edge[s].reports)
    BY <1>9, ReportInHand DEF SubmitAdmitted, Shapes
  <2>2. Sound(s, k)
    BY <1>9, <2>1, ReportInHand DEF SubmitAdmitted, Shapes, EdgeInv
  <2>3. PICK h : h = [SubmitIdle EXCEPT !.pc = "commit", !.epoch = oepoch, !.report = k]
    OBVIOUS
  <2>4. h.pc = "commit" /\ h.report = k /\ h.server = NoHead
    BY <2>3 DEF SubmitIdle
  <2>5. SubmitHolds(h, s)
    BY <2>2, <2>4 DEF SubmitHolds
  <2>6. SubmitHolds(h, s)'
    BY <1>t, <2>4, <2>5
  <2>7. submit' = [submit EXCEPT ![s] = h]
    BY <1>9, <2>1, <2>3 DEF SubmitAdmitted
  <2> QED
    BY <1>e, <2>6, <2>7
<1>10. ASSUME NEW s \in Sessions, SubmitCommit(s)
      PROVE  SubmitInv'
  <2>1. CASE Finish(s)
    BY <1>p, <2>1
  <2>2. CASE CommitAdmitted(s) /\ submit' = [submit EXCEPT ![s].pc = "load"]
    <3>1. submit[s].pc = "commit" /\ submit[s] \in SubmitRows
      BY <1>10, <1>g DEF SubmitCommit, SubmitTypes
    <3>2. PICK k \in Reports : k = submit[s].report
      BY <1>q, <3>1
    <3>3. PICK h : h = [submit[s] EXCEPT !.pc = "load"]
      OBVIOUS
    <3>4. h.pc = "load" /\ h.report = k /\ h.server = submit[s].server
      BY <3>1, <3>2, <3>3 DEF SubmitRows
    <3>5. Sound(s, k) /\ h.server \in onServer[k.repo] \cup {NoHead}
      BY <1>q, <3>1, <3>2, <3>4 DEF SubmitHolds
    <3>6. Sound(s, k)' /\ h.server \in onServer'[k.repo] \cup {NoHead}
      BY <1>g, <3>5, SoundStays DEF Reports
    <3>e. EndsWith(submit[s].report)
      BY <1>10, <2>2, CommitEnds
    <3>7. /\ Cmd(k)'.status = IF k.outcome = "command_error" THEN "failed" ELSE "completed"
          /\ Cmd(k)'.outcome = k.outcome /\ Cmd(k)'.head = k.head
      BY <3>2, <3>e DEF EndsWith, Cmd
    <3>8. SubmitHolds(h, s)'
      BY <3>4, <3>6, <3>7 DEF SubmitHolds, IsOpen, OpenStatuses
    <3>9. submit' = [submit EXCEPT ![s] = h]
      BY <2>2, <3>3
    <3> QED
      BY <1>e, <3>8, <3>9
  <2> QED
    BY <1>10, <2>1, <2>2 DEF SubmitCommit
<1>11. ASSUME NEW s \in Sessions, SubmitLoad(s)
      PROVE  SubmitInv'
  <2>1. CASE Finish(s)
    BY <1>p, <2>1
  <2>2. CASE ~Finish(s)
    <3>1. PICK w \in {"write", "read"} : w = IF submit[s].report.outcome = "command_error" THEN "write" ELSE "read"
      OBVIOUS
    <3>2. PICK k \in Reports : k = submit[s].report
      BY <1>11, <1>q DEF SubmitLoad
    <3>3. PICK h : h = [submit[s] EXCEPT !.copy = verdict[k.repo], !.pc = w]
      OBVIOUS
    <3>4. submit' = [submit EXCEPT ![s] = h] /\ ~IsFenced(verdict[k.repo], k)
      BY <1>11, <2>2, <3>1, <3>2, <3>3 DEF SubmitLoad
    <3>5. /\ h.pc = w /\ h.report = k /\ h.server = submit[s].server /\ h.copy = verdict[k.repo]
      BY <1>g, <3>2, <3>3 DEF SubmitTypes, SubmitRows
    <3>6. h.copy.bepoch = k.bepoch /\ h.copy.oepoch = Cmd(k).oepoch
      BY <3>4, <3>5 DEF IsFenced
    <3>7. SubmitHolds(submit[s], s) /\ submit[s].pc = "load"
      BY <1>11, <1>q DEF SubmitLoad
    <3>8. SubmitHolds(h, s)
      BY <3>1, <3>2, <3>5, <3>6, <3>7 DEF SubmitHolds
    <3>9. SubmitHolds(h, s)'
      BY <1>t, <3>5, <3>8
    <3> QED
      BY <1>e, <3>4, <3>9
  <2> QED
    BY <2>1, <2>2
<1>12. ASSUME NEW s \in Sessions, SubmitServerRead(s)
      PROVE  SubmitInv'
  <2>1. PICK server \in {remote[submit[s].report.repo], NoHead} :
          submit' = [submit EXCEPT ![s].server = server, ![s].pc = "write"]
    BY <1>12 DEF SubmitServerRead
  <2>2. PICK k \in Reports : k = submit[s].report
    BY <1>12, <1>q DEF SubmitServerRead
  <2>3. server \in onServer[k.repo] \cup {NoHead}
    BY <2>1, <2>2 DEF Shapes, GitTypes, Reports
  <2>4. PICK h : h = [submit[s] EXCEPT !.server = server, !.pc = "write"]
    OBVIOUS
  <2>5. h.pc = "write" /\ h.report = k /\ h.server = server /\ h.copy = submit[s].copy
    BY <1>g, <2>2, <2>4 DEF SubmitTypes, SubmitRows
  <2>6. SubmitHolds(submit[s], s) /\ submit[s].pc = "read"
    BY <1>12, <1>q DEF SubmitServerRead
  <2>7. SubmitHolds(h, s)
    BY <2>2, <2>3, <2>5, <2>6 DEF SubmitHolds
  <2>8. SubmitHolds(h, s)'
    BY <1>t, <2>5, <2>7
  <2>9. submit' = [submit EXCEPT ![s] = h]
    BY <2>1, <2>4
  <2> QED
    BY <1>e, <2>8, <2>9
<1>13. ASSUME NEW s \in Sessions, SubmitWrite(s)
      PROVE  SubmitInv'
  BY <1>13, <1>p DEF SubmitWrite
<1>14. ASSUME NEW q \in Requesters, RequestBarrier(q)
      PROVE  SubmitInv'
  BY <1>14, <1>u DEF RequestBarrier
<1>15. ASSUME NEW q \in Requesters, BindWrite(q)
      PROVE  SubmitInv'
  BY <1>15, <1>u DEF BindWrite
<1>16. ASSUME NEW q \in Requesters, ReadActive(q)
      PROVE  SubmitInv'
  BY <1>16, <1>u DEF ReadActive
<1>17. ASSUME NEW q \in Requesters, SupersedeCommand(q)
      PROVE  SubmitInv'
  BY <1>17, <1>u DEF SupersedeCommand
<1>18. ASSUME NEW q \in Requesters, ListVerdicts(q)
      PROVE  SubmitInv'
  BY <1>18, <1>u DEF ListVerdicts
<1>19. ASSUME NEW q \in Requesters, NEW r \in Repos, BindLoad(q, r)
      PROVE  SubmitInv'
  BY <1>19, <1>u DEF BindLoad
<1>20. ASSUME NEW q \in Requesters, NEW r \in Repos, NextCommandId(q, r)
      PROVE  SubmitInv'
  BY <1>20, <1>u DEF NextCommandId
<1>21. ASSUME NEW q \in Requesters, NEW r \in Repos, CommissionWait(q, r)
      PROVE  SubmitInv'
  BY <1>21, <1>u DEF CommissionWait
<1>22. ASSUME NEW q \in Requesters, NEW r \in Repos, CommissionTimeout(q, r)
      PROVE  SubmitInv'
  BY <1>22, <1>u DEF CommissionTimeout
<1>23. ASSUME NEW q \in Requesters, NEW r \in Repos, CheckServer(q, r)
      PROVE  SubmitInv'
  BY <1>23, <1>u DEF CheckServer
<1>24. ASSUME NEW q \in Requesters, CommissionFails(q)
      PROVE  SubmitInv'
  BY <1>24, <1>u DEF CommissionFails
<1>25. CASE BackendCrash
  BY <1>25, <1>i DEF BackendCrash, SubmitInv
<1>26. CASE UNCHANGED vars
  BY <1>26, <1>u DEF vars
<1>27. ASSUME NEW q \in Requesters, InsertCommand(q)
      PROVE  SubmitInv'
  BY <1>27, <1>u DEF InsertCommand
<1>28. ASSUME NEW q \in Requesters, BlockTimedOut(q)
      PROVE  SubmitInv'
  BY <1>28, <1>u DEF BlockTimedOut
<1> QED
  BY <1>1, <1>2, <1>3, <1>4, <1>5, <1>6, <1>7, <1>8, <1>9, <1>10, <1>11,
     <1>12, <1>13, <1>14, <1>15, <1>16, <1>17, <1>18, <1>19, <1>20, <1>21,
     <1>22, <1>23, <1>24, <1>25, <1>26, <1>27, <1>28
     DEF Next, EdgeStep, SubmitStep, RequestStep

------------------------------------------------------------------------------
(* Type correctness.                                                         *)

(* The initial rows and processes. *)
LEMMA Initially == Init => Shapes /\ EdgeInv /\ SubmitInv
<1> SUFFICES ASSUME Init PROVE Shapes /\ EdgeInv /\ SubmitInv
  OBVIOUS
<1> USE PushBarrierAssumption
<1>1. owner \in Sessions /\ 1 \in Heads /\ 1 \in 1 .. (MaxTransfers + 1) /\ 0 \in 0 .. MaxFailures
  BY DEF Init, Heads
<1>2. GitTypes
  BY <1>1 DEF Init, GitTypes, NoHead
<1>3. ChainTypes
  BY DEF Init, ChainTypes
<1>4. RowTypes
  BY DEF Init, RowTypes
<1>5. EdgeTypes
  BY EdgeIdleShape DEF Init, EdgeTypes
<1>6. SubmitIdle \in SubmitRows /\ SubmitShape(SubmitIdle) /\ SubmitIdle.pc = "idle"
  BY DEF SubmitIdle, SubmitRows, SubmitShape
<1>7. SubmitTypes
  BY <1>6 DEF Init, SubmitTypes
<1>8. RequestIdle \in RequestRows /\ RequestShape(RequestIdle) /\ RequestIdle.pc = "idle"
  BY DEF RequestIdle, RequestRows, RequestShape
<1>9. RequestTypes /\ RowsBound /\ PlacesHold
  BY <1>8 DEF Init, RequestTypes, RowsBound, PlacesHold, Placed
<1>10. EdgeInv /\ SubmitInv
  BY <1>6 DEF Init, EdgeInv, EdgeIdle, SubmitInv, SubmitHolds
<1> QED
  BY <1>2, <1>3, <1>4, <1>5, <1>7, <1>9, <1>10 DEF Shapes

BarrierInv == Shapes /\ EdgeInv /\ SubmitInv

LEMMA BarrierStep ==
  ASSUME BarrierInv, [Next]_vars
  PROVE  /\ BarrierInv' /\ ChainStep
         /\ \A x \in Repos : onServer[x] \subseteq onServer'[x]
<1>1. Shapes /\ EdgeInv /\ SubmitInv
  BY DEF BarrierInv
<1>2. ChainTypes' /\ ChainStep
  BY <1>1, ChainsGoOn
<1>3. GitTypes' /\ \A x \in Repos : onServer[x] \subseteq onServer'[x]
  BY <1>1, GitStep
<1>4. RowTypes' /\ \A x \in Repos : verdict[x] \in Verdicts => verdict'[x] \in Verdicts
  BY <1>1, RowStep
<1>5. EdgeTypes'
  BY <1>1, EdgeStepTypes
<1>6. SubmitTypes'
  BY <1>1, SubmitStepTypes
<1>7. RequestTypes'
  BY <1>1, RequestStepTypes
<1>8. RowsBound'
  BY <1>1, <1>4, RowsBoundStep
<1>9. PlacesHold'
  BY <1>1, <1>2, PlacesStep
<1>10. Shapes'
  BY <1>2, <1>3, <1>4, <1>5, <1>6, <1>7, <1>8, <1>9 DEF Shapes
<1>11. EdgeInv'
  BY <1>1, <1>2, <1>3, <1>10, EdgeInvStep
<1>12. SubmitInv'
  BY <1>1, <1>2, <1>3, <1>10, SubmitInvStep
<1> QED
  BY <1>2, <1>3, <1>10, <1>11, <1>12 DEF BarrierInv

(* Every table has the rows the code writes to it, and every process what its *)
(* step needs.                                                               *)
THEOREM Shaped == Spec => []BarrierInv
<1>1. Init => BarrierInv
  BY Initially DEF BarrierInv
<1>2. BarrierInv /\ [Next]_vars => BarrierInv'
  BY BarrierStep
<1> QED
  BY <1>1, <1>2, PTL DEF Spec

(* Rows, commands, heads and counters keep their types whatever the bounds    *)
(* are; in particular no retry chain grows beyond its limit.                 *)
THEOREM TypeCorrect == Spec => []TypeOK
<1>1. BarrierInv => TypeOK
  <2> SUFFICES ASSUME BarrierInv PROVE TypeOK
    OBVIOUS
  <2>1. GitTypes /\ ChainTypes /\ RowTypes
    BY DEF BarrierInv, Shapes
  <2>2. ASSUME NEW r \in Repos, NEW e \in 1 .. MaxEpoch
        PROVE  /\ Len(chain[r][e]) <= MaxRetryChain
               /\ \A i \in DOMAIN chain[r][e] : chain[r][e][i] \in Commands
    BY <2>1, LenProperties, ElementOfSeq DEF ChainTypes
  <2> QED
    BY <2>1, <2>2 DEF TypeOK, GitTypes, RowTypes
<1> QED
  BY <1>1, Shaped, PTL

------------------------------------------------------------------------------
(* Who writes the rows and the chains.                                       *)

LEMMA VerdictWriters ==
  ASSUME [Next]_vars
  PROVE  \/ UNCHANGED verdict
         \/ \E h \in hooks, known \in BOOLEAN : RegisterCommit(h, known)
         \/ \E s \in Sessions : SubmitWrite(s)
         \/ \E q \in Requesters : BindWrite(q)
         \/ \E q \in Requesters : BlockTimedOut(q) \/ \E r \in Repos : CheckServer(q, r)
<1> DEFINE G == \/ UNCHANGED verdict
                \/ \E h \in hooks, known \in BOOLEAN : RegisterCommit(h, known)
                \/ \E s \in Sessions : SubmitWrite(s)
                \/ \E q \in Requesters : BindWrite(q)
                \/ \E q \in Requesters : BlockTimedOut(q) \/ \E r \in Repos : CheckServer(q, r)
<1> USE DEF gitVars, rowVars
<1>u. UNCHANGED verdict => G
  OBVIOUS
<1>1. ASSUME NEW s \in Sessions, NEW r \in Repos, LocalCommit(s, r)
      PROVE  G
  BY <1>1, <1>u DEF LocalCommit
<1>2. ASSUME NEW h \in hooks, NEW known \in BOOLEAN, RegisterCommit(h, known)
      PROVE  G
  BY <1>2
<1>3. ASSUME NEW s \in Sessions, Takeover(s)
      PROVE  G
  BY <1>3, <1>u DEF Takeover
<1>4. ASSUME NEW s \in Sessions, EdgeDies(s)
      PROVE  G
  BY <1>4, <1>u DEF EdgeDies
<1>5. ASSUME NEW s \in Sessions, EdgeFetch(s)
      PROVE  G
  BY <1>5, <1>u DEF EdgeFetch
<1>6. ASSUME NEW s \in Sessions, EdgeGate(s)
      PROVE  G
  BY <1>6, <1>u DEF EdgeGate
<1>7. ASSUME NEW s \in Sessions, EdgePush(s)
      PROVE  G
  BY <1>7, <1>u DEF EdgePush
<1>8. ASSUME NEW s \in Sessions, SubmitRejected(s)
      PROVE  G
  BY <1>8, <1>u DEF SubmitRejected
<1>9. ASSUME NEW s \in Sessions, SubmitAdmitted(s)
      PROVE  G
  BY <1>9, <1>u DEF SubmitAdmitted
<1>10. ASSUME NEW s \in Sessions, SubmitCommit(s)
      PROVE  G
  BY <1>10, <1>u DEF SubmitCommit
<1>11. ASSUME NEW s \in Sessions, SubmitLoad(s)
      PROVE  G
  BY <1>11, <1>u DEF SubmitLoad
<1>12. ASSUME NEW s \in Sessions, SubmitServerRead(s)
      PROVE  G
  BY <1>12, <1>u DEF SubmitServerRead
<1>13. ASSUME NEW s \in Sessions, SubmitWrite(s)
      PROVE  G
  BY <1>13
<1>14. ASSUME NEW q \in Requesters, RequestBarrier(q)
      PROVE  G
  BY <1>14, <1>u DEF RequestBarrier
<1>15. ASSUME NEW q \in Requesters, BindWrite(q)
      PROVE  G
  BY <1>15
<1>16. ASSUME NEW q \in Requesters, ReadActive(q)
      PROVE  G
  BY <1>16, <1>u DEF ReadActive
<1>17. ASSUME NEW q \in Requesters, SupersedeCommand(q)
      PROVE  G
  BY <1>17, <1>u DEF SupersedeCommand
<1>18. ASSUME NEW q \in Requesters, ListVerdicts(q)
      PROVE  G
  BY <1>18, <1>u DEF ListVerdicts
<1>19. ASSUME NEW q \in Requesters, NEW r \in Repos, BindLoad(q, r)
      PROVE  G
  BY <1>19, <1>u DEF BindLoad
<1>20. ASSUME NEW q \in Requesters, NEW r \in Repos, NextCommandId(q, r)
      PROVE  G
  BY <1>20, <1>u DEF NextCommandId
<1>21. ASSUME NEW q \in Requesters, NEW r \in Repos, CommissionWait(q, r)
      PROVE  G
  BY <1>21, <1>u DEF CommissionWait
<1>22. ASSUME NEW q \in Requesters, NEW r \in Repos, CommissionTimeout(q, r)
      PROVE  G
  BY <1>22, <1>u DEF CommissionTimeout
<1>23. ASSUME NEW q \in Requesters, NEW r \in Repos, CheckServer(q, r)
      PROVE  G
  BY <1>23
<1>24. ASSUME NEW q \in Requesters, CommissionFails(q)
      PROVE  G
  BY <1>24, <1>u DEF CommissionFails
<1>25. CASE BackendCrash
  BY <1>25, <1>u DEF BackendCrash
<1>26. CASE UNCHANGED vars
  BY <1>26, <1>u DEF vars
<1>27. ASSUME NEW q \in Requesters, InsertCommand(q)
      PROVE  G
  BY <1>27, <1>u DEF InsertCommand
<1>28. ASSUME NEW q \in Requesters, BlockTimedOut(q)
      PROVE  G
  BY <1>28
<1> QED
  BY <1>1, <1>2, <1>3, <1>4, <1>5, <1>6, <1>7, <1>8, <1>9, <1>10, <1>11,
     <1>12, <1>13, <1>14, <1>15, <1>16, <1>17, <1>18, <1>19, <1>20, <1>21,
     <1>22, <1>23, <1>24, <1>25, <1>26, <1>27, <1>28
     DEF Next, EdgeStep, SubmitStep, RequestStep

LEMMA ChainWriters ==
  ASSUME [Next]_vars
  PROVE  \/ UNCHANGED chain
         \/ \E s \in Sessions : EdgeFetch(s)
         \/ \E s \in Sessions : SubmitCommit(s) /\ CommitAdmitted(s)
         \/ \E q \in Requesters : SupersedeCommand(q)
         \/ \E q \in Requesters : InsertCommand(q)
<1> DEFINE G == \/ UNCHANGED chain
                \/ \E s \in Sessions : EdgeFetch(s)
                \/ \E s \in Sessions : SubmitCommit(s) /\ CommitAdmitted(s)
                \/ \E q \in Requesters : SupersedeCommand(q)
                \/ \E q \in Requesters : InsertCommand(q)
<1> USE DEF gitVars, rowVars
<1>u. UNCHANGED chain => G
  OBVIOUS
<1>1. ASSUME NEW s \in Sessions, NEW r \in Repos, LocalCommit(s, r)
      PROVE  G
  BY <1>1, <1>u DEF LocalCommit
<1>2. ASSUME NEW h \in hooks, NEW known \in BOOLEAN, RegisterCommit(h, known)
      PROVE  G
  BY <1>2, <1>u DEF RegisterCommit
<1>3. ASSUME NEW s \in Sessions, Takeover(s)
      PROVE  G
  BY <1>3, <1>u DEF Takeover
<1>4. ASSUME NEW s \in Sessions, EdgeDies(s)
      PROVE  G
  BY <1>4, <1>u DEF EdgeDies
<1>5. ASSUME NEW s \in Sessions, EdgeFetch(s)
      PROVE  G
  BY <1>5
<1>6. ASSUME NEW s \in Sessions, EdgeGate(s)
      PROVE  G
  BY <1>6, <1>u DEF EdgeGate
<1>7. ASSUME NEW s \in Sessions, EdgePush(s)
      PROVE  G
  BY <1>7, <1>u DEF EdgePush
<1>8. ASSUME NEW s \in Sessions, SubmitRejected(s)
      PROVE  G
  BY <1>8, <1>u DEF SubmitRejected
<1>9. ASSUME NEW s \in Sessions, SubmitAdmitted(s)
      PROVE  G
  BY <1>9, <1>u DEF SubmitAdmitted
<1>10. ASSUME NEW s \in Sessions, SubmitCommit(s)
      PROVE  G
  <2>1. CASE CommitAdmitted(s)
    BY <1>10, <2>1
  <2>2. CASE ~CommitAdmitted(s)
    BY <1>10, <1>u, <2>2 DEF SubmitCommit
  <2> QED
    BY <2>1, <2>2
<1>11. ASSUME NEW s \in Sessions, SubmitLoad(s)
      PROVE  G
  BY <1>11, <1>u DEF SubmitLoad
<1>12. ASSUME NEW s \in Sessions, SubmitServerRead(s)
      PROVE  G
  BY <1>12, <1>u DEF SubmitServerRead
<1>13. ASSUME NEW s \in Sessions, SubmitWrite(s)
      PROVE  G
  BY <1>13, <1>u DEF SubmitWrite
<1>14. ASSUME NEW q \in Requesters, RequestBarrier(q)
      PROVE  G
  BY <1>14, <1>u DEF RequestBarrier
<1>15. ASSUME NEW q \in Requesters, BindWrite(q)
      PROVE  G
  BY <1>15, <1>u DEF BindWrite
<1>16. ASSUME NEW q \in Requesters, ReadActive(q)
      PROVE  G
  BY <1>16, <1>u DEF ReadActive
<1>17. ASSUME NEW q \in Requesters, SupersedeCommand(q)
      PROVE  G
  BY <1>17
<1>18. ASSUME NEW q \in Requesters, ListVerdicts(q)
      PROVE  G
  BY <1>18, <1>u DEF ListVerdicts
<1>19. ASSUME NEW q \in Requesters, NEW r \in Repos, BindLoad(q, r)
      PROVE  G
  BY <1>19, <1>u DEF BindLoad
<1>20. ASSUME NEW q \in Requesters, NEW r \in Repos, NextCommandId(q, r)
      PROVE  G
  BY <1>20, <1>u DEF NextCommandId
<1>21. ASSUME NEW q \in Requesters, NEW r \in Repos, CommissionWait(q, r)
      PROVE  G
  BY <1>21, <1>u DEF CommissionWait
<1>22. ASSUME NEW q \in Requesters, NEW r \in Repos, CommissionTimeout(q, r)
      PROVE  G
  BY <1>22, <1>u DEF CommissionTimeout
<1>23. ASSUME NEW q \in Requesters, NEW r \in Repos, CheckServer(q, r)
      PROVE  G
  BY <1>23, <1>u DEF CheckServer
<1>24. ASSUME NEW q \in Requesters, CommissionFails(q)
      PROVE  G
  BY <1>24, <1>u DEF CommissionFails
<1>25. CASE BackendCrash
  BY <1>25, <1>u DEF BackendCrash
<1>26. CASE UNCHANGED vars
  BY <1>26, <1>u DEF vars
<1>27. ASSUME NEW q \in Requesters, InsertCommand(q)
      PROVE  G
  BY <1>27
<1>28. ASSUME NEW q \in Requesters, BlockTimedOut(q)
      PROVE  G
  BY <1>28, <1>u DEF BlockTimedOut
<1> QED
  BY <1>1, <1>2, <1>3, <1>4, <1>5, <1>6, <1>7, <1>8, <1>9, <1>10, <1>11,
     <1>12, <1>13, <1>14, <1>15, <1>16, <1>17, <1>18, <1>19, <1>20, <1>21,
     <1>22, <1>23, <1>24, <1>25, <1>26, <1>27, <1>28
     DEF Next, EdgeStep, SubmitStep, RequestStep

------------------------------------------------------------------------------
(* A verdict that passes.                                                    *)

Passed(r) == verdict[r] # None /\ verdict[r].status = "passed"

(* The head a row v of repo r passed with was on the server, and a command of *)
(* its boundary epoch and its ownership epoch reported it pushed.            *)
Earned(r, v) ==
    /\ v.head \in onServer[r]
    /\ \E i \in DOMAIN chain[r][v.bepoch] :
          LET c == chain[r][v.bepoch][i]
          IN  /\ c.status = "completed" /\ c.outcome = "pushed"
              /\ c.head = v.head /\ c.oepoch = v.oepoch

PassIsEarned == \A r \in Repos : Passed(r) => Earned(r, verdict[r])

(* What a row has earned it keeps: ended commands do not change and the server *)
(* history grows.                                                            *)
LEMMA EarnedStays ==
  ASSUME ChainTypes, ChainTypes', ChainStep, \A x \in Repos : onServer[x] \subseteq onServer'[x],
         NEW r \in Repos, NEW v \in Verdicts, Earned(r, v)
  PROVE  Earned(r, v)'
<1>1. v.bepoch \in 1 .. MaxEpoch
  BY DEF Verdicts
<1>2. PICK i \in DOMAIN chain[r][v.bepoch] :
        /\ chain[r][v.bepoch][i].status = "completed" /\ chain[r][v.bepoch][i].outcome = "pushed"
        /\ chain[r][v.bepoch][i].head = v.head /\ chain[r][v.bepoch][i].oepoch = v.oepoch
  BY DEF Earned
<1>3. chain[r][v.bepoch] \in Seq(Commands) /\ chain'[r][v.bepoch] \in Seq(Commands)
  BY <1>1 DEF ChainTypes
<1>4. /\ DOMAIN chain[r][v.bepoch] = 1 .. Len(chain[r][v.bepoch]) /\ Len(chain[r][v.bepoch]) \in Nat
      /\ DOMAIN chain'[r][v.bepoch] = 1 .. Len(chain'[r][v.bepoch]) /\ Len(chain'[r][v.bepoch]) \in Nat
  BY <1>3, LenProperties
<1>5. /\ Len(chain[r][v.bepoch]) <= Len(chain'[r][v.bepoch])
      /\ Later(chain[r][v.bepoch][i], chain'[r][v.bepoch][i])
  BY <1>1, <1>4 DEF ChainStep, Extends
<1>6. ~IsOpen(chain[r][v.bepoch][i])
  BY <1>2 DEF IsOpen, OpenStatuses
<1>7. i \in DOMAIN chain'[r][v.bepoch] /\ chain'[r][v.bepoch][i] = chain[r][v.bepoch][i]
  BY <1>4, <1>5, <1>6 DEF Later
<1> QED
  BY <1>2, <1>7 DEF Earned

(* The one step that lets a row pass: the server ref was read at the reported  *)
(* head, and the result fence let only a command of the row's epochs through. *)
LEMMA WriteIsEarned ==
  ASSUME BarrierInv, BarrierInv', NEW s \in Sessions, SubmitWrite(s), PassIsEarned,
         ChainStep, \A x \in Repos : onServer[x] \subseteq onServer'[x]
  PROVE  PassIsEarned'
<1>1. PICK k \in Reports : k = submit[s].report
  BY DEF BarrierInv, Shapes, SubmitTypes, SubmitShape, SubmitWrite
<1>2. PICK copy \in Verdicts : copy = submit[s].copy
  BY DEF BarrierInv, Shapes, SubmitTypes, SubmitShape, SubmitWrite
<1>3. /\ k.repo \in Repos /\ k.bepoch \in 1 .. MaxEpoch
  BY DEF Reports
<1>4. SubmitHolds(submit[s], s) /\ submit[s].pc = "write"
  BY DEF BarrierInv, SubmitInv, SubmitWrite
<1>5. /\ Known(s, k) /\ (k.outcome = "pushed" => Cmd(k).status = "completed")
      /\ Cmd(k).outcome = k.outcome /\ Cmd(k).head = k.head
      /\ submit[s].server \in onServer[k.repo] \cup {NoHead}
      /\ copy.bepoch = k.bepoch /\ copy.oepoch = Cmd(k).oepoch
  BY <1>1, <1>2, <1>4 DEF SubmitHolds, Sound
<1>6. PICK v : v = [copy EXCEPT !.head = k.head,
                                !.status = IF Verified(k, submit[s].server) THEN "passed" ELSE "blocked_backlog"]
  OBVIOUS
<1>7. /\ v.head = k.head /\ v.bepoch = k.bepoch /\ v.oepoch = Cmd(k).oepoch
      /\ v.status = "passed" <=> Verified(k, submit[s].server)
  BY <1>2, <1>5, <1>6 DEF Verdicts
<1>8. verdict' = [verdict EXCEPT ![k.repo] = v] /\ UNCHANGED <<chain, onServer>>
  BY <1>1, <1>2, <1>6 DEF SubmitWrite, gitVars
<1>9. verdict'[k.repo] = v /\ \A r \in Repos : r # k.repo => verdict'[r] = verdict[r]
  BY <1>3, <1>8 DEF BarrierInv, Shapes, RowTypes
<1>10. v.status = "passed" => Earned(k.repo, v)
  <2>1. SUFFICES ASSUME Verified(k, submit[s].server) PROVE Earned(k.repo, v)
    BY <1>7
  <2>2. k.outcome = "pushed" /\ k.head \in onServer[k.repo]
    BY <1>5, <2>1 DEF Verified
  <2>3. k.index \in DOMAIN chain[k.repo][k.bepoch]
    BY <1>3, <1>5, LenProperties DEF BarrierInv, Shapes, ChainTypes, Known
  <2> QED
    BY <1>5, <1>7, <2>2, <2>3 DEF Earned, Cmd
<1>11. ASSUME NEW r \in Repos, Passed(r)' PROVE Earned(r, verdict[r])'
  <2>1. CASE r = k.repo
    <3>1. Earned(k.repo, v) /\ verdict'[r] = v
      BY <1>9, <1>10, <1>11, <2>1 DEF Passed
    <3> QED
      BY <1>8, <2>1, <3>1 DEF Earned
  <2>2. CASE r # k.repo
    <3>1. Earned(r, verdict[r]) /\ verdict'[r] = verdict[r]
      BY <1>9, <1>11, <2>2 DEF PassIsEarned, Passed
    <3> QED
      BY <1>8, <3>1 DEF Earned
  <2> QED
    BY <2>1, <2>2
<1> QED
  BY <1>11 DEF PassIsEarned

LEMMA PassStep ==
  ASSUME BarrierInv, [Next]_vars, PassIsEarned
  PROVE  PassIsEarned'
<1>1. /\ BarrierInv' /\ ChainStep /\ \A x \in Repos : onServer[x] \subseteq onServer'[x]
  BY BarrierStep
<1>2. /\ ChainTypes /\ ChainTypes' /\ RowTypes /\ RowTypes' /\ RequestTypes
  BY <1>1 DEF BarrierInv, Shapes
(* A row that passes in the next state passed before, unchanged. *)
<1>3. ASSUME \A r \in Repos : Passed(r)' => verdict'[r] = verdict[r]
      PROVE  PassIsEarned'
  <2>1. SUFFICES ASSUME NEW r \in Repos, Passed(r)' PROVE Earned(r, verdict[r])'
    BY DEF PassIsEarned
  <2>2. verdict'[r] = verdict[r] /\ Passed(r)
    BY <1>3, <2>1 DEF Passed
  <2>3. PICK v \in Verdicts : v = verdict[r]
    BY <1>2, <2>2 DEF RowTypes, Passed
  <2>4. Earned(r, v)
    BY <2>2, <2>3 DEF PassIsEarned
  <2>5. Earned(r, v)'
    BY <1>1, <1>2, <2>4, EarnedStays
  <2> QED
    BY <2>2, <2>3, <2>5 DEF Earned
<1>4. CASE UNCHANGED verdict
  BY <1>3, <1>4
<1>5. ASSUME NEW h \in hooks, NEW known \in BOOLEAN, RegisterCommit(h, known)
      PROVE  PassIsEarned'
  <2>1. ASSUME NEW r \in Repos
        PROVE  \/ verdict'[r] = verdict[r]
               \/ verdict'[r].status = "superseded"
    BY ZenonT(40), <1>2, <1>5 DEF RegisterCommit, RowTypes, Verdicts
  <2> QED
    BY <1>3, <2>1 DEF Passed
<1>6. ASSUME NEW s \in Sessions, SubmitWrite(s)
      PROVE  PassIsEarned'
  BY <1>1, <1>6, WriteIsEarned
<1>7. ASSUME NEW q \in Requesters, BindWrite(q)
      PROVE  PassIsEarned'
  <2>1. req[q].repo \in Repos /\ req[q].copy[req[q].repo].status = "pending"
    BY <1>2, <1>7 DEF BindWrite, RequestTypes, RequestShape
  <2>2. verdict' = [verdict EXCEPT ![req[q].repo] = req[q].copy[req[q].repo]]
    BY <1>7 DEF BindWrite
  <2>3. \A r \in Repos : verdict'[r] = verdict[r] \/ verdict'[r].status = "pending"
    BY <1>2, <2>1, <2>2 DEF RowTypes
  <2> QED
    BY <1>3, <2>3 DEF Passed
<1>8. ASSUME NEW q \in Requesters, BlockTimedOut(q)
      PROVE  PassIsEarned'
  <2>1. PICK r \in Repos, copy \in Verdicts : r = req[q].repo /\ copy = req[q].copy[r]
    BY <1>2, <1>8 DEF BlockTimedOut, RequestTypes, RequestShape
  <2>2. PICK t : t = [copy EXCEPT !.status = "blocked_backlog", !.head = NoHead]
    OBVIOUS
  <2>3. verdict' = [verdict EXCEPT ![r] = t] /\ t.status = "blocked_backlog"
    BY <1>8, <2>1, <2>2 DEF BlockTimedOut, Verdicts
  <2>4. \A x \in Repos : verdict'[x] = verdict[x] \/ verdict'[x].status = "blocked_backlog"
    BY <1>2, <2>3 DEF RowTypes
  <2> QED
    BY <1>3, <2>4 DEF Passed
<1>9. ASSUME NEW q \in Requesters, NEW r \in Repos, CheckServer(q, r)
      PROVE  PassIsEarned'
  <2>1. PICK copy \in Verdicts : copy = req[q].copy[r]
    BY <1>2, <1>9 DEF CheckServer, RequestTypes, RequestShape
  <2>2. PICK t : t = [copy EXCEPT !.status = "blocked_backlog"]
    OBVIOUS
  <2>3. t.status = "blocked_backlog"
    BY <2>2 DEF Verdicts
  <2>4. UNCHANGED verdict \/ verdict' = [verdict EXCEPT ![r] = t]
    BY <1>9, <2>1, <2>2 DEF CheckServer
  <2>5. \A x \in Repos : verdict'[x] = verdict[x] \/ verdict'[x].status = "blocked_backlog"
    BY <1>2, <2>3, <2>4 DEF RowTypes
  <2> QED
    BY <1>3, <2>5 DEF Passed
<1> QED
  BY <1>4, <1>5, <1>6, <1>7, <1>8, <1>9, VerdictWriters

(* Of the freshness rows: a head is shown as pushed only when the command in   *)
(* hand of a result handler pushed it.                                       *)
FreshIsPushed == \A r \in Repos : fresh[r] # NoHead => fresh[r] \in onServer[r]

LEMMA FreshStep ==
  ASSUME BarrierInv, [Next]_vars, FreshIsPushed
  PROVE  FreshIsPushed'
<1> USE DEF gitVars, rowVars
<1>a. /\ ChainStep /\ \A x \in Repos : onServer[x] \subseteq onServer'[x]
  BY BarrierStep
<1>u. ASSUME UNCHANGED fresh PROVE FreshIsPushed'
  BY <1>a, <1>u DEF FreshIsPushed
<1>1. ASSUME NEW s \in Sessions, NEW r \in Repos, LocalCommit(s, r)
      PROVE  FreshIsPushed'
  BY <1>1, <1>u DEF LocalCommit
<1>2. ASSUME NEW h \in hooks, NEW known \in BOOLEAN, RegisterCommit(h, known)
      PROVE  FreshIsPushed'
  BY <1>2, <1>u DEF RegisterCommit
<1>3. ASSUME NEW s \in Sessions, Takeover(s)
      PROVE  FreshIsPushed'
  BY <1>3, <1>u DEF Takeover
<1>4. ASSUME NEW s \in Sessions, EdgeDies(s)
      PROVE  FreshIsPushed'
  BY <1>4, <1>u DEF EdgeDies
<1>5. ASSUME NEW s \in Sessions, EdgeFetch(s)
      PROVE  FreshIsPushed'
  BY <1>5, <1>u DEF EdgeFetch
<1>6. ASSUME NEW s \in Sessions, EdgeGate(s)
      PROVE  FreshIsPushed'
  BY <1>6, <1>u DEF EdgeGate
<1>7. ASSUME NEW s \in Sessions, EdgePush(s)
      PROVE  FreshIsPushed'
  BY <1>7, <1>u DEF EdgePush
<1>8. ASSUME NEW s \in Sessions, SubmitRejected(s)
      PROVE  FreshIsPushed'
  BY <1>8, <1>u DEF SubmitRejected
<1>9. ASSUME NEW s \in Sessions, SubmitAdmitted(s)
      PROVE  FreshIsPushed'
  BY <1>9, <1>u DEF SubmitAdmitted
<1>10. ASSUME NEW s \in Sessions, SubmitCommit(s)
      PROVE  FreshIsPushed'
  BY <1>10, <1>u DEF SubmitCommit
<1>11. ASSUME NEW s \in Sessions, SubmitLoad(s)
      PROVE  FreshIsPushed'
  <2>1. PICK k \in Reports : k = submit[s].report
    BY <1>11 DEF BarrierInv, Shapes, SubmitTypes, SubmitShape, SubmitLoad
  <2>2. k.repo \in Repos /\ (k.outcome = "pushed" => k.head \in onServer[k.repo])
    BY <1>11, <2>1 DEF BarrierInv, SubmitInv, SubmitHolds, SubmitLoad, Sound, Reports
  <2>3. PICK h : h = Freshness(fresh[k.repo], k)
    OBVIOUS
  <2>4. h = fresh[k.repo] \/ h \in onServer[k.repo]
    BY <2>2, <2>3 DEF Freshness
  <2>5. fresh' = [fresh EXCEPT ![k.repo] = h] /\ UNCHANGED onServer
    BY <1>11, <2>1, <2>3 DEF SubmitLoad
  <2>6. fresh'[k.repo] = h /\ \A r \in Repos : r # k.repo => fresh'[r] = fresh[r]
    BY <2>2, <2>5 DEF BarrierInv, Shapes, RowTypes
  <2> QED
    BY <2>4, <2>5, <2>6 DEF FreshIsPushed
<1>12. ASSUME NEW s \in Sessions, SubmitServerRead(s)
      PROVE  FreshIsPushed'
  BY <1>12, <1>u DEF SubmitServerRead
<1>13. ASSUME NEW s \in Sessions, SubmitWrite(s)
      PROVE  FreshIsPushed'
  BY <1>13, <1>u DEF SubmitWrite
<1>14. ASSUME NEW q \in Requesters, RequestBarrier(q)
      PROVE  FreshIsPushed'
  BY <1>14, <1>u DEF RequestBarrier
<1>15. ASSUME NEW q \in Requesters, BindWrite(q)
      PROVE  FreshIsPushed'
  BY <1>15, <1>u DEF BindWrite
<1>16. ASSUME NEW q \in Requesters, ReadActive(q)
      PROVE  FreshIsPushed'
  BY <1>16, <1>u DEF ReadActive
<1>17. ASSUME NEW q \in Requesters, SupersedeCommand(q)
      PROVE  FreshIsPushed'
  BY <1>17, <1>u DEF SupersedeCommand
<1>18. ASSUME NEW q \in Requesters, ListVerdicts(q)
      PROVE  FreshIsPushed'
  BY <1>18, <1>u DEF ListVerdicts
<1>19. ASSUME NEW q \in Requesters, NEW r \in Repos, BindLoad(q, r)
      PROVE  FreshIsPushed'
  BY <1>19, <1>u DEF BindLoad
<1>20. ASSUME NEW q \in Requesters, NEW r \in Repos, NextCommandId(q, r)
      PROVE  FreshIsPushed'
  BY <1>20, <1>u DEF NextCommandId
<1>21. ASSUME NEW q \in Requesters, NEW r \in Repos, CommissionWait(q, r)
      PROVE  FreshIsPushed'
  BY <1>21, <1>u DEF CommissionWait
<1>22. ASSUME NEW q \in Requesters, NEW r \in Repos, CommissionTimeout(q, r)
      PROVE  FreshIsPushed'
  BY <1>22, <1>u DEF CommissionTimeout
<1>23. ASSUME NEW q \in Requesters, NEW r \in Repos, CheckServer(q, r)
      PROVE  FreshIsPushed'
  BY <1>23, <1>u DEF CheckServer
<1>24. ASSUME NEW q \in Requesters, CommissionFails(q)
      PROVE  FreshIsPushed'
  BY <1>24, <1>u DEF CommissionFails
<1>25. CASE BackendCrash
  BY <1>25, <1>u DEF BackendCrash
<1>26. CASE UNCHANGED vars
  BY <1>26, <1>u DEF vars
<1>27. ASSUME NEW q \in Requesters, InsertCommand(q)
      PROVE  FreshIsPushed'
  BY <1>27, <1>u DEF InsertCommand
<1>28. ASSUME NEW q \in Requesters, BlockTimedOut(q)
      PROVE  FreshIsPushed'
  BY <1>28, <1>u DEF BlockTimedOut
<1> QED
  BY <1>1, <1>2, <1>3, <1>4, <1>5, <1>6, <1>7, <1>8, <1>9, <1>10, <1>11,
     <1>12, <1>13, <1>14, <1>15, <1>16, <1>17, <1>18, <1>19, <1>20, <1>21,
     <1>22, <1>23, <1>24, <1>25, <1>26, <1>27, <1>28
     DEF Next, EdgeStep, SubmitStep, RequestStep

PassInv == BarrierInv /\ PassIsEarned /\ FreshIsPushed

LEMMA Passing == Spec => []PassInv
<1>1. Init => PassInv
  BY Initially DEF BarrierInv, PassInv, PassIsEarned, Passed, FreshIsPushed, Init
<1>2. PassInv /\ [Next]_vars => PassInv'
  BY BarrierStep, PassStep, FreshStep DEF PassInv
<1> QED
  BY <1>1, <1>2, PTL DEF Spec

(* A verdict passes, and a freshness row shows a pushed head, only for a head  *)
(* the server ref really had, whatever edges report late, twice or after a    *)
(* crash: evaluate_repo_push and project_push_freshness.                     *)
THEOREM OnlyPushedHeadsPass == Spec => []PushedOnly
<1>1. PassInv => PushedOnly
  BY DEF PassInv, PassIsEarned, Passed, Earned, FreshIsPushed, PushedOnly
<1> QED
  BY <1>1, Passing, PTL

(* A passed row rests on a completed command of its own boundary epoch and     *)
(* ownership epoch: the result fence holds through the unlocked read, the      *)
(* server read and the write of the whole row.                               *)
THEOREM PassRestsOnCommand == Spec => []PassHasEvidence
<1>1. PassInv => PassHasEvidence
  BY DEF PassInv, PassIsEarned, Passed, Earned, PassHasEvidence
<1> QED
  BY <1>1, Passing, PTL

------------------------------------------------------------------------------
(* Retry chains.                                                             *)

LEMMA OpenStep ==
  ASSUME BarrierInv, [Next]_vars, OneOpenCommand
  PROVE  OneOpenCommand'
<1>s. Shapes /\ SubmitInv /\ ChainTypes
  BY DEF BarrierInv, Shapes
(* Chains of the same length in which nothing is opened. *)
<1>e. ASSUME \A r \in Repos, e \in 1 .. MaxEpoch :
               /\ DOMAIN chain'[r][e] = DOMAIN chain[r][e] /\ Len(chain'[r][e]) = Len(chain[r][e])
               /\ \A i \in DOMAIN chain[r][e] : IsOpen(chain'[r][e][i]) => IsOpen(chain[r][e][i])
      PROVE  OneOpenCommand'
  BY <1>e DEF OneOpenCommand
<1>1. CASE UNCHANGED chain
  BY <1>1 DEF OneOpenCommand
<1>2. ASSUME NEW s \in Sessions, EdgeFetch(s) PROVE OneOpenCommand'
  BY <1>e, <1>s, <1>2, FetchStamps
<1>3. ASSUME NEW s \in Sessions, SubmitCommit(s), CommitAdmitted(s) PROVE OneOpenCommand'
  <2>1. ASSUME NEW r \in Repos, NEW e \in 1 .. MaxEpoch
        PROVE  /\ DOMAIN chain'[r][e] = DOMAIN chain[r][e] /\ Len(chain'[r][e]) = Len(chain[r][e])
               /\ \A i \in DOMAIN chain[r][e] : IsOpen(chain'[r][e][i]) => IsOpen(chain[r][e][i])
    <3>1. PICK k : EndsWith(k)
      BY <1>s, <1>3, CommitEnds
    <3> QED
      BY <3>1 DEF EndsWith, Cmd
  <2> QED
    BY <1>e, <2>1
<1>4. ASSUME NEW q \in Requesters, SupersedeCommand(q) PROVE OneOpenCommand'
  <2>1. ASSUME NEW r \in Repos, NEW e \in 1 .. MaxEpoch
        PROVE  /\ DOMAIN chain'[r][e] = DOMAIN chain[r][e] /\ Len(chain'[r][e]) = Len(chain[r][e])
               /\ \A i \in DOMAIN chain[r][e] : IsOpen(chain'[r][e][i]) => IsOpen(chain[r][e][i])
    <3>1. /\ DOMAIN chain'[r][e] = DOMAIN chain[r][e] /\ Len(chain'[r][e]) = Len(chain[r][e])
          /\ \A i \in DOMAIN chain[r][e] :
                chain'[r][e][i] = chain[r][e][i] \/ chain'[r][e][i].status = "superseded"
      BY <1>s, <1>4, TimeoutSupersedes
    <3> QED
      BY <3>1 DEF IsOpen, OpenStatuses
  <2> QED
    BY <1>e, <2>1
<1>5. ASSUME NEW q \in Requesters, InsertCommand(q), ~UNCHANGED chain PROVE OneOpenCommand'
  <2>1. PICK r \in Repos, e \in 1 .. MaxEpoch, c \in Commands :
          /\ c.status = "created"
          /\ chain'[r][e] = Append(chain[r][e], c)
          /\ \A r2 \in Repos, e2 \in 1 .. MaxEpoch :
               chain'[r2][e2] = chain[r2][e2] \/ (r2 = r /\ e2 = e)
          /\ \A i \in DOMAIN chain[r][e] : ~IsOpen(chain[r][e][i])
    BY <1>s, <1>5, InsertAppends
  <2>2. PICK p \in Seq(Commands) : p = chain[r][e]
    BY <1>s DEF ChainTypes
  <2>3. \A i \in DOMAIN Append(p, c) : IsOpen(Append(p, c)[i]) => i = Len(Append(p, c))
    BY <2>1, <2>2, OneMore
  <2>4. ASSUME NEW r2 \in Repos, NEW e2 \in 1 .. MaxEpoch, NEW i \in DOMAIN chain'[r2][e2],
               IsOpen(chain'[r2][e2][i])
        PROVE  i = Len(chain'[r2][e2])
    <3>1. CASE chain'[r2][e2] = chain[r2][e2]
      BY <2>4, <3>1 DEF OneOpenCommand
    <3>2. CASE r2 = r /\ e2 = e
      BY <2>1, <2>2, <2>3, <2>4, <3>2
    <3> QED
      BY <2>1, <3>1, <3>2
  <2> QED
    BY <2>4 DEF OneOpenCommand, IsOpen
<1> QED
  BY <1>1, <1>2, <1>3, <1>4, <1>5, ChainWriters

(* However many requests have read a chain before they insert into it, and    *)
(* whatever edges fetch and answer meanwhile, no command but the last of a     *)
(* chain is open: the derived id of next_sync_push_command_id and the          *)
(* ON CONFLICT of the insert.                                                *)
THEOREM OneCommandIsOpen == Spec => []OneOpenCommand
<1>1. Init => OneOpenCommand
  BY DEF Init, OneOpenCommand
<1>2. BarrierInv /\ OneOpenCommand /\ [Next]_vars => OneOpenCommand'
  BY OpenStep
<1> QED
  BY <1>1, <1>2, Shaped, PTL DEF Spec

(* A command that has ended keeps its outcome, and an open one gets its result *)
(* only from the session that owns the run: the fence and the status CAS of    *)
(* commit_edge_command_result.                                               *)
THEOREM ResultsStand == Spec => ResultsAreFenced
<1> DEFINE Fenced == \A r \in Repos, e \in 1 .. MaxEpoch : \A i \in DOMAIN chain[r][e] :
             /\ ~IsOpen(chain[r][e][i]) => chain'[r][e][i] = chain[r][e][i]
             /\ IsOpen(chain[r][e][i]) /\ chain'[r][e][i].status \in {"completed", "failed"}
                  => chain[r][e][i].session = owner
<1>1. ASSUME BarrierInv, [Next]_vars PROVE Fenced
  <2> SUFFICES ASSUME NEW r \in Repos, NEW e \in 1 .. MaxEpoch, NEW i \in DOMAIN chain[r][e]
               PROVE  /\ ~IsOpen(chain[r][e][i]) => chain'[r][e][i] = chain[r][e][i]
                      /\ IsOpen(chain[r][e][i]) /\ chain'[r][e][i].status \in {"completed", "failed"}
                            => chain[r][e][i].session = owner
    OBVIOUS
  <2>1. /\ ChainStep /\ Shapes /\ SubmitInv /\ ChainTypes
    BY <1>1, BarrierStep DEF BarrierInv, Shapes
  <2>2. chain[r][e] \in Seq(Commands) /\ DOMAIN chain[r][e] = 1 .. Len(chain[r][e])
    BY ZenonT(40), <2>1, LenProperties DEF ChainTypes
  <2>3. ~IsOpen(chain[r][e][i]) => chain'[r][e][i] = chain[r][e][i]
    BY <2>1, <2>2 DEF ChainStep, Extends, Later
  <2>4. ASSUME IsOpen(chain[r][e][i]), chain'[r][e][i].status \in {"completed", "failed"}
        PROVE  chain[r][e][i].session = owner
    <3>0. chain'[r][e][i] # chain[r][e][i]
      BY <2>4 DEF IsOpen, OpenStatuses
    <3>1. CASE UNCHANGED chain
      BY <3>0, <3>1
    <3>2. ASSUME NEW s \in Sessions, EdgeFetch(s) PROVE FALSE
      <4>1. chain'[r][e][i].status \in {chain[r][e][i].status, "delivered"}
        BY <2>1, <3>2, FetchStamps
      <4> QED
        BY <2>4, <4>1 DEF IsOpen, OpenStatuses
    <3>3. ASSUME NEW s \in Sessions, SubmitCommit(s), CommitAdmitted(s)
          PROVE  chain[r][e][i].session = owner
      <4>1. PICK k : EndsWith(k)
        BY <2>1, <3>3, CommitEnds
      <4> QED
        BY <3>0, <4>1 DEF EndsWith, Cmd
    <3>4. ASSUME NEW q \in Requesters, SupersedeCommand(q) PROVE FALSE
      <4>1. chain'[r][e][i] = chain[r][e][i] \/ chain'[r][e][i].status = "superseded"
        BY <2>1, <3>4, TimeoutSupersedes
      <4> QED
        BY <2>4, <3>0, <4>1
    <3>5. ASSUME NEW q \in Requesters, InsertCommand(q) PROVE FALSE
      <4>1. ~UNCHANGED chain
        BY <3>0
      <4>2. \E x \in Repos : \E e2 \in 1 .. MaxEpoch : \E c \in Commands :
              /\ \A r2 \in Repos, e3 \in 1 .. MaxEpoch :
                   chain'[r2][e3] = chain[r2][e3] \/ (r2 = x /\ e3 = e2)
              /\ \A j \in DOMAIN chain[x][e2] : ~IsOpen(chain[x][e2][j])
        BY <2>1, <3>5, <4>1, InsertAppends, Zenon
      <4> QED
        BY <2>4, <3>0, <4>2
    <3> QED
      BY <1>1, <3>1, <3>2, <3>3, <3>4, <3>5, ChainWriters
  <2> QED
    BY <2>3, <2>4
<1>2. BarrierInv /\ [Next]_vars => [Fenced]_vars
  BY <1>1
<1> QED
  BY <1>2, Shaped, PTL DEF Spec, ResultsAreFenced

==============================================================================
