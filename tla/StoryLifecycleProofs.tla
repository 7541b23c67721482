----------------------- MODULE StoryLifecycleProofs -----------------------
(***************************************************************************)
(* Proofs about StoryLifecycle, for any number of stories, threads, op_ids *)
(* and events, and for every set of kinds of requests.                     *)
(***************************************************************************)
EXTENDS StoryLifecycle, TLAPS

-----------------------------------------------------------------------------
(* The shapes of requests and rows.                                        *)

Begins == {"In Progress", "Resetting", "Reset Failed"}

\* Where the requests of each kind can be.
Stations(k) ==
    IF k = "setup" THEN {"preflight", "enrich", "acquire", "marker", "read", "save", "return", "compensate", "clear", "failed"}
    ELSE IF k = "closure" THEN {"read", "save", "checkpoint", "release", "clear", "return", "failed"}
    ELSE IF k = "reset" THEN {"read", "save", "fence", "purge", "release"}
    ELSE IF k \in {"exit", "split"} THEN {"fence", "teardown", "read", "claim", "save", "finalize"}
    ELSE IF k = "none" THEN {"idle"}
    ELSE {"read", "claim", "save", "finalize"}

Places == {"idle", "read", "claim", "save", "finalize", "fence", "teardown", "purge", "release",
           "preflight", "enrich", "acquire", "marker", "compensate", "clear", "checkpoint",
           "return", "failed"}

OpRows == [body : AllKinds \union {"none", "exit_fence", "split_fence"}, story : Stories \union {"none"},
           status : {"none", "claimed", "committed", "failed"}]

Requests ==
    [kind : AllKinds \union {"none"}, story : Stories \union {"none"}, op : Ops \union {"none"},
     at : Places, goal : Statuses \union {"none"},
     snap : Rows \union {NoRow}, fresh : BOOLEAN]

RequestShape(r) ==
    /\ r \in Requests /\ r.at \in Stations(r.kind)
    /\ r.kind = "none" <=> r = NoReq
    /\ r.kind # "none" => r.story \in Stories
    /\ r.kind \notin {"none", "setup", "closure"} => r.op \in Ops
    /\ IF r.at \in {"claim", "save"} THEN r.snap \in Rows ELSE r.snap = NoRow
    /\ r.kind \in Guarded \union {"exit", "split", "closure"} => r.goal = Target(r.kind)
    /\ r.kind = "setup" /\ r.at \in {"marker", "read", "save"} => r.goal = "In Progress"
    /\ r.kind = "reset" => r.goal \in {"Resetting", "In Progress", "Reset Failed"}

Tables ==
    /\ row \in [Stories -> Rows] /\ ops \in [Ops -> OpRows]
    /\ holder \in [Stories -> Modes \union {"none"}]
    /\ marker \in [Stories -> Modes \union {"none"}]
    /\ ctx \in [Stories -> Modes \union {"none"}]
    /\ setup \in [Stories -> {"none", "paused", "failed", "completed", "purged"}]
    /\ closure \in [Stories -> {"none", "running", "closed", "failed", "completed", "purged"}]

Reqs == req \in [Threads -> Requests] /\ \A t \in Threads : RequestShape(req[t])

Shapes == Tables /\ Reqs

-----------------------------------------------------------------------------
(* The requests of the threads.                                            *)

(* The empty request has the shape of one.                                   *)
LEMMA NoReqShape == RequestShape(NoReq)
BY DEF RequestShape, Requests, NoReq, NoRow, Stations, Places, AllKinds, Guarded

(* Every station is a place.                                                 *)
LEMMA StationsArePlaces == \A k : Stations(k) \subseteq Places
BY DEF Stations, Places

(* A request that reads or writes nothing of the story keeps its shape when it
   goes to another of its stations.                                          *)
LEMMA GoShape ==
  ASSUME NEW r, RequestShape(r), r.at \notin {"claim", "save"},
         NEW a \in Stations(r.kind), a \notin {"claim", "save"},
         r.kind # "none", r.kind = "setup" /\ a \in {"marker", "read"} => r.goal = "In Progress"
  PROVE  RequestShape([r EXCEPT !.at = a])
<1> DEFINE r2 == [r EXCEPT !.at = a]
<1>0. r.kind \in AllKinds \union {"none"}
  BY DEF RequestShape, Requests
<1>1. /\ r2 \in Requests
      /\ r2.at = a /\ r2.kind = r.kind /\ r2.story = r.story /\ r2.op = r.op /\ r2.goal = r.goal /\ r2.snap = r.snap
  BY <1>0, StationsArePlaces DEF RequestShape, Requests
<1>2. r2 # NoReq
  BY <1>1 DEF NoReq
<1> QED
  BY <1>1, <1>2 DEF RequestShape

(* A reset that gets its next goal reads the story again.                    *)
LEMMA AimShape ==
  ASSUME NEW r, RequestShape(r), r.kind = "reset", NEW goal \in {"In Progress", "Reset Failed"}
  PROVE  RequestShape(Aim(r, goal))
<1> DEFINE r2 == Aim(r, goal)
<1>1. /\ r2 \in Requests
      /\ r2.at = "read" /\ r2.kind = "reset" /\ r2.story = r.story /\ r2.op = r.op /\ r2.goal = goal /\ r2.snap = NoRow
  BY DEF RequestShape, Requests, Aim, Places, Statuses
<1>2. r2 # NoReq
  <2>1. NoReq.kind = "none"
    BY DEF NoReq
  <2> QED
    BY <1>1, <2>1
<1> QED
  BY <1>1, <1>2 DEF RequestShape, Stations, Guarded

(* What a request becomes once it has written, or was refused.               *)
LEMMA SavedShape ==
  ASSUME NEW r, RequestShape(r), r.at = "save"
  PROVE  RequestShape(Written(r)) /\ RequestShape(Refused(r))
<1>0. r.kind \in AllKinds
  BY DEF RequestShape, Stations, Requests, NoReq
<1>1. ASSUME NEW a \in Stations(r.kind) \ {"claim", "save", "read"}
      PROVE  RequestShape([r EXCEPT !.snap = NoRow, !.at = a])
  <2> DEFINE r2 == [r EXCEPT !.snap = NoRow, !.at = a]
  <2>1. /\ r2 \in Requests
        /\ r2.at = a /\ r2.kind = r.kind /\ r2.story = r.story /\ r2.op = r.op /\ r2.goal = r.goal /\ r2.snap = NoRow
    BY <1>0, StationsArePlaces DEF RequestShape, Requests
  <2>2. r2 # NoReq /\ r # NoReq
    <3>1. NoReq.kind = "none" /\ r.kind # "none"
      BY <1>0 DEF NoReq, AllKinds
    <3> QED
      BY <2>1, <3>1
  <2> QED
    BY <2>1, <2>2 DEF RequestShape
<1>2. CASE r.kind \in Guarded \union {"exit", "split"}
  BY <1>1, <1>2 DEF Written, Refused, Stations, Guarded
<1>3. CASE r.kind \in {"setup", "closure"}
  BY <1>1, <1>3 DEF Written, Refused, Stations, Guarded
<1>4. CASE r.kind = "reset"
  <2>1. \A g \in {"In Progress", "Reset Failed"} : RequestShape(Aim(r, g))
    BY <1>4, AimShape
  <2>2. r.goal \in {"Resetting", "In Progress", "Reset Failed"}
    BY <1>4 DEF RequestShape
  <2> QED
    BY <1>1, <1>4, <2>1, <2>2, NoReqShape DEF Written, Refused, Stations, Guarded
<1> QED
  BY <1>0, <1>2, <1>3, <1>4 DEF AllKinds, Guarded

\* The thread has a request, of some kind and for some story.
Working(t) == RequestShape(req[t]) /\ req[t].kind \in AllKinds /\ req[t].story \in Stories

(* A thread that has a station other than idle works for a request.          *)
LEMMA WorkingThread ==
  ASSUME Reqs, NEW t \in Threads, req[t].at # "idle"
  PROVE  Working(t)
<1>1. RequestShape(req[t]) /\ req[t] \in Requests
  BY DEF Reqs
<1>2. req[t].kind # "none"
  BY <1>1 DEF RequestShape, Stations
<1> QED
  BY <1>1, <1>2 DEF Working, RequestShape, Requests

(* One thread takes a step and its request has the shape of one.             *)
LEMMA ReqsMove ==
  ASSUME Reqs, NEW t \in Threads, NEW r, RequestShape(r), req' = [req EXCEPT ![t] = r]
  PROVE  Reqs'
<1>1. r \in Requests
  BY DEF RequestShape
<1> QED
  BY <1>1 DEF Reqs

(* A thread goes to a station where it has nothing in hand.                  *)
LEMMA ReqsGo ==
  ASSUME Reqs, NEW t \in Threads, req[t].at \notin {"idle", "claim", "save"},
         NEW a \in Stations(req[t].kind), a \notin {"claim", "save"}, Goto(t, a),
         req[t].kind = "setup" /\ a \in {"marker", "read"} => req[t].goal = "In Progress"
  PROVE  Reqs'
<1>1. RequestShape([req[t] EXCEPT !.at = a])
  BY WorkingThread, GoShape DEF Working, AllKinds
<1>2. req' = [req EXCEPT ![t] = [req[t] EXCEPT !.at = a]]
  BY DEF Goto
<1> QED
  BY <1>1, <1>2, ReqsMove

(* A thread answers and is free again.                                       *)
LEMMA ReqsAnswer ==
  ASSUME Reqs, NEW t \in Threads, Answer(t)
  PROVE  Reqs'
BY ReqsMove, NoReqShape DEF Answer

(* A row of an operation that is committed, finalized or given back is one.  *)
LEMMA OpRowStays ==
  ASSUME NEW f \in [Ops -> OpRows], NEW o \in Ops
  PROVE  /\ [f EXCEPT ![o].status = "committed"] \in [Ops -> OpRows]
         /\ [f EXCEPT ![o].status = IF @ = "claimed" THEN "committed" ELSE @] \in [Ops -> OpRows]
<1>1. ASSUME NEW x \in {"none", "claimed", "committed", "failed"}
      PROVE  [f EXCEPT ![o].status = x] \in [Ops -> OpRows]
  BY DEF OpRows
<1>2. f[o].status \in {"none", "claimed", "committed", "failed"}
  BY DEF OpRows
<1> QED
  BY <1>1, <1>2

(* Rows, operations, locks and requests keep their shapes.                   *)
LEMMA ShapesHold == Spec => []Shapes
<1>1. Init => Shapes
  <2> SUFFICES ASSUME Init PROVE Shapes
    OBVIOUS
  <2>1. [status : Created, mode : Modes] \subseteq Rows
    BY StoryLifecycleAssumption DEF Rows, Statuses
  <2>2. row \in [Stories -> Rows]
    BY <2>1 DEF Init
  <2>3. NoOp \in OpRows
    BY DEF NoOp, OpRows
  <2>4. Reqs
    <3>1. NoReq \in Requests
      BY NoReqShape DEF RequestShape
    <3> QED
      BY <3>1, NoReqShape DEF Init, Reqs
  <2> QED
    BY <2>2, <2>3, <2>4 DEF Init, Shapes, Tables
<1>2. Shapes /\ [Next]_vars => Shapes'
  <2> SUFFICES ASSUME Shapes, [Next]_vars PROVE Shapes'
    OBVIOUS
  <2> USE DEF Shapes, run, locks, bounds
  <2>0. UNCHANGED <<row, ops, holder, marker, ctx, setup, closure>> => Tables'
    BY DEF Tables
  <2>1. ASSUME NEW t \in Threads, NEW k \in Kinds \ {"setup", "closure"}, NEW s \in Stories, NEW o \in Ops, Send(t, k, s, o)
        PROVE  Shapes'
    <3> DEFINE r == [NoReq EXCEPT !.kind = k, !.story = s, !.op = o,
                    !.at = IF k \in {"exit", "split"} THEN "fence" ELSE "read", !.goal = Target(k)]
    <3>1. k \in AllKinds \ {"setup", "closure"}
      BY StoryLifecycleAssumption
    <3>2. Target(k) \in Statuses \union {"none"} /\ (k = "reset" => Target(k) = "Resetting")
      BY <3>1 DEF Target, Statuses, AllKinds
    <3>3. RequestShape(r)
      <4>1. r.kind = k /\ r.story = s /\ r.op = o /\ r.goal = Target(k) /\ r.snap = NoRow
        BY DEF NoReq
      <4>2. r.at = IF k \in {"exit", "split"} THEN "fence" ELSE "read"
        BY DEF NoReq
      <4>3. r \in Requests
        BY <3>1, <3>2 DEF NoReq, Requests, Places
      <4>4. r.at \in Stations(k) /\ r.at \notin {"claim", "save"}
        BY <3>1, <4>2 DEF Stations, AllKinds
      <4>5. r # NoReq
        BY <3>1, <4>1 DEF NoReq, AllKinds
      <4> HIDE DEF r
      <4> QED
        BY <3>1, <3>2, <4>1, <4>3, <4>4, <4>5 DEF RequestShape, AllKinds
    <3>4. Reqs'
      BY <2>1, <3>3, ReqsMove DEF Send
    <3> QED
      BY <2>0, <2>1, <3>4 DEF Send
  <2>2. ASSUME NEW t \in Threads, get_story(t) PROVE Shapes'
    <3> DEFINE a == IF req[t].kind \in Guarded \union {"exit", "split"} THEN "claim" ELSE "save"
               r == [req[t] EXCEPT !.snap = row[req[t].story], !.at = a]
    <3>1. Working(t)
      BY <2>2, WorkingThread DEF get_story
    <3>2. a \in Stations(req[t].kind)
      BY <2>2, <3>1 DEF Stations, Guarded, Working, AllKinds, get_story, RequestShape
    <3>3. row[req[t].story] \in Rows
      BY <3>1 DEF Working, Tables
    <3>4. RequestShape(r)
      <4>0. a \in {"claim", "save"} /\ req[t] \in Requests
        BY <3>1 DEF Working, RequestShape
      <4> HIDE DEF a
      <4>1. /\ r \in Requests /\ r.kind = req[t].kind /\ r.story = req[t].story /\ r.op = req[t].op
            /\ r.goal = req[t].goal /\ r.at = a /\ r.snap \in Rows
        BY <3>2, <3>3, <4>0, StationsArePlaces DEF Requests
      <4>2. r # NoReq /\ req[t].kind # "none"
        BY <3>1, <4>1 DEF NoReq, Working, AllKinds
      <4>3. req[t].kind = "setup" => req[t].goal = "In Progress"
        BY <2>2, <3>1 DEF get_story, Working, RequestShape
      <4> HIDE DEF r
      <4> QED
        BY <3>1, <3>2, <4>0, <4>1, <4>2, <4>3 DEF RequestShape, Working
    <3>5. Reqs'
      <4>1. req' = [req EXCEPT ![t] = r]
        BY <2>2 DEF get_story
      <4> QED
        BY <3>4, <4>1, ReqsMove
    <3> QED
      BY <2>0, <2>2, <3>5 DEF get_story
  <2>3. ASSUME NEW t \in Threads, ClaimOp(t) PROVE Shapes'
    <3> DEFINE r == [req[t] EXCEPT !.at = "save"]
    <3>1. Working(t) /\ req[t].at = "claim"
      BY <2>3, WorkingThread DEF ClaimOp
    <3>2. req[t].op \in Ops /\ req[t] \in Requests /\ req[t].kind \in Guarded \union {"exit", "split"}
      BY <3>1 DEF Working, RequestShape, Stations, AllKinds, Guarded
    <3>3. RequestShape(r)
      <4>1. /\ r \in Requests /\ r.kind = req[t].kind /\ r.story = req[t].story /\ r.op = req[t].op
            /\ r.goal = req[t].goal /\ r.at = "save" /\ r.snap = req[t].snap
        BY <3>2 DEF Requests, Places
      <4>2. r # NoReq
        BY <3>2, <4>1 DEF NoReq, Guarded
      <4>3. "save" \in Stations(req[t].kind)
        BY <3>2 DEF Stations, Guarded
      <4> HIDE DEF r
      <4> QED
        BY <3>1, <3>2, <4>1, <4>2, <4>3 DEF RequestShape, Working, Guarded
    <3>4. Reqs'
      <4>1. CASE Answer(t)
        BY <4>1, ReqsAnswer
      <4>2. CASE Goto(t, "save")
        <5>1. req' = [req EXCEPT ![t] = r]
          BY <4>2 DEF Goto
        <5> QED
          BY <3>3, <5>1, ReqsMove
      <4> QED
        BY <2>3, <4>1, <4>2 DEF ClaimOp
    <3>5. ops' \in [Ops -> OpRows]
      BY <2>3, <3>1, <3>2 DEF ClaimOp, OpRows, Working, Tables
    <3> QED
      BY <2>3, <3>4, <3>5 DEF ClaimOp, Tables
  <2>4. ASSUME NEW t \in Threads, Save(t) PROVE Shapes'
    <3>1. Working(t) /\ req[t].at = "save"
      BY <2>4, WorkingThread DEF Save
    <3>2. Reqs'
      BY <2>4, <3>1, SavedShape, ReqsMove DEF Save, Working
    <3>3. row' \in [Stories -> Rows]
      <4>1. Changed(req[t]) \in Rows
        <5>1. req[t].snap \in Rows /\ req[t].goal \in Statuses \union {"none"}
          BY <3>1 DEF Working, RequestShape, Requests
        <5>2. req[t].kind \notin {"patch_title", "patch_mode"} => req[t].goal \in Statuses
          <6>1. req[t].kind \in Guarded \union {"exit", "split", "closure"} => req[t].goal = Target(req[t].kind)
            BY <3>1 DEF Working, RequestShape
          <6>2. req[t].kind = "setup" => req[t].goal = "In Progress"
            BY <3>1 DEF Working, RequestShape
          <6>3. req[t].kind = "reset" => req[t].goal \in {"Resetting", "In Progress", "Reset Failed"}
            BY <3>1 DEF Working, RequestShape
          <6> QED
            BY <3>1, <6>1, <6>2, <6>3 DEF Working, AllKinds, Guarded, Target, Statuses
        <5>3. OtherMode(req[t].snap.mode) \in Modes
          BY DEF OtherMode, Modes
        <5> QED
          BY <5>1, <5>2, <5>3 DEF Changed, Rows
      <4> QED
        BY <2>4, <3>1, <4>1 DEF Save, Tables, Working
    <3> QED
      BY <2>4, <3>2, <3>3 DEF Save, Tables
  <2>5. ASSUME NEW t \in Threads, ReleaseOp(t) \/ FinalizeOp(t) \/ ReleaseResetFence(t) PROVE Shapes'
    <3>1. Working(t) /\ req[t].at \in {"save", "finalize", "release"}
      BY <2>5, WorkingThread DEF ReleaseOp, FinalizeOp, ReleaseResetFence, At
    <3>2. Reqs'
      BY <2>5, ReqsAnswer DEF ReleaseOp, FinalizeOp, ReleaseResetFence
    <3>3. req[t].op \in Ops
      BY <2>5, <3>1 DEF Working, RequestShape, Stations, Guarded, AllKinds, ReleaseOp, FinalizeOp, ReleaseResetFence, At
    <3>4. ops' \in [Ops -> OpRows]
      <4>1. NoOp \in OpRows /\ \A x \in OpRows : [x EXCEPT !.status = "committed"] \in OpRows
        BY DEF NoOp, OpRows
      <4>2. ops[req[t].op] \in OpRows
        BY <3>3 DEF Tables
      <4>3. CASE ReleaseOp(t)
        BY <3>3, <4>1, <4>2, <4>3 DEF Tables, ReleaseOp
      <4>4. CASE FinalizeOp(t) \/ ReleaseResetFence(t)
        <5>1. ops \in [Ops -> OpRows] /\ ops' = [ops EXCEPT ![req[t].op].status = IF @ = "claimed" THEN "committed" ELSE @]
          BY <4>4 DEF Tables, FinalizeOp, ReleaseResetFence
        <5>2. [ops EXCEPT ![req[t].op].status = IF @ = "claimed" THEN "committed" ELSE @] \in [Ops -> OpRows]
          BY <3>3, <5>1, OpRowStays
        <5> QED
          BY <5>1, <5>2, Zenon
      <4> QED
        BY <2>5, <4>3, <4>4
    <3> QED
      BY <2>5, <3>2, <3>4 DEF Tables, ReleaseOp, FinalizeOp, ReleaseResetFence
  <2>6. ASSUME NEW t \in Threads, AcquireExitClaim(t) \/ CommitTeardown(t) \/ CommitSplitFence(t) \/ AcquireResetFence(t)
        PROVE  Shapes'
    <3>1. Working(t) /\ req[t].at \in {"fence", "teardown"} /\ req[t].kind \in {"exit", "split", "reset"}
      BY <2>6, WorkingThread DEF AcquireExitClaim, CommitTeardown, CommitSplitFence, AcquireResetFence, At
    <3>2. req[t].op \in Ops /\ req[t].story \in Stories
      BY <3>1 DEF Working, RequestShape
    <3>3. Reqs'
      <4>1. CASE Answer(t)
        BY <4>1, ReqsAnswer
      <4>2. ASSUME NEW a \in {"teardown", "read", "purge"}, Goto(t, a), a \in Stations(req[t].kind) PROVE Reqs'
        BY <3>1, <4>2, ReqsGo
      <4>3. CASE req[t].kind = "reset" /\ req' = [req EXCEPT ![t] = Aim(req[t], "Reset Failed")]
        BY <3>1, <4>3, AimShape, ReqsMove DEF Working
      <4> QED
        BY <2>6, <4>1, <4>2, <4>3 DEF AcquireExitClaim, CommitTeardown, CommitSplitFence, AcquireResetFence, At, Stations
    <3>4. ops' \in [Ops -> OpRows]
      <4>1. /\ ops[req[t].op] \in OpRows
            /\ [ops EXCEPT ![req[t].op].status = "committed"] \in [Ops -> OpRows]
        BY <3>2, OpRowStays DEF Tables
      <4>2. \A b \in {"exit_fence", "split_fence", "reset"}, c \in {"claimed", "committed"} :
               [body |-> b, story |-> req[t].story, status |-> c] \in OpRows
        BY <3>2 DEF OpRows, AllKinds
      <4>3. \/ UNCHANGED ops
            \/ ops' = [ops EXCEPT ![req[t].op].status = "committed"]
            \/ \E b \in {"exit_fence", "split_fence", "reset"}, c \in {"claimed", "committed"} :
                 ops' = [ops EXCEPT ![req[t].op] = [body |-> b, story |-> req[t].story, status |-> c]]
        <5>1. CASE AcquireExitClaim(t)
          BY <5>1 DEF AcquireExitClaim
        <5>2. CASE CommitTeardown(t)
          BY <5>2 DEF CommitTeardown
        <5>3. CASE CommitSplitFence(t)
          BY <5>3 DEF CommitSplitFence
        <5>4. CASE AcquireResetFence(t)
          BY <5>4 DEF AcquireResetFence
        <5> QED
          BY <2>6, <5>1, <5>2, <5>3, <5>4
      <4>4. CASE UNCHANGED ops
        BY <4>4 DEF Tables
      <4>5. CASE ops' = [ops EXCEPT ![req[t].op].status = "committed"]
        BY <4>1, <4>5, Zenon
      <4>6. ASSUME NEW b \in {"exit_fence", "split_fence", "reset"}, NEW c \in {"claimed", "committed"},
                   ops' = [ops EXCEPT ![req[t].op] = [body |-> b, story |-> req[t].story, status |-> c]]
            PROVE  ops' \in [Ops -> OpRows]
        <5> DEFINE x == [body |-> b, story |-> req[t].story, status |-> c]
        <5>1. x \in OpRows
          BY <4>2
        <5>2. ops' = [ops EXCEPT ![req[t].op] = x]
          BY <4>6
        <5> HIDE DEF x
        <5> QED
          BY <5>1, <5>2 DEF Tables
      <4> QED
        BY <4>3, <4>4, <4>5, <4>6
    <3> QED
      BY <2>6, <3>3, <3>4 DEF Tables, AcquireExitClaim, CommitTeardown, CommitSplitFence, AcquireResetFence
  <2>7. ASSUME NEW t \in Threads, PurgeRun(t) PROVE Shapes'
    <3>1. Working(t) /\ req[t].kind = "reset" /\ req[t].op \in Ops /\ req[t].story \in Stories
      BY <2>7, WorkingThread DEF PurgeRun, At, Working, RequestShape
    <3>2. Reqs'
      BY <2>7, <3>1, AimShape, ReqsMove DEF PurgeRun, Working
    <3>3. Quiesced(req[t].story, req[t].op) \in [Ops -> OpRows]
      BY DEF Quiesced, Tables, OpRows
    <3>4. ops' \in [Ops -> OpRows]
      <4> DEFINE q == Quiesced(req[t].story, req[t].op)
      <4>1. [q EXCEPT ![req[t].op].status = "committed"] \in [Ops -> OpRows]
        <5> HIDE DEF q
        <5> QED
          BY <3>1, <3>3, OpRowStays DEF q
      <4>2. ops' = [q EXCEPT ![req[t].op].status = "committed"] \/ ops' = q
        BY <2>7 DEF PurgeRun
      <4> HIDE DEF q
      <4> QED
        BY <3>3, <4>1, <4>2, Zenon DEF q
    <3>5. UNCHANGED <<row, holder, marker, ctx>>
      BY <2>7 DEF PurgeRun
    <3>6. /\ setup' \in [Stories -> {"none", "paused", "failed", "completed", "purged"}]
          /\ closure' \in [Stories -> {"none", "running", "closed", "failed", "completed", "purged"}]
      BY <2>7, <3>1 DEF PurgeRun, Tables
    <3> QED
      BY <3>2, <3>4, <3>5, <3>6 DEF Tables
  <2>8. ASSUME NEW t \in Threads, Preflight(t) \/ Enrich(t) \/ EndSetup(t) PROVE Shapes'
    <3>1. Working(t) /\ req[t].kind = "setup" /\ req[t].at \in {"preflight", "enrich", "return", "failed"} /\ req[t].story \in Stories
      BY <2>8, WorkingThread DEF Preflight, Enrich, EndSetup, At, Working
    <3>2. \/ \E a \in {"enrich", "acquire"} : Goto(t, a) /\ UNCHANGED setup
          \/ \E x \in {"paused", "failed", "completed"} : SetupReturns(t, x)
      BY <2>8 DEF Preflight, Enrich, EndSetup
    <3>3. Reqs'
      BY <3>1, <3>2, ReqsGo, ReqsAnswer DEF Stations, SetupReturns
    <3>4. setup' \in [Stories -> {"none", "paused", "failed", "completed", "purged"}]
      BY <3>1, <3>2 DEF SetupReturns, Tables
    <3>5. ctx' \in [Stories -> Modes \union {"none"}]
      BY <2>8, <3>1 DEF Preflight, Enrich, EndSetup, Tables, Rows
    <3>6. UNCHANGED <<row, ops, holder, marker, closure>>
      BY <2>8 DEF Preflight, Enrich, EndSetup
    <3> QED
      BY <3>3, <3>4, <3>5, <3>6 DEF Tables
  <2>9. ASSUME NEW t \in Threads, AcquireModeLock(t) PROVE Shapes'
    <3>1. Working(t) /\ req[t].kind = "setup" /\ req[t].at = "acquire" /\ req[t].story \in Stories
      BY <2>9, WorkingThread DEF AcquireModeLock, At, Working
    <3>2. CASE SetupReturns(t, "failed") /\ UNCHANGED holder
      <4>1. Reqs' /\ setup' \in [Stories -> {"none", "paused", "failed", "completed", "purged"}]
        BY <3>1, <3>2, ReqsAnswer DEF SetupReturns, Tables
      <4> QED
        BY <2>9, <3>2, <4>1 DEF AcquireModeLock, Tables
    <3>3. CASE acquire(req[t].story, ctx[req[t].story]) /\ UNCHANGED setup
               /\ req' = [req EXCEPT ![t].fresh = holder[req[t].story] = "none", ![t].goal = "In Progress",
                                     ![t].at = IF marker[req[t].story] = "none" THEN "marker" ELSE "read"]
      <4> DEFINE f == holder[req[t].story] = "none"
                 a == IF marker[req[t].story] = "none" THEN "marker" ELSE "read"
                 r == [req[t] EXCEPT !.fresh = f, !.goal = "In Progress", !.at = a]
      <4>1. req' = [req EXCEPT ![t] = r]
        BY <3>3
      <4>2. f \in BOOLEAN /\ a \in {"marker", "read"} /\ req[t] \in Requests
        BY <3>1 DEF Working, RequestShape
      <4>3. RequestShape(r)
        <5> HIDE DEF f, a
        <5>1. /\ r.kind = "setup" /\ r.story = req[t].story /\ r.op = req[t].op /\ r.goal = "In Progress"
              /\ r.at = a /\ r.snap = NoRow
          BY <3>1, <4>2 DEF Working, RequestShape, Requests
        <5>2. r \in Requests
          BY ZenonT(40), <4>2 DEF Requests, Places, Statuses
        <5>3. r # NoReq
          BY <5>1 DEF NoReq
        <5> HIDE DEF r
        <5> QED
          BY <3>1, <4>2, <5>1, <5>2, <5>3 DEF RequestShape, Stations, Guarded
      <4>4. Reqs'
        <5> HIDE DEF r
        <5> QED
          BY <4>1, <4>3, ReqsMove
      <4>5. holder' \in [Stories -> Modes \union {"none"}]
        BY <3>1, <3>3 DEF acquire, Tables
      <4> QED
        BY <2>9, <3>3, <4>4, <4>5 DEF AcquireModeLock, Tables
    <3> QED
      BY <2>9, <3>2, <3>3 DEF AcquireModeLock
  <2>10. ASSUME NEW t \in Threads, WriteMarker(t) \/ Compensate(t) \/ ClearMarker(t) PROVE Shapes'
    <3>1. Working(t) /\ req[t].story \in Stories
      BY <2>10, WorkingThread DEF WriteMarker, Compensate, ClearMarker, At, Working
    <3>2. Reqs'
      <4>1. CASE WriteMarker(t)
        <5>1. req[t].goal = "In Progress"
          BY <3>1, <4>1 DEF WriteMarker, At, Working, RequestShape
        <5>2. PICK a \in {"read", "failed"} : Goto(t, a) /\ At(t, "setup", "marker")
          BY <4>1 DEF WriteMarker
        <5> QED
          BY <3>1, <5>1, <5>2, ReqsGo DEF At, Stations
      <4>2. CASE Compensate(t)
        BY <4>2, ReqsGo DEF Compensate, At, Stations
      <4>3. CASE ClearMarker(t)
        BY <3>1, <4>3, ReqsGo DEF ClearMarker, Stations, Working, RequestShape, AllKinds
      <4> QED
        BY <2>10, <4>1, <4>2, <4>3
    <3>3. /\ holder' \in [Stories -> Modes \union {"none"}]
          /\ marker' \in [Stories -> Modes \union {"none"}]
      BY <2>10, <3>1 DEF WriteMarker, Compensate, ClearMarker, release, Tables
    <3> QED
      BY <2>10, <3>2, <3>3 DEF WriteMarker, Compensate, ClearMarker, Tables
  <2>11. ASSUME NEW t \in Threads, CheckpointClosed(t) \/ ReleaseModeLock(t) \/ EndClosure(t) PROVE Shapes'
    <3>1. Working(t) /\ req[t].story \in Stories
      BY <2>11, WorkingThread DEF CheckpointClosed, ReleaseModeLock, EndClosure, At, Working
    <3>2. Reqs'
      BY <2>11, ReqsGo, ReqsAnswer DEF CheckpointClosed, ReleaseModeLock, EndClosure, At, Stations
    <3>3. /\ holder' \in [Stories -> Modes \union {"none"}]
          /\ closure' \in [Stories -> {"none", "running", "closed", "failed", "completed", "purged"}]
      BY <2>11, <3>1 DEF CheckpointClosed, ReleaseModeLock, EndClosure, release, Tables
    <3> QED
      BY <2>11, <3>2, <3>3 DEF CheckpointClosed, ReleaseModeLock, EndClosure, Tables
  <2>12. ASSUME NEW t \in Threads, NEW s \in Stories, StartSetup(t, s) \/ StartClosure(t, s) PROVE Shapes'
    <3>1. ASSUME NEW r \in Requests, r.story = s, r.snap = NoRow,
                 \/ r.kind = "setup" /\ r.at = "preflight"
                 \/ r.kind = "closure" /\ r.at = "read" /\ r.goal = "Done"
          PROVE  RequestShape(r)
      <4>1. r.kind # NoReq.kind
        BY <3>1 DEF NoReq
      <4>2. Target("closure") = "Done"
        BY DEF Target
      <4> QED
        BY <3>1, <4>1, <4>2 DEF RequestShape, Stations, Guarded
    <3>2. CASE StartSetup(t, s)
      <4> DEFINE r == [NoReq EXCEPT !.kind = "setup", !.story = s, !.at = "preflight"]
      <4>1. r \in Requests /\ r.story = s /\ r.snap = NoRow /\ r.kind = "setup" /\ r.at = "preflight"
        BY DEF NoReq, Requests, Places, AllKinds
      <4>2. Reqs'
        <5>1. RequestShape(r)
          BY <3>1, <4>1
        <5> QED
          BY <3>2, <5>1, ReqsMove DEF StartSetup
      <4> QED
        BY <2>0, <3>2, <4>2 DEF StartSetup
    <3>3. CASE StartClosure(t, s)
      <4> DEFINE r == [NoReq EXCEPT !.kind = "closure", !.story = s, !.at = "read", !.goal = "Done"]
      <4>1. r \in Requests /\ r.story = s /\ r.snap = NoRow /\ r.kind = "closure" /\ r.at = "read" /\ r.goal = "Done"
        BY DEF NoReq, Requests, Places, AllKinds, Statuses
      <4>2. Reqs'
        <5>1. RequestShape(r)
          BY <3>1, <4>1
        <5> QED
          BY <3>3, <5>1, ReqsMove DEF StartClosure
      <4>3. closure' \in [Stories -> {"none", "running", "closed", "failed", "completed", "purged"}]
        BY <3>3 DEF StartClosure, Tables
      <4> QED
        BY <3>3, <4>2, <4>3 DEF StartClosure, Tables
    <3> QED
      BY <2>12, <3>2, <3>3
  <2>13. CASE Crash
    <3>1. NoReq \in Requests
      BY NoReqShape DEF RequestShape
    <3>2. Reqs'
      BY <2>13, <3>1, NoReqShape DEF Crash, Reqs
    <3>3. ops' \in [Ops -> OpRows]
      BY <2>13 DEF Crash, Tables, OpRows
    <3> QED
      BY <2>13, <3>2, <3>3 DEF Crash, Tables
  <2>14. CASE UNCHANGED vars
    BY <2>0, <2>14 DEF vars, Reqs
  <2> QED
    BY <2>1, <2>2, <2>3, <2>4, <2>5, <2>6, <2>7, <2>8, <2>9, <2>10, <2>11, <2>12, <2>13, <2>14
       DEF Next, Step
<1> QED
  BY <1>1, <1>2, PTL DEF Spec

-----------------------------------------------------------------------------
(* The mode lock and the runs of the stories.                              *)

Works(t, k, s) == req[t].kind = k /\ req[t].story = s
Pipeline == {"setup", "closure"}

\* One request at a time takes a story through setup or closure.
OnePipeline ==
    \A t1, t2 \in Threads :
        req[t1].kind \in Pipeline /\ req[t2].kind \in Pipeline /\ req[t1].story = req[t2].story => t1 = t2

\* The holder rows of a project are of one mode.
OneMode ==
    \A s1, s2 \in Stories : holder[s1] # "none" /\ holder[s2] # "none" => holder[s1] = holder[s2]

\* The story is In Progress or in a reset, or a request may still write that it is.
Carries(r) ==
    \/ r.snap.status \in Begins
    \/ r.kind = "reset" /\ (r.goal = "In Progress" \/ r.at \in {"fence", "purge", "release"})

Begun(s) ==
    \/ row[s].status \in Begins
    \/ \E t \in Threads : req[t].story = s /\ Carries(req[t])

InSetup(s) == \E t \in Threads : Works(t, "setup", s)

\* The holder row stays, or closure has closed the story or a reset has purged its run.
Kept(s) ==
    \/ holder[s] # "none"
    \/ closure[s] \in {"closed", "completed"}
    \/ setup[s] = "purged" /\ ~InSetup(s)

\* From acquire on, the setup of a story holds the lock in the mode of its context; a
\* setup that took a fresh holder row works on a story that nobody can say has begun.
SetupHolds(t, s) ==
    /\ setup[s] \in {"none", "paused", "purged"} /\ closure[s] \in {"none", "purged"}
    /\ req[t].at \in {"acquire", "marker", "read", "save", "return"} => ctx[s] \in Modes
    /\ req[t].at \in {"marker", "read", "save", "return"} => holder[s] = ctx[s]
    /\ req[t].at = "compensate" => req[t].fresh
    /\ req[t].fresh /\ req[t].at \in {"marker", "read", "save", "compensate"} => ~Begun(s)

ClosureHolds(t, s) ==
    /\ setup[s] \in {"completed", "purged"}
    /\ setup[s] = "completed" =>
          closure[s] = IF req[t].at \in {"read", "save", "checkpoint", "failed"} THEN "running" ELSE "closed"

RunHolds(s) ==
    /\ setup[s] \in {"none", "paused"} => closure[s] \in {"none", "purged"}
    /\ InRun(s) => holder[s] = ctx[s] /\ ctx[s] \in Modes

StoryHolds(s) ==
    /\ Begun(s) => Kept(s)
    /\ \A t \in Threads : Works(t, "setup", s) => SetupHolds(t, s)
    /\ \A t \in Threads : Works(t, "closure", s) => ClosureHolds(t, s)
    /\ RunHolds(s)

LockInv == OnePipeline /\ OneMode /\ \A s \in Stories : StoryHolds(s)

(* What holds of a story stays when its run, its lock and the requests that
   take it through setup and closure stay, and no request makes it begin.    *)
LEMMA Elsewhere ==
  ASSUME NEW s \in Stories, StoryHolds(s),
         holder'[s] = holder[s], ctx'[s] = ctx[s], setup'[s] = setup[s], closure'[s] = closure[s],
         Begun(s)' => Begun(s),
         \A t \in Threads : req'[t].kind \in Pipeline /\ req'[t].story = s => req'[t] = req[t],
         \A t \in Threads : req[t].kind \in Pipeline /\ req[t].story = s => req'[t] = req[t]
  PROVE  StoryHolds(s)'
<1>1. \A t \in Threads, k \in Pipeline : Works(t, k, s)' => Works(t, k, s) /\ req'[t] = req[t]
  BY DEF Works
<1>2. InSetup(s)' => InSetup(s)
  BY <1>1 DEF InSetup, Pipeline
<1>3. Kept(s) => Kept(s)'
  BY <1>2 DEF Kept
<1>4. Begun(s)' => Kept(s)'
  BY <1>3 DEF StoryHolds
<1>5. ASSUME NEW t \in Threads, Works(t, "setup", s)' PROVE SetupHolds(t, s)'
  <2>1. SetupHolds(t, s) /\ req'[t] = req[t]
    BY <1>1, <1>5 DEF StoryHolds, Pipeline
  <2> QED
    BY <2>1 DEF SetupHolds
<1>6. ASSUME NEW t \in Threads, Works(t, "closure", s)' PROVE ClosureHolds(t, s)'
  <2>1. ClosureHolds(t, s) /\ req'[t] = req[t]
    BY <1>1, <1>6 DEF StoryHolds, Pipeline
  <2> QED
    BY <2>1 DEF ClosureHolds
<1>7. RunHolds(s)'
  BY DEF StoryHolds, RunHolds, InRun
<1> QED
  BY <1>4, <1>5, <1>6, <1>7 DEF StoryHolds

(* No story begins when the request of a thread that moves brings nothing new. *)
LEMMA NobodyBegins ==
  ASSUME NEW t \in Threads, NEW r, Reqs, req' = [req EXCEPT ![t] = r],
         Carries(r) => r.story \in Stories /\ Begun(r.story),
         NEW s \in Stories, row'[s].status \in Begins => Begun(s)
  PROVE  Begun(s)' => Begun(s)
<1>1. \A t2 \in Threads : req'[t2] = IF t2 = t THEN r ELSE req[t2]
  BY DEF Reqs
<1>2. ASSUME NEW t2 \in Threads, req'[t2].story = s, Carries(req'[t2]) PROVE Begun(s)
  BY <1>1, <1>2 DEF Begun
<1>3. ASSUME NEW t2 \in Threads, req'[t2].story = s, Carries(req[t2])' PROVE Begun(s)
  BY <1>2, <1>3 DEF Carries
<1> QED
  BY <1>3 DEF Begun

(* A step of a request that is neither setup nor closure, that touches no run
   and no lock and makes no story begin.                                     *)
LEMMA OtherRequest ==
  ASSUME NEW t \in Threads, NEW r, Reqs, LockInv, req' = [req EXCEPT ![t] = r],
         req[t].kind \notin Pipeline, r.kind \notin Pipeline,
         UNCHANGED <<holder, ctx, setup, closure>>,
         Carries(r) => r.story \in Stories /\ Begun(r.story),
         \A s \in Stories : row'[s].status \in Begins => Begun(s)
  PROVE  LockInv'
<1>1. \A t2 \in Threads : req'[t2] = IF t2 = t THEN r ELSE req[t2]
  BY DEF Reqs
<1>2. OnePipeline' /\ OneMode'
  BY <1>1 DEF LockInv, OnePipeline, OneMode
<1>3. ASSUME NEW s \in Stories PROVE StoryHolds(s)'
  <2>1. Begun(s)' => Begun(s)
    BY NobodyBegins
  <2> QED
    BY <1>1, <2>1, Elsewhere DEF LockInv
<1> QED
  BY <1>2, <1>3 DEF LockInv

(* A step of the setup or the closure of a story, which touches the run, the
   lock and the row of that story alone: what is left to show is what holds of
   this story and of the request.                                            *)
LEMMA PipelineStep ==
  ASSUME NEW t \in Threads, NEW r, NEW s \in Stories, Reqs, LockInv, req' = [req EXCEPT ![t] = r],
         req[t].kind \in Pipeline, req[t].story = s,
         r.kind \in Pipeline => r.kind = req[t].kind /\ r.story = s,
         ~(r.kind \in Pipeline) => ~Carries(r),
         \A x \in Stories \ {s} : /\ holder'[x] = holder[x] /\ ctx'[x] = ctx[x] /\ setup'[x] = setup[x]
                                  /\ closure'[x] = closure[x] /\ row'[x] = row[x],
         OneMode', Begun(s)' => Kept(s)', RunHolds(s)',
         r.kind = "setup" => SetupHolds(t, s)', r.kind = "closure" => ClosureHolds(t, s)'
  PROVE  LockInv'
<1>1. \A t2 \in Threads : req'[t2] = IF t2 = t THEN r ELSE req[t2]
  BY DEF Reqs
<1>2. \A t2 \in Threads \ {t} : req'[t2] = req[t2] /\ ~(req[t2].kind \in Pipeline /\ req[t2].story = s)
  BY <1>1 DEF LockInv, OnePipeline
<1>3. OnePipeline'
  BY <1>1 DEF LockInv, OnePipeline
<1>4. ASSUME NEW x \in Stories \ {s} PROVE StoryHolds(x)'
  <2>1. Begun(x)' => Begun(x)
    <3>1. ASSUME NEW t2 \in Threads, req'[t2].story = x, Carries(req[t2])' PROVE Begun(x)
      <4>1. t2 # t
        BY <1>1, <3>1 DEF Carries
      <4>2. req'[t2] = req[t2]
        BY <1>1, <4>1
      <4>3. Carries(req[t2]) /\ req[t2].story = x
        BY <3>1, <4>2 DEF Carries
      <4> QED
        BY <4>3 DEF Begun
    <3> QED
      BY <3>1 DEF Begun
  <2> QED
    BY <1>1, <2>1, Elsewhere DEF LockInv
<1>5. StoryHolds(s)'
  <2>1. \A t2 \in Threads, k \in Pipeline : Works(t2, k, s)' => t2 = t /\ r.kind = k
    BY <1>1, <1>2 DEF Works
  <2> QED
    BY <2>1 DEF StoryHolds, Pipeline
<1> QED
  BY <1>3, <1>4, <1>5 DEF LockInv

(* A request with nothing in hand carries nothing, unless it is a reset.     *)
LEMMA NothingInHand ==
  /\ \A r : RequestShape(r) /\ r.kind # "reset" /\ r.at \notin {"claim", "save"} => ~Carries(r)
  /\ ~Carries(NoReq)
<1>1. NoRow.status \notin Begins
  BY DEF NoRow, Begins
<1>2. NoReq.kind = "none" /\ NoReq.snap = NoRow
  BY DEF NoReq
<1> QED
  BY <1>1, <1>2 DEF RequestShape, Carries

(* A story in setup that has begun has its holder row.                       *)
LEMMA BegunInSetup ==
  ASSUME LockInv, NEW s \in Stories, NEW t \in Threads, Works(t, "setup", s)
  PROVE  StoryHolds(s) /\ SetupHolds(t, s) /\ (Begun(s) => holder[s] # "none")
<1>1. StoryHolds(s) /\ SetupHolds(t, s) /\ InSetup(s)
  BY DEF LockInv, StoryHolds, InSetup
<1> QED
  BY <1>1 DEF StoryHolds, Kept, SetupHolds

(* A setup returns: its story is set up only when it holds the lock.         *)
LEMMA SetupEnds ==
  ASSUME Tables, Reqs, LockInv, NEW s \in Stories, NEW t \in Threads, Works(t, "setup", s),
         NEW x \in {"paused", "failed", "completed"}, SetupReturns(t, x),
         x = "completed" => req[t].at = "return" /\ ctx'[s] = ctx[s],
         UNCHANGED <<row, holder, closure>>, \A y \in Stories \ {s} : ctx'[y] = ctx[y]
  PROVE  LockInv'
<1>1. StoryHolds(s) /\ SetupHolds(t, s) /\ (Begun(s) => holder[s] # "none")
  BY BegunInSetup
<1>2. req' = [req EXCEPT ![t] = NoReq] /\ setup' = [setup EXCEPT ![s] = x] /\ NoReq.kind = "none"
  BY DEF SetupReturns, Answer, Works, NoReq
<1>3. Begun(s)' => Begun(s)
  BY <1>2, NothingInHand, NobodyBegins DEF Begun
<1>4. setup'[s] = x
  BY <1>2 DEF Tables
<1>x. ASSUME NEW y \in Stories, y # s PROVE setup'[y] = setup[y]
  BY <1>2, <1>x DEF Tables
<1>5. \A y \in Stories \ {s} : setup'[y] = setup[y]
  BY <1>x
<1>6. Begun(s)' => Kept(s)'
  BY <1>1, <1>3 DEF Kept
<1>7. RunHolds(s)'
  BY <1>1, <1>4 DEF SetupHolds, RunHolds, InRun
<1>8. OneMode'
  BY DEF LockInv, OneMode
<1> QED
  BY <1>2, <1>5, <1>6, <1>7, <1>8, NothingInHand, PipelineStep DEF Works, Pipeline

(* A setup goes on, with what it has to hold at its next station.            *)
LEMMA SetupMoves ==
  ASSUME Reqs, LockInv, NEW s \in Stories, NEW t \in Threads, Works(t, "setup", s),
         NEW r, req' = [req EXCEPT ![t] = r], r.kind = "setup", r.story = s, ~Carries(r),
         UNCHANGED <<row, setup, closure>>,
         \A y \in Stories \ {s} : holder'[y] = holder[y] /\ ctx'[y] = ctx[y],
         OneMode', Begun(s) => holder'[s] # "none",
         r.at \in {"acquire", "marker", "read", "save", "return"} => ctx'[s] \in Modes,
         r.at \in {"marker", "read", "save", "return"} => holder'[s] = ctx'[s],
         r.at = "compensate" => r.fresh,
         r.fresh /\ r.at \in {"marker", "read", "save", "compensate"} => ~Begun(s)
  PROVE  LockInv'
<1>1. StoryHolds(s) /\ SetupHolds(t, s)
  BY BegunInSetup
<1>2. Begun(s)' => Begun(s)
  BY NobodyBegins DEF Begun
<1>3. Begun(s)' => Kept(s)'
  BY <1>2 DEF Kept
<1>4. RunHolds(s)'
  BY <1>1 DEF StoryHolds, SetupHolds, RunHolds, InRun
<1>5. req'[t] = r
  BY DEF Reqs
<1>6. SetupHolds(t, s)'
  BY <1>1, <1>2, <1>5 DEF SetupHolds
<1> QED
  BY <1>3, <1>4, <1>6, PipelineStep DEF Works, Pipeline

(* A closure goes on or returns.                                             *)
LEMMA ClosureMoves ==
  ASSUME Reqs, LockInv, NEW s \in Stories, NEW t \in Threads, Works(t, "closure", s),
         NEW r, req' = [req EXCEPT ![t] = r], r.kind \in {"closure", "none"}, r.kind = "closure" => r.story = s,
         ~Carries(r), UNCHANGED <<row, ctx, setup>>,
         \A y \in Stories \ {s} : holder'[y] = holder[y] /\ closure'[y] = closure[y],
         holder'[s] \in {"none", holder[s]},
         setup[s] = "completed" =>
            /\ closure[s] \in {"closed", "completed"} => closure'[s] \in {"closed", "completed"}
            /\ holder'[s] = holder[s] \/ closure'[s] \in {"closed", "completed"}
            /\ closure'[s] \in {"none", "running", "failed"} => closure[s] \in {"none", "running", "failed"}
            /\ r.kind = "closure" =>
                  closure'[s] = IF r.at \in {"read", "save", "checkpoint", "failed"} THEN "running" ELSE "closed"
  PROVE  LockInv'
<1>1. StoryHolds(s) /\ ClosureHolds(t, s) /\ setup[s] \in {"completed", "purged"}
  BY DEF LockInv, StoryHolds, ClosureHolds
<1>2. Begun(s)' => Begun(s)
  BY NobodyBegins DEF Begun
<1>3. ~InSetup(s)'
  BY DEF InSetup, Works, LockInv, OnePipeline, Reqs, Pipeline
<1>4. Begun(s)' => Kept(s)'
  BY <1>1, <1>2, <1>3 DEF StoryHolds, Kept
<1>5. RunHolds(s)'
  BY <1>1 DEF StoryHolds, RunHolds, InRun
<1>6. req'[t] = r
  BY DEF Reqs
<1>7. r.kind = "closure" => ClosureHolds(t, s)'
  BY <1>1, <1>6 DEF ClosureHolds
<1>8. OneMode'
  BY DEF LockInv, OneMode
<1> QED
  BY <1>4, <1>5, <1>7, <1>8, PipelineStep DEF Works, Pipeline

(* The locks and the runs keep together.                                     *)
LEMMA LockInvHolds == Spec => []LockInv
<1>1. Init => LockInv
  <2> SUFFICES ASSUME Init PROVE LockInv
    OBVIOUS
  <2>1. \A s \in Stories : row[s].status \notin Begins
    BY StoryLifecycleAssumption DEF Init, Begins
  <2>2. \A t \in Threads : req[t] = NoReq /\ req[t].kind = "none"
    BY DEF Init, NoReq
  <2>3. ASSUME NEW s \in Stories PROVE StoryHolds(s)
    <3>1. ~Begun(s)
      BY <2>1, <2>2, NothingInHand DEF Begun
    <3>2. \A t \in Threads : ~Works(t, "setup", s) /\ ~Works(t, "closure", s)
      BY <2>2 DEF Works
    <3>3. RunHolds(s)
      BY DEF Init, RunHolds, InRun
    <3> QED
      BY <3>1, <3>2, <3>3 DEF StoryHolds
  <2> QED
    BY <2>2, <2>3 DEF Init, LockInv, OnePipeline, OneMode, Pipeline
<1>2. Shapes /\ Shapes' /\ LockInv /\ [Next]_vars => LockInv'
  <2> SUFFICES ASSUME Shapes, Shapes', LockInv, [Next]_vars PROVE LockInv'
    OBVIOUS
  <2>0. Tables /\ Reqs /\ Tables' /\ Reqs'
    BY DEF Shapes
  <2>b. \A s \in Stories : row[s].status \in Begins => Begun(s)
    BY DEF Begun
  <2>n. NoRow.status \notin Begins
    BY DEF NoRow, Begins
  <2>w. \A t \in Threads : req[t].at # "idle" => Working(t)
    BY <2>0, WorkingThread
  <2>c. ASSUME NEW t \in Threads, Working(t), Carries(req[t]) PROVE Begun(req[t].story)
    BY <2>c DEF Begun
  <2> USE DEF run, locks, bounds, Pipeline
  <2>1. ASSUME NEW t \in Threads, NEW k \in Kinds \ {"setup", "closure"}, NEW s \in Stories, NEW o \in Ops, Send(t, k, s, o)
        PROVE  LockInv'
    <3> DEFINE r == [NoReq EXCEPT !.kind = k, !.story = s, !.op = o,
                    !.at = IF k \in {"exit", "split"} THEN "fence" ELSE "read", !.goal = Target(k)]
    <3>1. r.kind = k /\ (k = "reset" => r.goal = "Resetting" /\ r.at = "read") /\ r.snap = NoRow
      BY DEF NoReq, Target
    <3>2. req' = [req EXCEPT ![t] = r] /\ UNCHANGED <<row, holder, ctx, setup, closure>> /\ req[t].kind = "none"
      <4>1. NoReq.kind = "none"
        BY DEF NoReq
      <4> QED
        BY <2>1, <4>1 DEF Send
    <3>3. ~Carries(r)
      <4> HIDE DEF r
      <4> QED
        BY <2>n, <3>1 DEF Carries
    <3> HIDE DEF r
    <3> QED
      BY <2>0, <2>b, <3>1, <3>2, <3>3, OtherRequest
  <2>2. ASSUME NEW t \in Threads,
               ClaimOp(t) \/ ReleaseOp(t) \/ FinalizeOp(t) \/ AcquireExitClaim(t) \/ CommitTeardown(t)
               \/ CommitSplitFence(t) \/ AcquireResetFence(t) \/ ReleaseResetFence(t)
        PROVE  LockInv'
    <3>1. UNCHANGED <<row, holder, ctx, setup, closure>>
      BY <2>2 DEF ClaimOp, ReleaseOp, FinalizeOp, AcquireExitClaim, CommitTeardown, CommitSplitFence, AcquireResetFence, ReleaseResetFence
    <3>2. Working(t) /\ req[t].kind \notin Pipeline
      BY <2>2, <2>w DEF ClaimOp, ReleaseOp, FinalizeOp, AcquireExitClaim, CommitTeardown, CommitSplitFence,
                        AcquireResetFence, ReleaseResetFence, At, Working, RequestShape, Stations, Guarded
    <3>3. ASSUME NEW r, req' = [req EXCEPT ![t] = r], r.kind \notin Pipeline,
                 Carries(r) => Carries(req[t]) /\ r.story = req[t].story
          PROVE  LockInv'
      <4>1. Carries(r) => r.story \in Stories /\ Begun(r.story)
        BY <2>c, <3>2, <3>3 DEF Working
      <4> QED
        BY <2>0, <2>b, <3>1, <3>2, <3>3, <4>1, OtherRequest
    <3>4. CASE Answer(t)
      <4>1. NoReq.kind \notin Pipeline
        BY DEF NoReq
      <4> QED
        BY <3>3, <3>4, <4>1, NothingInHand DEF Answer
    <3>5. CASE req[t].kind = "reset" /\ req[t].at = "fence" /\ req' = [req EXCEPT ![t] = Aim(req[t], "Reset Failed")]
      <4> DEFINE r == Aim(req[t], "Reset Failed")
      <4>1. r.kind = "reset" /\ r.goal = "Reset Failed" /\ r.at = "read" /\ r.snap = NoRow
        BY <3>2, <3>5 DEF Aim, Working, RequestShape, Requests
      <4>2. ~Carries(r)
        <5> HIDE DEF r
        <5> QED
          BY <2>n, <4>1 DEF Carries
      <4> QED
        BY <3>3, <3>5, <4>1, <4>2
    <3>6. ASSUME NEW a \in Places, Goto(t, a), req[t].kind = "reset" => req[t].at = "fence" PROVE LockInv'
      <4> DEFINE r == [req[t] EXCEPT !.at = a]
      <4>1. r.kind = req[t].kind /\ r.goal = req[t].goal /\ r.at = a /\ r.snap = req[t].snap /\ r.story = req[t].story
        BY <3>2 DEF Working, RequestShape, Requests
      <4>2. req' = [req EXCEPT ![t] = r]
        BY <3>6 DEF Goto
      <4>3. Carries(r) => Carries(req[t])
        <5> HIDE DEF r
        <5> QED
          BY <3>6, <4>1 DEF Carries
      <4> HIDE DEF r
      <4> QED
        BY <3>2, <3>3, <4>1, <4>2, <4>3
    <3> QED
      BY <2>2, <3>2, <3>4, <3>5, <3>6
         DEF ClaimOp, ReleaseOp, FinalizeOp, AcquireExitClaim, CommitTeardown, CommitSplitFence,
             AcquireResetFence, ReleaseResetFence, At, Places, Working, RequestShape, Stations
  <2>3. ASSUME NEW t \in Threads, get_story(t) PROVE LockInv'
    <3>s. PICK s \in Stories : s = req[t].story
      BY <2>3, <2>w DEF get_story, Working
    <3> DEFINE a == IF req[t].kind \in Guarded \union {"exit", "split"} THEN "claim" ELSE "save"
               r == [req[t] EXCEPT !.snap = row[s], !.at = a]
    <3>1. /\ Working(t) /\ req[t].at = "read" /\ req' = [req EXCEPT ![t] = r]
          /\ UNCHANGED <<row, holder, ctx, setup, closure>>
      BY <2>3, <2>w, <3>s DEF get_story
    <3>2. /\ r.kind = req[t].kind /\ r.story = s /\ r.goal = req[t].goal /\ r.snap = row[s] /\ r.at = a
          /\ r.fresh = req[t].fresh /\ a \in {"claim", "save"} /\ s \in Stories
      BY <3>1, <3>s DEF Working, RequestShape, Requests
    <3> HIDE DEF r, a
    <3>3. Carries(r) => Begun(s)
      BY <2>b, <2>c, <3>1, <3>2, <3>s DEF Carries
    <3>4. CASE req[t].kind \notin Pipeline
      BY <2>0, <2>b, <3>1, <3>2, <3>3, <3>4, OtherRequest
    <3>5. CASE req[t].kind \in Pipeline
      <4>1. req'[t] = r
        BY <2>0, <3>1 DEF Reqs
      <4>2. ASSUME NEW x \in Stories PROVE Begun(x)' => Begun(x)
        BY <2>0, <2>b, <3>1, <3>2, <3>3, NobodyBegins
      <4>3. ASSUME NEW x \in Stories PROVE InSetup(x)' <=> InSetup(x)
        BY <2>0, <3>1, <3>2, <3>s DEF InSetup, Works, Reqs
      <4>4. /\ StoryHolds(s)
            /\ req[t].kind = "setup" => SetupHolds(t, s)
            /\ req[t].kind = "closure" => ClosureHolds(t, s)
        BY <3>2, <3>s DEF LockInv, StoryHolds, Works
      <4>5. Begun(s)' => Kept(s)'
        BY <3>1, <3>2, <4>2, <4>3, <4>4 DEF StoryHolds, Kept
      <4>6. r.kind = "setup" => SetupHolds(t, s)'
        BY <3>1, <3>2, <4>1, <4>2, <4>4 DEF SetupHolds
      <4>7. r.kind = "closure" => ClosureHolds(t, s)'
        <5>1. a = "save"
          BY <3>5 DEF a, Guarded
        <5> QED
          BY <3>1, <3>2, <4>1, <4>4, <5>1 DEF ClosureHolds
      <4>8. RunHolds(s)' /\ OneMode'
        BY <3>1, <4>4 DEF StoryHolds, RunHolds, InRun, LockInv, OneMode
      <4> QED
        BY <2>0, <3>1, <3>2, <3>5, <3>s, <4>5, <4>6, <4>7, <4>8, PipelineStep
    <3> QED
      BY <3>4, <3>5
  <2>4. ASSUME NEW t \in Threads, PurgeRun(t) PROVE LockInv'
    <3>s. PICK s \in Stories : s = req[t].story
      BY <2>4, <2>w DEF PurgeRun, At, Working
    <3>1. Working(t) /\ req[t].kind = "reset" /\ req[t].at = "purge" /\ req[t].story = s
      BY <2>4, <2>w, <3>s DEF PurgeRun, At
    <3>2. UNCHANGED <<row, holder, ctx>>
      BY <2>4 DEF PurgeRun
    <3>3. Begun(s) /\ Carries(req[t])
      BY <2>c, <3>1 DEF Carries
    <3>4. ASSUME NEW g \in {"In Progress", "Reset Failed"}
          PROVE  /\ Aim(req[t], g).kind = "reset" /\ Aim(req[t], g).story = s /\ Aim(req[t], g).goal = g
                 /\ Aim(req[t], g).at = "read" /\ Aim(req[t], g).snap = NoRow
      BY <3>1 DEF Aim, Working, RequestShape, Requests
    <3>5. CASE req' = [req EXCEPT ![t] = Aim(req[t], "Reset Failed")] /\ UNCHANGED <<setup, closure>>
      <4> DEFINE r == Aim(req[t], "Reset Failed")
      <4>1. ~Carries(r)
        BY <2>n, <3>4 DEF Carries
      <4>2. r.kind = "reset"
        BY <3>4
      <4> HIDE DEF r
      <4> QED
        BY <2>0, <2>b, <3>1, <3>2, <3>5, <4>1, <4>2, OtherRequest DEF r
    <3>6. CASE /\ setup' = [setup EXCEPT ![s] = "purged"] /\ closure' = [closure EXCEPT ![s] = "purged"]
               /\ req' = [req EXCEPT ![t] = Aim(req[t], "In Progress")]
      <4> DEFINE r == Aim(req[t], "In Progress")
      <4>1. r.kind = "reset" /\ r.story = s
        BY <3>4
      <4> HIDE DEF r
      <4>2. \A t2 \in Threads : req'[t2] = IF t2 = t THEN r ELSE req[t2]
        BY <2>0, <3>6 DEF Reqs, r
      <4>3. ASSUME NEW x \in Stories PROVE Begun(x)' => Begun(x)
        BY <2>0, <2>b, <3>1, <3>2, <3>3, <3>6, <4>1, NobodyBegins DEF r
      <4>x. ASSUME NEW x \in Stories, x # s PROVE setup'[x] = setup[x] /\ closure'[x] = closure[x]
        <5>1. DOMAIN setup = Stories /\ DOMAIN closure = Stories
          BY <2>0 DEF Tables
        <5> QED
          BY <3>6, <4>x, <5>1
      <4>y. \A x \in Stories \ {s} : setup'[x] = setup[x] /\ closure'[x] = closure[x]
        BY <4>x
      <4>4. ASSUME NEW x \in Stories \ {s} PROVE StoryHolds(x)'
        <5>1. /\ holder'[x] = holder[x] /\ ctx'[x] = ctx[x] /\ setup'[x] = setup[x] /\ closure'[x] = closure[x]
          BY <3>2, <4>y
        <5> QED
          BY <3>1, <4>1, <4>2, <4>3, <5>1, Elsewhere DEF LockInv
      <4>5. setup'[s] = "purged" /\ closure'[s] = "purged" /\ holder'[s] = holder[s] /\ ctx'[s] = ctx[s]
        BY <2>0, <3>1, <3>2, <3>6 DEF Tables
      <4>6. StoryHolds(s)
        BY <3>1 DEF LockInv
      <4>7. Kept(s)'
        <5>1. Kept(s)
          BY <3>3, <4>6 DEF StoryHolds
        <5>2. ASSUME InSetup(s)' PROVE holder[s] # "none"
          <6>1. PICK t2 \in Threads : Works(t2, "setup", s)'
            BY <5>2 DEF InSetup
          <6>2. Works(t2, "setup", s)
            BY <4>1, <4>2, <6>1 DEF Works
          <6>3. InSetup(s) /\ closure[s] \in {"none", "purged"}
            BY <4>6, <6>2 DEF InSetup, StoryHolds, SetupHolds
          <6> QED
            BY <5>1, <6>3 DEF Kept
        <5> QED
          BY <4>5, <5>2 DEF Kept
      <4>8. ASSUME NEW t2 \in Threads, Works(t2, "setup", s)' PROVE SetupHolds(t2, s)'
        <5>1. Works(t2, "setup", s) /\ req'[t2] = req[t2]
          BY <4>1, <4>2, <4>8 DEF Works
        <5> QED
          BY <4>3, <3>1, <4>5, <4>6, <5>1 DEF StoryHolds, SetupHolds
      <4>9. ASSUME NEW t2 \in Threads, Works(t2, "closure", s)' PROVE ClosureHolds(t2, s)'
        BY <4>5 DEF ClosureHolds
      <4>10. RunHolds(s)'
        BY <4>5 DEF RunHolds, InRun
      <4>11. StoryHolds(s)'
        BY <4>7, <4>8, <4>9, <4>10 DEF StoryHolds
      <4>12. OnePipeline' /\ OneMode'
        BY <3>1, <3>2, <4>1, <4>2 DEF LockInv, OnePipeline, OneMode
      <4> QED
        BY <4>4, <4>11, <4>12 DEF LockInv
    <3> QED
      BY <2>4, <3>5, <3>6, <3>s DEF PurgeRun
  <2>5. ASSUME NEW t \in Threads, Save(t) PROVE LockInv'
    <3>s. PICK s \in Stories : s = req[t].story
      BY <2>5, <2>w DEF Save, Working
    <3>1. Working(t) /\ req[t].at = "save" /\ req[t].story = s /\ UNCHANGED <<holder, ctx, setup, closure>>
      BY <2>5, <2>w, <3>s DEF Save
    <3> DEFINE q == req[t]
    <3>2. \/ row' = row
          \/ check_transition(q) /\ ~Unsaved(q) /\ row' = [row EXCEPT ![s] = Changed(q)]
      BY <2>5, <3>s DEF Save
    <3>3. \/ check_transition(q) /\ req' = [req EXCEPT ![t] = Written(q)]
          \/ ~check_transition(q) /\ req' = [req EXCEPT ![t] = Refused(q)] /\ row' = row
      BY <2>5 DEF Save
    <3>4. q \in Requests /\ q.snap \in Rows
      BY <3>1 DEF Working, RequestShape
    <3>5. \A x \in Stories \ {s} : row'[x] = row[x]
      <4>1. ASSUME NEW x \in Stories, x # s PROVE row'[x] = row[x]
        BY <2>0, <3>2, <4>1 DEF Tables
      <4> QED
        BY <4>1
    <3>6. row'[s] = row[s] \/ (row'[s] = Changed(q) /\ check_transition(q))
      BY <2>0, <3>2 DEF Tables
    <3>7. ASSUME NEW a PROVE LET r == [q EXCEPT !.snap = NoRow, !.at = a]
                             IN  /\ r.kind = q.kind /\ r.story = s /\ r.goal = q.goal /\ r.snap = NoRow
                                 /\ r.at = a /\ r.fresh = q.fresh
      BY <3>1, <3>4 DEF Requests
    <3>8. CASE q.kind = "setup"
      <4>1. StoryHolds(s) /\ SetupHolds(t, s) /\ q.goal = "In Progress"
        BY <3>1, <3>8 DEF LockInv, StoryHolds, Works, Working, RequestShape
      <4>2. holder[s] = ctx[s] /\ ctx[s] \in Modes /\ holder[s] # "none"
        BY <3>1, <4>1 DEF SetupHolds, Modes
      <4>3. Kept(s)' /\ OneMode' /\ RunHolds(s)'
        BY <3>1, <4>1, <4>2 DEF Kept, LockInv, OneMode, StoryHolds, RunHolds, InRun
      <4>4. PICK a \in {"return", "compensate", "failed"} :
               /\ req' = [req EXCEPT ![t] = [q EXCEPT !.snap = NoRow, !.at = a]]
               /\ a = "compensate" => q.fresh /\ row' = row
        BY <3>3, <3>8 DEF Written, Refused, Guarded
      <4> DEFINE r == [q EXCEPT !.snap = NoRow, !.at = a]
      <4>5. r.kind = "setup" /\ r.story = s /\ r.snap = NoRow /\ r.at = a /\ r.fresh = q.fresh
        BY <3>7, <3>8
      <4> HIDE DEF r, q
      <4>6. req'[t] = r /\ ~Carries(r)
        BY <2>0, <2>n, <4>4, <4>5 DEF Reqs, Carries, r
      <4>7. SetupHolds(t, s)'
        <5>1. a = "compensate" => ~Begun(s)'
          <6>1. a = "compensate" => (Begun(s)' => Begun(s))
            BY <2>0, <2>b, <4>4, <4>6, NobodyBegins DEF r
          <6>2. a = "compensate" => ~Begun(s)
            BY <3>1, <4>1, <4>4 DEF SetupHolds, q
          <6> QED
            BY <6>1, <6>2
        <5> QED
          BY <3>1, <4>1, <4>2, <4>4, <4>5, <4>6, <5>1 DEF SetupHolds
      <4> QED
        BY <2>0, <3>1, <3>5, <3>8, <4>3, <4>4, <4>5, <4>6, <4>7, PipelineStep DEF q, r
    <3>9. CASE q.kind = "closure"
      <4>1. StoryHolds(s) /\ ClosureHolds(t, s) /\ q.goal = "Done"
        BY <3>1, <3>9 DEF LockInv, StoryHolds, Works, Working, RequestShape, Target
      <4>2. OneMode' /\ RunHolds(s)'
        BY <3>1, <4>1 DEF LockInv, OneMode, StoryHolds, RunHolds, InRun
      <4>3. PICK a \in {"checkpoint", "failed"} : req' = [req EXCEPT ![t] = [q EXCEPT !.snap = NoRow, !.at = a]]
        BY <3>3, <3>9 DEF Written, Refused, Guarded
      <4> DEFINE r == [q EXCEPT !.snap = NoRow, !.at = a]
      <4>4. r.kind = "closure" /\ r.story = s /\ r.snap = NoRow /\ r.at = a
        BY <3>7, <3>9
      <4>5. row'[s].status \in Begins => row[s].status \in Begins
        BY <3>4, <3>6, <3>9, <4>1 DEF Changed, Begins, Rows
      <4> HIDE DEF r, q
      <4>6. req'[t] = r /\ ~Carries(r)
        BY <2>0, <2>n, <4>3, <4>4 DEF Reqs, Carries, r
      <4>7. Begun(s)' => Begun(s)
        BY <2>0, <2>b, <4>3, <4>5, <4>6, NobodyBegins DEF r
      <4>8. InSetup(s)' <=> InSetup(s)
        BY <2>0, <3>9, <4>3, <4>4 DEF InSetup, Works, Reqs, r, q
      <4>9. Begun(s)' => Kept(s)'
        BY <3>1, <4>1, <4>7, <4>8 DEF StoryHolds, Kept
      <4>10. ClosureHolds(t, s)'
        BY <3>1, <4>1, <4>4, <4>6 DEF ClosureHolds
      <4> QED
        BY <2>0, <3>1, <3>5, <3>9, <4>2, <4>3, <4>4, <4>6, <4>9, <4>10, PipelineStep DEF q, r
    <3>10. CASE q.kind \notin Pipeline
      <4>1. Changed(q).status \in Begins /\ check_transition(q) => Carries(q)
        <5>1. CASE q.kind \in Guarded \union {"exit", "split"}
          <6>1. q.goal = Target(q.kind)
            BY <3>1, <5>1 DEF Working, RequestShape
          <6> QED
            BY <3>4, <5>1, <6>1 DEF Changed, Carries, Begins, Target, Guarded, Rows
        <5>2. CASE q.kind = "reset"
          <6>1. q.goal \in {"Resetting", "In Progress", "Reset Failed"}
            BY <3>1, <5>2 DEF Working, RequestShape
          <6>2. q.goal \in {"Resetting", "Reset Failed"} /\ check_transition(q) => q.snap.status \in Begins
            BY <5>2 DEF check_transition, AllowedTransitions, Begins
          <6> QED
            BY <5>2, <6>1, <6>2 DEF Carries
        <5> QED
          BY <3>1, <3>10, <5>1, <5>2 DEF Working, AllKinds, Guarded
      <4>2. \A x \in Stories : row'[x].status \in Begins => Begun(x)
        BY <2>b, <2>c, <3>1, <3>5, <3>6, <4>1
      <4>3. PICK r : /\ req' = [req EXCEPT ![t] = r] /\ r.kind \notin Pipeline
                     /\ Carries(r) => r.story = s /\ Carries(q)
        <5>1. CASE q.kind \in Guarded \union {"exit", "split"}
          <6> DEFINE r == [q EXCEPT !.snap = NoRow, !.at = "finalize"]
          <6>1. req' = [req EXCEPT ![t] = r]
            BY <3>3, <5>1 DEF Written, Refused, Guarded
          <6>2. r.kind = q.kind /\ r.kind # "reset" /\ r.snap = NoRow
            BY <3>7, <5>1 DEF Guarded
          <6> HIDE DEF r
          <6> QED
            BY <2>n, <3>10, <6>1, <6>2 DEF Carries
        <5>2. CASE q.kind = "reset"
          <6>1. q.goal \in {"Resetting", "In Progress", "Reset Failed"}
            BY <3>1, <5>2 DEF Working, RequestShape
          <6>2. check_transition(q) /\ q.goal = "Resetting" => Carries(q)
            BY <5>2 DEF check_transition, AllowedTransitions, Begins, Carries
          <6>3. \/ check_transition(q) /\ q.goal = "Resetting" /\ req' = [req EXCEPT ![t] = [q EXCEPT !.snap = NoRow, !.at = "fence"]]
                \/ q.goal = "In Progress" /\ req' = [req EXCEPT ![t] = [q EXCEPT !.snap = NoRow, !.at = "release"]]
                \/ req' = [req EXCEPT ![t] = NoReq]
                \/ req' = [req EXCEPT ![t] = Aim(q, "Reset Failed")]
            BY <3>3, <5>2, <6>1 DEF Written, Refused, Guarded
          <6>4. CASE \E a \in {"fence", "release"} : Carries(q) /\ req' = [req EXCEPT ![t] = [q EXCEPT !.snap = NoRow, !.at = a]]
            BY <3>7, <5>2, <6>4
          <6>5. CASE req' = [req EXCEPT ![t] = NoReq]
            <7>1. NoReq.kind = "none"
              BY DEF NoReq
            <7> QED
              BY <6>5, <7>1, NothingInHand
          <6>6. CASE req' = [req EXCEPT ![t] = Aim(q, "Reset Failed")]
            <7> DEFINE r == Aim(q, "Reset Failed")
            <7>1. r.kind = "reset" /\ r.goal = "Reset Failed" /\ r.at = "read" /\ r.snap = NoRow
              BY <3>4, <5>2 DEF Aim, Requests
            <7>2. ~Carries(r)
              <8> HIDE DEF r
              <8> QED
                BY <2>n, <7>1 DEF Carries
            <7> QED
              BY <6>6, <7>1, <7>2
          <6> QED
            BY <5>2, <6>2, <6>3, <6>4, <6>5, <6>6 DEF Carries
        <5> QED
          BY <3>1, <3>10, <5>1, <5>2 DEF Working, AllKinds, Guarded
      <4>4. Carries(r) => r.story \in Stories /\ Begun(r.story)
        BY <2>c, <3>1, <4>3
      <4> QED
        BY <2>0, <3>1, <3>10, <4>2, <4>3, <4>4, OtherRequest
    <3> QED
      BY <3>8, <3>9, <3>10
  <2>g. ASSUME NEW t \in Threads, Working(t), req[t].at \notin {"claim", "save"}, req[t].kind \in Pipeline, NEW a
        PROVE  LET r == [req[t] EXCEPT !.at = a]
               IN  /\ r.kind = req[t].kind /\ r.story = req[t].story /\ r.at = a /\ r.fresh = req[t].fresh
                   /\ r.snap = NoRow /\ ~Carries(r)
    <3> DEFINE r == [req[t] EXCEPT !.at = a]
    <3>1. /\ r.kind = req[t].kind /\ r.story = req[t].story /\ r.at = a /\ r.fresh = req[t].fresh /\ r.snap = NoRow
      BY <2>g DEF Working, RequestShape, Requests
    <3> HIDE DEF r
    <3>2. ~Carries(r)
      BY <2>g, <2>n, <3>1 DEF Carries
    <3> QED
      BY <3>1, <3>2 DEF r
  <2>6. ASSUME NEW t \in Threads, Preflight(t) \/ Enrich(t) \/ EndSetup(t) PROVE LockInv'
    <3>s. PICK s \in Stories : s = req[t].story
      BY <2>6, <2>w DEF Preflight, Enrich, EndSetup, At, Working
    <3>1. Working(t) /\ Works(t, "setup", s) /\ req[t].at \in {"preflight", "enrich", "return", "failed"}
      BY <2>6, <2>w, <3>s DEF Preflight, Enrich, EndSetup, At, Works
    <3>2. UNCHANGED <<row, holder, closure>>
      BY <2>6 DEF Preflight, Enrich, EndSetup
    <3>3. \A y \in Stories \ {s} : ctx'[y] = ctx[y]
      <4>1. ASSUME NEW y \in Stories, y # s PROVE ctx'[y] = ctx[y]
        BY <2>0, <2>6, <3>s, <4>1 DEF Preflight, Enrich, EndSetup, Tables
      <4> QED
        BY <4>1
    <3>4. CASE \E x \in {"paused", "failed"} : SetupReturns(t, x)
      BY <2>0, <3>1, <3>2, <3>3, <3>4, SetupEnds
    <3>5. CASE req[t].at = "return" /\ ctx' = ctx /\ SetupReturns(t, "completed")
      BY <2>0, <3>1, <3>2, <3>3, <3>5, SetupEnds
    <3>6. ASSUME NEW a \in {"enrich", "acquire"}, Goto(t, a), setup' = setup, a = "acquire" => ctx'[s] \in Modes PROVE LockInv'
      <4> DEFINE r == [req[t] EXCEPT !.at = a]
      <4>1. r.kind = "setup" /\ r.story = s /\ ~Carries(r) /\ r.at = a
        BY <2>g, <3>1 DEF Works
      <4>2. req' = [req EXCEPT ![t] = r]
        BY <3>6 DEF Goto
      <4>3. OneMode' /\ (Begun(s) => holder'[s] # "none")
        BY <3>1, <3>2, BegunInSetup DEF LockInv, OneMode
      <4> HIDE DEF r
      <4> QED
        BY <2>0, <3>1, <3>2, <3>3, <3>6, <4>1, <4>2, <4>3, SetupMoves
    <3>7. ctx' = [ctx EXCEPT ![s] = row[s].mode] => ctx'[s] \in Modes
      BY <2>0 DEF Tables, Rows
    <3> QED
      BY <2>6, <3>s, <3>4, <3>5, <3>6, <3>7 DEF Preflight, Enrich, EndSetup, At
  <2>7. ASSUME NEW t \in Threads, AcquireModeLock(t) PROVE LockInv'
    <3>s. PICK s \in Stories : s = req[t].story
      BY <2>7, <2>w DEF AcquireModeLock, At, Working
    <3>1. Working(t) /\ Works(t, "setup", s) /\ req[t].at = "acquire" /\ UNCHANGED <<row, ctx, closure>>
      BY <2>7, <2>w, <3>s DEF AcquireModeLock, At, Works
    <3>2. CASE SetupReturns(t, "failed") /\ UNCHANGED holder
      BY <2>0, <3>1, <3>2, SetupEnds
    <3>3. CASE /\ acquire(s, ctx[s]) /\ setup' = setup
               /\ req' = [req EXCEPT ![t].fresh = holder[s] = "none", ![t].goal = "In Progress",
                                     ![t].at = IF marker[s] = "none" THEN "marker" ELSE "read"]
      <4> DEFINE f == holder[s] = "none"
                 a == IF marker[s] = "none" THEN "marker" ELSE "read"
                 r == [req[t] EXCEPT !.fresh = f, !.goal = "In Progress", !.at = a]
      <4>1. req' = [req EXCEPT ![t] = r]
        BY <3>3
      <4>2. a \in {"marker", "read"} /\ (f <=> holder[s] = "none")
        OBVIOUS
      <4>3. r.kind = "setup" /\ r.story = s /\ r.snap = NoRow /\ r.at = a /\ r.fresh = f
        <5> HIDE DEF a, f
        <5> QED
          BY <3>1 DEF Working, RequestShape, Requests, Works
      <4> HIDE DEF r, a, f
      <4>4. ~Carries(r)
        BY <2>n, <4>3 DEF Carries
      <4>5. StoryHolds(s) /\ SetupHolds(t, s) /\ (Begun(s) => holder[s] # "none")
        BY <3>1, BegunInSetup
      <4>6. holder'[s] = ctx[s] /\ ctx[s] \in Modes
        BY ZenonT(40), <2>0, <3>1, <3>3, <4>5 DEF acquire, SetupHolds, Tables
      <4>x. ASSUME NEW y \in Stories, y # s PROVE holder'[y] = holder[y]
        BY ZenonT(40), <2>0, <3>3, <4>x DEF acquire, Tables
      <4>7. \A y \in Stories \ {s} : holder'[y] = holder[y]
        BY <4>x
      <4>8. OneMode'
        <5>1. \A y \in Stories : holder'[y] # "none" => holder'[y] = ctx[s]
          BY <3>3, <4>6, <4>7 DEF acquire, HeldModes
        <5> QED
          BY <5>1 DEF OneMode
      <4>9. holder'[s] # "none" /\ (r.fresh => ~Begun(s))
        BY <4>2, <4>3, <4>5, <4>6 DEF Modes
      <4>10. r.kind = "setup" /\ r.story = s /\ r.at \in {"marker", "read"}
        BY <4>2, <4>3
      <4>11. UNCHANGED <<row, setup, closure>> /\ \A y \in Stories \ {s} : holder'[y] = holder[y] /\ ctx'[y] = ctx[y]
        BY <3>1, <3>3, <4>7
      <4>12. holder'[s] = ctx'[s] /\ ctx'[s] \in Modes
        BY <3>1, <4>6
      <4> QED
        BY <2>0, <3>1, <4>1, <4>4, <4>8, <4>9, <4>10, <4>11, <4>12, SetupMoves
    <3> QED
      BY <2>7, <3>s, <3>2, <3>3 DEF AcquireModeLock
  <2>8. ASSUME NEW t \in Threads, WriteMarker(t) \/ Compensate(t) PROVE LockInv'
    <3>s. PICK s \in Stories : s = req[t].story
      BY <2>8, <2>w DEF WriteMarker, Compensate, At, Working
    <3>1. Working(t) /\ Works(t, "setup", s) /\ UNCHANGED <<row, ctx, setup, closure>>
      BY <2>8, <2>w, <3>s DEF WriteMarker, Compensate, At, Works
    <3>2. StoryHolds(s) /\ SetupHolds(t, s) /\ (Begun(s) => holder[s] # "none")
      BY <3>1, BegunInSetup
    <3>a. PICK a : /\ Goto(t, a) /\ req[t].at \in {"marker", "compensate"}
                   /\ IF req[t].at = "marker" THEN a \in {"read", "failed"} ELSE a = "clear"
      BY <2>8 DEF WriteMarker, Compensate, At
    <3> DEFINE r == [req[t] EXCEPT !.at = a]
    <3>3. req' = [req EXCEPT ![t] = r] /\ req[t].at \in {"marker", "compensate"}
      BY <3>a DEF Goto
    <3>4. r.kind = "setup" /\ r.story = s /\ ~Carries(r) /\ r.at = a /\ r.fresh = req[t].fresh
      BY <2>g, <3>1, <3>3 DEF Works
    <3> HIDE DEF r
    <3>5. CASE WriteMarker(t)
      <4>1. holder' = holder /\ a \in {"read", "failed"} /\ req[t].at = "marker"
        BY <3>5, <3>a DEF WriteMarker, At
      <4>2. OneMode'
        BY <4>1 DEF LockInv, OneMode
      <4> QED
        BY <2>0, <3>1, <3>2, <3>3, <3>4, <4>1, <4>2, SetupMoves DEF SetupHolds
    <3>6. CASE Compensate(t)
      <4>1. /\ a = "clear" /\ req[t].at = "compensate"
            /\ holder' = [holder EXCEPT ![s] = "none"] \/ holder' = holder
        BY <3>s, <3>6, <3>a DEF Compensate, At, release
      <4>x. ASSUME NEW y \in Stories, y # s PROVE holder'[y] = holder[y]
        BY <2>0, <4>1, <4>x DEF Tables
      <4>2. holder'[s] \in {"none", holder[s]} /\ \A y \in Stories \ {s} : holder'[y] = holder[y]
        BY <2>0, <4>1, <4>x DEF Tables
      <4>3. OneMode'
        BY <4>2 DEF LockInv, OneMode
      <4>4. ~Begun(s)
        BY <3>2, <4>1 DEF SetupHolds
      <4> QED
        BY <2>0, <3>1, <3>3, <3>4, <4>1, <4>2, <4>3, <4>4, SetupMoves
    <3> QED
      BY <2>8, <3>5, <3>6
  <2>9. ASSUME NEW t \in Threads, ClearMarker(t) PROVE LockInv'
    <3>s. PICK s \in Stories : s = req[t].story
      BY <2>9, <2>w DEF ClearMarker, Working
    <3>1. /\ Working(t) /\ req[t].story = s /\ req[t].kind \in Pipeline /\ req[t].at = "clear"
          /\ UNCHANGED <<row, ctx, setup, closure, holder>>
      BY <2>9, <2>w, <3>s DEF ClearMarker, Working, RequestShape, Stations
    <3> DEFINE a == IF req[t].kind = "setup" THEN "failed" ELSE "return"
               r == [req[t] EXCEPT !.at = a]
    <3>2. req' = [req EXCEPT ![t] = r] /\ a \in {"failed", "return"}
      BY <2>9 DEF ClearMarker, Goto
    <3>3. r.kind = req[t].kind /\ r.story = s /\ ~Carries(r) /\ r.at = a
      BY <2>g, <3>1
    <3>4. OneMode'
      BY <3>1 DEF LockInv, OneMode
    <3> HIDE DEF r
    <3>5. CASE req[t].kind = "setup"
      <4>1. Works(t, "setup", s) /\ a = "failed" /\ (Begun(s) => holder[s] # "none")
        BY <3>1, <3>5, BegunInSetup DEF Works
      <4> QED
        BY <2>0, <3>1, <3>2, <3>3, <3>4, <3>5, <4>1, SetupMoves
    <3>6. CASE req[t].kind = "closure"
      <4>1. Works(t, "closure", s) /\ a = "return" /\ ClosureHolds(t, s)
        BY <3>1, <3>6 DEF Works, LockInv, StoryHolds
      <4> QED
        BY <2>0, <3>1, <3>2, <3>3, <3>6, <4>1, ClosureMoves DEF ClosureHolds
    <3> QED
      BY <3>1, <3>5, <3>6
  <2>10. ASSUME NEW t \in Threads, CheckpointClosed(t) \/ ReleaseModeLock(t) PROVE LockInv'
    <3>s. PICK s \in Stories : s = req[t].story
      BY <2>10, <2>w DEF CheckpointClosed, ReleaseModeLock, At, Working
    <3>1. /\ Working(t) /\ Works(t, "closure", s) /\ req[t].at \in {"checkpoint", "release"}
          /\ UNCHANGED <<row, ctx, setup>>
      BY <2>10, <2>w, <3>s DEF CheckpointClosed, ReleaseModeLock, At, Works
    <3>2. ClosureHolds(t, s)
      BY <3>1 DEF LockInv, StoryHolds
    <3>3. PICK a \in {"release", "clear", "return"} : Goto(t, a)
      BY <2>10 DEF CheckpointClosed, ReleaseModeLock
    <3> DEFINE r == [req[t] EXCEPT !.at = a]
    <3>4. req' = [req EXCEPT ![t] = r]
      BY <3>3 DEF Goto
    <3>5. r.kind = "closure" /\ r.story = s /\ ~Carries(r) /\ r.at = a
      BY <2>g, <3>1 DEF Works
    <3> HIDE DEF r
    <3>6. /\ \/ holder' = holder
             \/ req[t].at = "release" /\ holder' = [holder EXCEPT ![s] = "none"]
          /\ \/ req[t].at = "release" /\ closure' = closure
             \/ req[t].at = "checkpoint" /\ holder' = holder /\ closure' = [closure EXCEPT ![s] = "closed"]
      BY <2>10, <3>s DEF CheckpointClosed, ReleaseModeLock, At, release
    <3>x. ASSUME NEW y \in Stories, y # s PROVE holder'[y] = holder[y] /\ closure'[y] = closure[y]
      BY <2>0, <3>6, <3>x DEF Tables
    <3>7. \A y \in Stories \ {s} : holder'[y] = holder[y] /\ closure'[y] = closure[y]
      BY <3>x
    <3>8. /\ holder'[s] \in {"none", holder[s]}
          /\ holder'[s] = holder[s] \/ (req[t].at = "release" /\ closure'[s] = closure[s])
          /\ closure'[s] = IF req[t].at = "checkpoint" THEN "closed" ELSE closure[s]
      BY <2>0, <3>6 DEF Tables
    <3>9. setup[s] = "completed" => closure[s] = IF req[t].at = "checkpoint" THEN "running" ELSE "closed"
      BY <3>1, <3>2 DEF ClosureHolds
    <3> QED
      BY <2>0, <3>1, <3>4, <3>5, <3>7, <3>8, <3>9, ClosureMoves
  <2>11. ASSUME NEW t \in Threads, EndClosure(t) PROVE LockInv'
    <3>s. PICK s \in Stories : s = req[t].story
      BY <2>11, <2>w DEF EndClosure, At, Working
    <3>1. /\ Works(t, "closure", s) /\ UNCHANGED <<row, ctx, setup, holder>>
          /\ req' = [req EXCEPT ![t] = NoReq]
          /\ \/ req[t].at = "return" /\ closure' = [closure EXCEPT ![s] = "completed"]
             \/ req[t].at = "failed" /\ closure' = [closure EXCEPT ![s] = "failed"]
      BY <2>11, <3>s DEF EndClosure, At, Works, Answer
    <3>2. ClosureHolds(t, s)
      BY <3>1 DEF LockInv, StoryHolds
    <3>x. ASSUME NEW y \in Stories, y # s PROVE closure'[y] = closure[y]
      BY <2>0, <3>1, <3>x DEF Tables
    <3>3. \A y \in Stories \ {s} : holder'[y] = holder[y] /\ closure'[y] = closure[y]
      BY <3>1, <3>x
    <3>4. closure'[s] = IF req[t].at = "return" THEN "completed" ELSE "failed"
      BY <2>0, <3>1 DEF Tables
    <3>5. setup[s] = "completed" => closure[s] = IF req[t].at = "return" THEN "closed" ELSE "running"
      BY <3>1, <3>2 DEF ClosureHolds
    <3>6. NoReq.kind = "none"
      BY DEF NoReq
    <3> QED
      BY <2>0, <3>1, <3>3, <3>4, <3>5, <3>6, NothingInHand, ClosureMoves
  <2>12. ASSUME NEW t \in Threads, NEW s \in Stories, StartSetup(t, s) \/ StartClosure(t, s) PROVE LockInv'
    <3>1. req[t] = NoReq /\ ~InPipeline(s) /\ UNCHANGED <<row, ctx, setup, holder>>
      BY <2>12 DEF StartSetup, StartClosure
    <3>2. PICK r : /\ req' = [req EXCEPT ![t] = r] /\ r.story = s /\ r.snap = NoRow /\ r.fresh = FALSE
                   /\ \/ StartSetup(t, s) /\ r.kind = "setup" /\ r.at = "preflight"
                      \/ StartClosure(t, s) /\ r.kind = "closure" /\ r.at = "read"
      <4>1. CASE StartSetup(t, s)
        <5> DEFINE r == [NoReq EXCEPT !.kind = "setup", !.story = s, !.at = "preflight"]
        <5>1. r.story = s /\ r.snap = NoRow /\ r.fresh = FALSE /\ r.kind = "setup" /\ r.at = "preflight"
          BY DEF NoReq
        <5>2. req' = [req EXCEPT ![t] = r]
          BY <4>1 DEF StartSetup
        <5> HIDE DEF r
        <5> QED
          BY <4>1, <5>1, <5>2
      <4>2. CASE StartClosure(t, s)
        <5> DEFINE r == [NoReq EXCEPT !.kind = "closure", !.story = s, !.at = "read", !.goal = "Done"]
        <5>1. r.story = s /\ r.snap = NoRow /\ r.fresh = FALSE /\ r.kind = "closure" /\ r.at = "read"
          BY DEF NoReq
        <5>2. req' = [req EXCEPT ![t] = r]
          BY <4>2 DEF StartClosure
        <5> HIDE DEF r
        <5> QED
          BY <4>2, <5>1, <5>2
      <4> QED
        BY <2>12, <4>1, <4>2
    <3>3. ~Carries(r) /\ NoReq.kind = "none"
      BY <2>n, <3>2 DEF Carries, NoReq
    <3>4. \A t2 \in Threads : req'[t2] = IF t2 = t THEN r ELSE req[t2]
      BY <2>0, <3>2 DEF Reqs
    <3>5. \A t2 \in Threads : ~(req[t2].story = s /\ req[t2].kind \in Pipeline)
      BY <3>1 DEF InPipeline
    <3>6. OnePipeline' /\ OneMode'
      BY <3>1, <3>4, <3>5, <3>2 DEF LockInv, OnePipeline, OneMode
    <3>x. ASSUME NEW y \in Stories, y # s PROVE closure'[y] = closure[y]
      BY <2>0, <2>12, <3>x DEF StartSetup, StartClosure, Tables
    <3>7. ASSUME NEW y \in Stories PROVE Begun(y)' => Begun(y)
      BY <2>0, <2>b, <3>1, <3>2, <3>3, NobodyBegins
    <3>8. ASSUME NEW y \in Stories, y # s PROVE StoryHolds(y)'
      <4>1. \A t2 \in Threads : /\ req'[t2].kind \in Pipeline /\ req'[t2].story = y => req'[t2] = req[t2]
                                /\ req[t2].kind \in Pipeline /\ req[t2].story = y => req'[t2] = req[t2]
        BY <3>1, <3>2, <3>3, <3>4, <3>8
      <4> QED
        BY <3>1, <3>7, <3>8, <3>x, <4>1, Elsewhere DEF LockInv
    <3>9. StoryHolds(s)'
      <4>1. StoryHolds(s)
        BY DEF LockInv
      <4>2. \A t2 \in Threads, k \in Pipeline : Works(t2, k, s)' => t2 = t /\ r.kind = k
        BY <3>4, <3>5 DEF Works
      <4>3. CASE StartSetup(t, s) /\ r.kind = "setup" /\ r.at = "preflight"
        <5>1. setup[s] \in {"none", "paused"} /\ closure' = closure
          BY <4>3 DEF StartSetup
        <5>2. Begun(s)' => Kept(s)'
          BY <3>1, <3>7, <4>1, <5>1 DEF StoryHolds, Kept
        <5>3. RunHolds(s)'
          BY <3>1, <4>1, <5>1 DEF StoryHolds, RunHolds, InRun
        <5>4. SetupHolds(t, s)'
          BY <3>1, <3>4, <4>1, <4>3, <5>1 DEF StoryHolds, RunHolds, SetupHolds
        <5> QED
          BY <4>2, <4>3, <5>2, <5>3, <5>4 DEF StoryHolds
      <4>4. CASE StartClosure(t, s) /\ r.kind = "closure" /\ r.at = "read"
        <5>1. setup[s] = "completed" /\ closure[s] = "none" /\ closure'[s] = "running"
          BY <2>0, <4>4 DEF StartClosure, Tables
        <5>2. holder[s] # "none"
          BY <4>1, <5>1 DEF StoryHolds, RunHolds, InRun, Modes
        <5>3. Kept(s)' /\ RunHolds(s)'
          BY <3>1, <4>1, <5>1, <5>2 DEF StoryHolds, Kept, RunHolds, InRun
        <5>4. ClosureHolds(t, s)'
          BY <3>1, <3>4, <4>4, <5>1 DEF ClosureHolds
        <5> QED
          BY <4>2, <4>4, <5>3, <5>4 DEF StoryHolds
      <4> QED
        BY <3>2, <4>3, <4>4
    <3> QED
      BY <3>6, <3>8, <3>9 DEF LockInv
  <2>13. CASE Crash
    <3>1. UNCHANGED <<row, holder, ctx, setup, closure>> /\ \A t \in Threads : req'[t] = NoReq /\ req'[t].kind = "none"
      BY <2>13 DEF Crash, NoReq
    <3>2. OnePipeline' /\ OneMode'
      BY <3>1 DEF LockInv, OnePipeline, OneMode
    <3>3. ASSUME NEW s \in Stories PROVE StoryHolds(s)'
      <4>1. StoryHolds(s)
        BY DEF LockInv
      <4>2. Begun(s)' => Begun(s)
        BY <3>1, NothingInHand DEF Begun, Carries
      <4>3. ~InSetup(s)' /\ \A t \in Threads : ~Works(t, "setup", s)' /\ ~Works(t, "closure", s)'
        BY <3>1 DEF InSetup, Works
      <4>4. Begun(s)' => Kept(s)'
        BY <3>1, <4>1, <4>2, <4>3 DEF StoryHolds, Kept
      <4>5. RunHolds(s)'
        BY <3>1, <4>1 DEF StoryHolds, RunHolds, InRun
      <4> QED
        BY <4>3, <4>4, <4>5 DEF StoryHolds
    <3> QED
      BY <3>2, <3>3 DEF LockInv
  <2>14. CASE UNCHANGED vars
    <3>1. UNCHANGED <<row, holder, ctx, setup, closure, req>>
      BY <2>14 DEF vars
    <3> QED
      BY <3>1 DEF LockInv, OnePipeline, OneMode, StoryHolds, Begun, Kept, InSetup, Works, SetupHolds, ClosureHolds, RunHolds, InRun
  <2> QED
    BY <2>1, <2>2, <2>3, <2>4, <2>5, <2>6, <2>7, <2>8, <2>9, <2>10, <2>11, <2>12, <2>13, <2>14
       DEF Next, Step
<1> QED
  BY <1>1, <1>2, ShapesHold, PTL DEF Spec

(* THEOREM.  Two stories between the end of setup and the close were set up in
   the same mode: the holder rows are of one mode (acquire, under the project's
   advisory lock), and a run keeps its row in the mode of its context until
   closure closes the story or a reset purges the run.                       *)
THEOREM ModesExclude == Spec => []ModesExcluded
<1>1. Shapes /\ LockInv => ModesExcluded
  BY DEF LockInv, OneMode, StoryHolds, RunHolds, ModesExcluded, Modes
<1> QED
  BY <1>1, ShapesHold, LockInvHolds, PTL

(* THEOREM.  A story that is In Progress or fenced by a reset has its holder
   row until closure has closed it or a reset has purged its run, whatever
   refused begins, stale field updates, exits, splits and crashes there were. *)
THEOREM BegunStoriesAreLocked == Spec => []InProgressIsLocked
<1>1. LockInv => InProgressIsLocked
  BY DEF LockInv, StoryHolds, Begun, Kept, InProgressIsLocked, Begins
<1> QED
  BY <1>1, LockInvHolds, PTL

-----------------------------------------------------------------------------
(* The life of the lock while no process dies and no step of its story     *)
(* fails on it.                                                            *)

\* The holder row belongs to a setup past acquire or to a run that is not over, the
\* marker file differs from it only while it is about to be written or cleared, and
\* setup and closure find, take and leave the two as they should.
StoryFree(s) ==
    /\ holder[s] # "none" => InSetup(s) \/ (setup[s] \in {"completed", "purged"} /\ closure[s] # "completed")
    /\ marker[s] # holder[s] =>
          \E t \in Threads : req[t].kind \in Pipeline /\ req[t].story = s /\ req[t].at \in {"marker", "clear"}
    /\ \A t \in Threads : Works(t, "setup", s) =>
          /\ req[t].at \in {"preflight", "enrich", "acquire", "clear", "failed"} => holder[s] = "none"
          /\ req[t].at \in {"marker", "read", "save"} => req[t].fresh
          /\ req[t].at = "marker" => marker[s] = "none"
    /\ \A t \in Threads : Works(t, "closure", s) /\ req[t].at \in {"clear", "return"} => holder[s] = "none"

LockFree == crashes = 0 => \A s \in Stories \ failed : StoryFree(s)

Counters == /\ events \in Nat /\ crashes \in Nat /\ crashes <= events /\ events <= MaxEvents
            /\ failed \subseteq Stories

(* Requests, crashes and failing steps are counted together up to the bound,
   and steps fail on the lock of stories.                                    *)
LEMMA CountersHold == Spec => []Counters
<1>1. Init => Counters
  BY StoryLifecycleAssumption DEF Init, Counters
<1>2. Shapes /\ Counters /\ [Next]_vars => Counters'
  <2> SUFFICES ASSUME Shapes, Counters, [Next]_vars PROVE Counters'
    OBVIOUS
  <2> DEFINE Counted(s) == /\ events < MaxEvents /\ events' = events + 1
                           /\ crashes' \in {crashes, crashes + 1}
                           /\ failed' = failed \/ (s \in Stories /\ failed' = failed \union {s})
  <2>1. UNCHANGED bounds \/ \E s : Counted(s)
    <3>1. ASSUME NEW t \in Threads, Step(t) PROVE UNCHANGED bounds \/ LockStepFails(req[t].story)
      BY <3>1, Zenon DEF Step, get_story, ClaimOp, Save, ReleaseOp, FinalizeOp, AcquireExitClaim,
           CommitTeardown, CommitSplitFence, AcquireResetFence, PurgeRun, ReleaseResetFence, Preflight, Enrich,
           AcquireModeLock, WriteMarker, Compensate, ClearMarker, EndSetup, CheckpointClosed, ReleaseModeLock,
           EndClosure
    <3>2. ASSUME NEW t \in Threads, Step(t), LockStepFails(req[t].story) PROVE Counted(req[t].story)
      <4>1. req[t].at # "idle"
        BY <3>2 DEF Step, get_story, ClaimOp, Save, ReleaseOp, FinalizeOp, AcquireExitClaim,
           CommitTeardown, CommitSplitFence, AcquireResetFence, PurgeRun, ReleaseResetFence, Preflight, Enrich,
           AcquireModeLock, WriteMarker, Compensate, ClearMarker, EndSetup, CheckpointClosed, ReleaseModeLock,
           EndClosure, At
      <4> QED
        BY <3>2, <4>1, WorkingThread DEF LockStepFails, Shapes, Working
    <3>3. ASSUME NEW t \in Threads, NEW k, NEW s, NEW o, Send(t, k, s, o) PROVE Counted(s)
      BY <3>3 DEF Send
    <3>4. ASSUME NEW t \in Threads, NEW s, StartSetup(t, s) \/ StartClosure(t, s) PROVE UNCHANGED bounds
      BY <3>4, Zenon DEF StartSetup, StartClosure
    <3>5. ASSUME Crash, NEW s PROVE Counted(s)
      BY <3>5 DEF Crash
    <3>6. CASE UNCHANGED vars
      BY <3>6 DEF vars
    <3> HIDE DEF Counted
    <3> QED
      BY <3>1, <3>2, <3>3, <3>4, <3>5, <3>6 DEF Next
  <2> QED
    BY <2>1, StoryLifecycleAssumption DEF Counters, bounds
<1> QED
  BY <1>1, <1>2, ShapesHold, PTL DEF Spec

(* A flag that is set or cleared is one.                                     *)
LEMMA FlagStays ==
  ASSUME NEW f \in [Stories -> BOOLEAN], NEW s, NEW b \in BOOLEAN
  PROVE  [f EXCEPT ![s] = b] \in [Stories -> BOOLEAN]
OBVIOUS

LEMMA RegimeIsFlag == Spec => [](regime \in [Stories -> BOOLEAN])
<1>1. Init => regime \in [Stories -> BOOLEAN]
  BY DEF Init
<1>2. regime \in [Stories -> BOOLEAN] /\ [Next]_vars => (regime \in [Stories -> BOOLEAN])'
  <2> SUFFICES ASSUME regime \in [Stories -> BOOLEAN], [Next]_vars PROVE regime' \in [Stories -> BOOLEAN]
    OBVIOUS
  <2>1. \/ regime' = regime
        \/ \E s : regime' = [regime EXCEPT ![s] = TRUE]
        \/ \E s : regime' = [regime EXCEPT ![s] = FALSE]
    BY ZenonT(40) DEF Next, Step, vars, run, Send, get_story, ClaimOp, Save, ReleaseOp, FinalizeOp, AcquireExitClaim,
           CommitTeardown, CommitSplitFence, AcquireResetFence, PurgeRun, ReleaseResetFence, Preflight, Enrich,
           AcquireModeLock, WriteMarker, Compensate, ClearMarker, EndSetup, CheckpointClosed, ReleaseModeLock,
           EndClosure, StartSetup, StartClosure, Crash, SetupReturns
  <2> QED
    BY <2>1, FlagStays
<1> QED
  BY <1>1, <1>2, PTL DEF Spec

(* THEOREM.  Every table and every request keeps its type.                   *)
THEOREM TypeCorrect == Spec => []TypeOK
<1>1. Shapes /\ Counters /\ regime \in [Stories -> BOOLEAN] => TypeOK
  BY StoryLifecycleAssumption DEF Shapes, Tables, Reqs, Requests, OpRows, Counters, TypeOK
<1> QED
  BY <1>1, ShapesHold, CountersHold, RegimeIsFlag, PTL

(* What holds of the lock of a story stays when its run, its lock and the
   requests that take it through setup and closure stay.                     *)
LEMMA FreeElsewhere ==
  ASSUME NEW s \in Stories, StoryFree(s),
         holder'[s] = holder[s], marker'[s] = marker[s],
         holder[s] # "none" /\ setup[s] \in {"completed", "purged"} /\ closure[s] # "completed"
            => setup'[s] \in {"completed", "purged"} /\ closure'[s] # "completed",
         \A t \in Threads : req'[t].kind \in Pipeline /\ req'[t].story = s => req'[t] = req[t],
         \A t \in Threads : req[t].kind \in Pipeline /\ req[t].story = s => req'[t] = req[t]
  PROVE  StoryFree(s)'
<1>1. \A t \in Threads, k \in Pipeline : /\ Works(t, k, s)' => Works(t, k, s) /\ req'[t] = req[t]
                                         /\ Works(t, k, s) => Works(t, k, s)'
  BY DEF Works
<1>2. InSetup(s) => InSetup(s)'
  BY <1>1 DEF InSetup, Pipeline
<1>3. holder'[s] # "none" => InSetup(s)' \/ (setup'[s] \in {"completed", "purged"} /\ closure'[s] # "completed")
  BY <1>2 DEF StoryFree
<1>4. marker'[s] # holder'[s] =>
         \E t \in Threads : req'[t].kind \in Pipeline /\ req'[t].story = s /\ req'[t].at \in {"marker", "clear"}
  BY DEF StoryFree
<1>5. ASSUME NEW t \in Threads, Works(t, "setup", s)'
      PROVE  /\ req'[t].at \in {"preflight", "enrich", "acquire", "clear", "failed"} => holder'[s] = "none"
             /\ req'[t].at \in {"marker", "read", "save"} => req'[t].fresh
             /\ req'[t].at = "marker" => marker'[s] = "none"
  BY <1>1, <1>5 DEF StoryFree, Pipeline
<1>6. ASSUME NEW t \in Threads, Works(t, "closure", s)', req'[t].at \in {"clear", "return"} PROVE holder'[s] = "none"
  BY <1>1, <1>6 DEF StoryFree, Pipeline
<1> QED
  BY <1>3, <1>4, <1>5, <1>6 DEF StoryFree

(* A step of the setup or the closure of a story, which touches the run and
   the lock of that story alone: what is left to show of the lock.           *)
LEMMA FreeStep ==
  ASSUME Reqs, OnePipeline, NEW s \in Stories, NEW t \in Threads, NEW r, req' = [req EXCEPT ![t] = r],
         req[t].kind \in Pipeline, req[t].story = s, \A x \in Stories \ failed : StoryFree(x), failed \subseteq failed',
         r.kind \in Pipeline => r.kind = req[t].kind /\ r.story = s,
         \A x \in Stories \ {s} : holder'[x] = holder[x] /\ marker'[x] = marker[x] /\ setup'[x] = setup[x]
                                  /\ closure'[x] = closure[x],
         holder'[s] # "none" => r.kind = "setup" \/ (setup'[s] \in {"completed", "purged"} /\ closure'[s] # "completed"),
         marker'[s] # holder'[s] => r.kind \in Pipeline /\ r.at \in {"marker", "clear"},
         r.kind = "setup" =>
            /\ r.at \in {"preflight", "enrich", "acquire", "clear", "failed"} => holder'[s] = "none"
            /\ r.at \in {"marker", "read", "save"} => r.fresh
            /\ r.at = "marker" => marker'[s] = "none",
         r.kind = "closure" /\ r.at \in {"clear", "return"} => holder'[s] = "none"
  PROVE  \A x \in Stories \ failed' : StoryFree(x)'
<1>1. \A t2 \in Threads : req'[t2] = IF t2 = t THEN r ELSE req[t2]
  BY DEF Reqs
<1>2. \A t2 \in Threads \ {t} : req'[t2] = req[t2] /\ ~(req[t2].kind \in Pipeline /\ req[t2].story = s)
  BY <1>1 DEF OnePipeline
<1>3. ASSUME NEW x \in Stories \ failed', x # s PROVE StoryFree(x)'
  <2>1. \A t2 \in Threads : /\ req'[t2].kind \in Pipeline /\ req'[t2].story = x => req'[t2] = req[t2]
                            /\ req[t2].kind \in Pipeline /\ req[t2].story = x => req'[t2] = req[t2]
    BY <1>1, <1>3
  <2> QED
    BY <1>3, <2>1, FreeElsewhere
<1>4. StoryFree(s)'
  <2>1. \A t2 \in Threads, k \in Pipeline : Works(t2, k, s)' => t2 = t /\ r.kind = k
    BY <1>1, <1>2 DEF Works
  <2>2. r.kind = "setup" => InSetup(s)'
    BY <1>1 DEF InSetup, Works, Pipeline
  <2> QED
    BY <1>1, <2>1, <2>2 DEF StoryFree, Pipeline
<1> QED
  BY <1>3, <1>4

(* A step of the setup or the closure of a story leaves the run and the lock
   of every other story alone, and can fail on the lock of its own only.     *)
LEMMA PipelineFrame ==
  ASSUME Shapes, NEW t \in Threads, Step(t), req[t].kind \in Pipeline, NEW s \in Stories, s = req[t].story
  PROVE  /\ failed \subseteq failed'
         /\ \A x \in Stories \ {s} : holder'[x] = holder[x] /\ marker'[x] = marker[x] /\ setup'[x] = setup[x]
                                     /\ closure'[x] = closure[x]
         /\ \E r : req' = [req EXCEPT ![t] = r] /\ (r.kind \in Pipeline => r.story = s)
<1> USE DEF run, locks, bounds, Pipeline
<1>0. Tables /\ RequestShape(req[t]) /\ req[t] \in Requests
  BY DEF Shapes, Reqs, RequestShape
<1>1. \/ get_story(t) \/ Save(t) \/ Preflight(t) \/ Enrich(t) \/ AcquireModeLock(t) \/ WriteMarker(t) \/ Compensate(t)
      \/ ClearMarker(t) \/ EndSetup(t) \/ CheckpointClosed(t) \/ ReleaseModeLock(t) \/ EndClosure(t)
  <2>1. req[t].at \notin {"claim", "finalize"}
    BY <1>0 DEF RequestShape, Stations
  <2>2. ~ClaimOp(t) /\ ~FinalizeOp(t) /\ ~ReleaseOp(t)
    BY <2>1 DEF ClaimOp, FinalizeOp, ReleaseOp, Guarded
  <2>3. /\ ~AcquireExitClaim(t) /\ ~CommitTeardown(t) /\ ~CommitSplitFence(t) /\ ~AcquireResetFence(t)
        /\ ~PurgeRun(t) /\ ~ReleaseResetFence(t)
    BY DEF AcquireExitClaim, CommitTeardown, CommitSplitFence, AcquireResetFence, PurgeRun, ReleaseResetFence, At
  <2> QED
    BY <2>2, <2>3 DEF Step
<1>2. failed' = failed \/ failed' = failed \union {s}
  BY <1>1, Zenon DEF get_story, Save, Preflight, Enrich, AcquireModeLock, WriteMarker, Compensate, ClearMarker, EndSetup,
     CheckpointClosed, ReleaseModeLock, EndClosure, LockStepFails
<1>3. holder' = holder \/ \E v : holder' = [holder EXCEPT ![s] = v]
  BY <1>1, Zenon DEF get_story, Save, Preflight, Enrich, AcquireModeLock, WriteMarker, Compensate, ClearMarker, EndSetup,
     CheckpointClosed, ReleaseModeLock, EndClosure, acquire, release
<1>4. marker' = marker \/ \E v : marker' = [marker EXCEPT ![s] = v]
  BY <1>1, Zenon DEF get_story, Save, Preflight, Enrich, AcquireModeLock, WriteMarker, Compensate, ClearMarker, EndSetup,
     CheckpointClosed, ReleaseModeLock, EndClosure
<1>5. setup' = setup \/ \E v : setup' = [setup EXCEPT ![s] = v]
  BY <1>1, Zenon DEF get_story, Save, Preflight, Enrich, AcquireModeLock, WriteMarker, Compensate, ClearMarker, EndSetup,
     CheckpointClosed, ReleaseModeLock, EndClosure, SetupReturns
<1>6. closure' = closure \/ \E v : closure' = [closure EXCEPT ![s] = v]
  BY <1>1, Zenon DEF get_story, Save, Preflight, Enrich, AcquireModeLock, WriteMarker, Compensate, ClearMarker, EndSetup,
     CheckpointClosed, ReleaseModeLock, EndClosure
<1>7. \E r : req' = [req EXCEPT ![t] = r] /\ (r.kind \in Pipeline => r.story = s)
  <2>1. NoReq.kind = "none"
    BY DEF NoReq
  <2>2. CASE Answer(t)
    BY <2>1, <2>2 DEF Answer
  <2>3. ASSUME NEW a, Goto(t, a) PROVE \E r : req' = [req EXCEPT ![t] = r] /\ r.story = s
    <3>1. [req[t] EXCEPT !.at = a].story = s
      BY <1>0 DEF Requests
    <3> QED
      BY <2>3, <3>1 DEF Goto
  <2>4. CASE get_story(t)
    <3> DEFINE r == [req[t] EXCEPT !.snap = row[req[t].story],
                          !.at = IF req[t].kind \in Guarded \union {"exit", "split"} THEN "claim" ELSE "save"]
    <3>1. r.story = s
      BY <1>0 DEF Requests
    <3>2. req' = [req EXCEPT ![t] = r]
      BY <2>4 DEF get_story
    <3> HIDE DEF r
    <3> QED
      BY <3>1, <3>2
  <2>5. CASE Save(t)
    <3>1. PICK a : req' = [req EXCEPT ![t] = [req[t] EXCEPT !.snap = NoRow, !.at = a]]
      BY <2>5 DEF Save, Written, Refused, Guarded
    <3>2. [req[t] EXCEPT !.snap = NoRow, !.at = a].story = s
      BY <1>0 DEF Requests
    <3> QED
      BY <3>1, <3>2
  <2>6. CASE AcquireModeLock(t)
    <3>1. CASE SetupReturns(t, "failed")
      BY <2>2, <3>1 DEF SetupReturns
    <3>2. CASE req' = [req EXCEPT ![t].fresh = holder[s] = "none", ![t].goal = "In Progress",
                                  ![t].at = IF marker[s] = "none" THEN "marker" ELSE "read"]
      <4> DEFINE f == holder[s] = "none"
                 a == IF marker[s] = "none" THEN "marker" ELSE "read"
                 r == [req[t] EXCEPT !.fresh = f, !.goal = "In Progress", !.at = a]
      <4>1. req' = [req EXCEPT ![t] = r]
        BY <3>2
      <4>2. r.story = s
        <5> HIDE DEF f, a
        <5> QED
          BY <1>0 DEF Requests
      <4> HIDE DEF r
      <4> QED
        BY <4>1, <4>2
    <3> QED
      BY <2>6, <3>1, <3>2 DEF AcquireModeLock
  <2>7. CASE Preflight(t) \/ Enrich(t) \/ WriteMarker(t) \/ Compensate(t) \/ ClearMarker(t) \/ EndSetup(t)
             \/ CheckpointClosed(t) \/ ReleaseModeLock(t) \/ EndClosure(t)
    <3>1. Answer(t) \/ \E a : Goto(t, a)
      BY <2>7, Zenon DEF Preflight, Enrich, WriteMarker, Compensate, ClearMarker, EndSetup, CheckpointClosed, ReleaseModeLock,
         EndClosure, SetupReturns
    <3> QED
      BY <2>2, <2>3, <3>1
  <2> QED
    BY <1>1, <2>4, <2>5, <2>6, <2>7
<1>8. ASSUME NEW x \in Stories \ {s}
      PROVE  holder'[x] = holder[x] /\ marker'[x] = marker[x] /\ setup'[x] = setup[x] /\ closure'[x] = closure[x]
  <2>1. holder'[x] = holder[x] /\ marker'[x] = marker[x]
    BY <1>0, <1>3, <1>4 DEF Tables
  <2>2. setup'[x] = setup[x] /\ closure'[x] = closure[x]
    BY <1>0, <1>5, <1>6 DEF Tables
  <2> QED
    BY <2>1, <2>2
<1> QED
  BY <1>2, <1>7, <1>8

(* Nothing is left to show of the lock of a story whose step on it has failed. *)
LEMMA FailedStep ==
  ASSUME Shapes, NEW t \in Threads, Step(t), req[t].kind \in Pipeline, NEW s \in Stories, s = req[t].story,
         \A x \in Stories \ failed : StoryFree(x), s \in failed'
  PROVE  \A x \in Stories \ failed' : StoryFree(x)'
<1>1. PICK r : req' = [req EXCEPT ![t] = r] /\ (r.kind \in Pipeline => r.story = s)
  BY PipelineFrame
<1>2. \A t2 \in Threads : req'[t2] = IF t2 = t THEN r ELSE req[t2]
  BY <1>1 DEF Shapes, Reqs
<1>3. ASSUME NEW x \in Stories \ failed' PROVE StoryFree(x)'
  <2>1. /\ x # s /\ StoryFree(x)
        /\ holder'[x] = holder[x] /\ marker'[x] = marker[x] /\ setup'[x] = setup[x] /\ closure'[x] = closure[x]
    BY PipelineFrame
  <2>2. \A t2 \in Threads : /\ req'[t2].kind \in Pipeline /\ req'[t2].story = x => req'[t2] = req[t2]
                            /\ req[t2].kind \in Pipeline /\ req[t2].story = x => req'[t2] = req[t2]
    BY <1>1, <1>2, <2>1
  <2> QED
    BY <2>1, <2>2, FreeElsewhere
<1> QED
  BY <1>3

(* The one request in the pipeline of a story knows whether marker and holder
   differ.                                                                   *)
LEMMA MarkerAgrees ==
  ASSUME OnePipeline, NEW s \in Stories, StoryFree(s), NEW t \in Threads,
         req[t].kind \in Pipeline, req[t].story = s, req[t].at \notin {"marker", "clear"}
  PROVE  marker[s] = holder[s]
BY DEF StoryFree, OnePipeline

(* While no process dies, the lock of a story none of whose steps on it has
   failed has the life of the run.                                           *)
LEMMA LockFreeHolds == Spec => []LockFree
<1>1. Init => LockFree
  BY DEF Init, LockFree, StoryFree, Works, NoReq
<1>2. Shapes /\ Shapes' /\ LockInv /\ Counters /\ LockFree /\ [Next]_vars => LockFree'
  <2> SUFFICES ASSUME Shapes, Shapes', LockInv, Counters, LockFree, [Next]_vars, crashes' = 0
               PROVE  \A x \in Stories \ failed' : StoryFree(x)'
    BY DEF LockFree
  <2>0. Tables /\ Reqs /\ Tables' /\ Reqs' /\ OnePipeline
    BY DEF Shapes, LockInv
  <2>w. \A t \in Threads : req[t].at # "idle" => Working(t)
    BY <2>0, WorkingThread
  <2> USE DEF run, locks, bounds, Pipeline
  <2>f. crashes = 0 => \A x \in Stories \ failed : StoryFree(x)
    BY DEF LockFree
  <2>o. ASSUME NEW t \in Threads, NEW r, req' = [req EXCEPT ![t] = r], req[t].kind \notin Pipeline,
               r.kind \notin Pipeline, UNCHANGED <<holder, marker, setup, closure, failed, crashes>>
        PROVE  \A x \in Stories \ failed' : StoryFree(x)'
    <3>1. \A t2 \in Threads : req'[t2] = IF t2 = t THEN r ELSE req[t2]
      BY <2>0, <2>o DEF Reqs
    <3> QED
      BY <2>f, <2>o, <3>1, FreeElsewhere
  <2>g. ASSUME NEW t \in Threads, Working(t), NEW a
        PROVE  LET r == [req[t] EXCEPT !.at = a]
               IN  r.kind = req[t].kind /\ r.story = req[t].story /\ r.at = a /\ r.fresh = req[t].fresh
    BY <2>g DEF Working, RequestShape, Requests
  <2>n. NoReq.kind = "none"
    BY DEF NoReq
  <2>1. ASSUME NEW t \in Threads, NEW k \in Kinds \ {"setup", "closure"}, NEW s \in Stories, NEW o \in Ops, Send(t, k, s, o)
        PROVE  \A x \in Stories \ failed' : StoryFree(x)'
    <3> DEFINE r == [NoReq EXCEPT !.kind = k, !.story = s, !.op = o,
                    !.at = IF k \in {"exit", "split"} THEN "fence" ELSE "read", !.goal = Target(k)]
    <3>1. r.kind = k
      BY DEF NoReq
    <3>2. req' = [req EXCEPT ![t] = r] /\ UNCHANGED <<holder, marker, setup, closure, failed, crashes>> /\ req[t].kind = "none"
      BY <2>1, <2>n DEF Send
    <3> HIDE DEF r
    <3> QED
      BY <2>o, <3>1, <3>2
  <2>2. ASSUME NEW t \in Threads,
               ClaimOp(t) \/ ReleaseOp(t) \/ FinalizeOp(t) \/ AcquireExitClaim(t) \/ CommitTeardown(t)
               \/ CommitSplitFence(t) \/ AcquireResetFence(t) \/ ReleaseResetFence(t)
        PROVE  \A x \in Stories \ failed' : StoryFree(x)'
    <3>1. UNCHANGED <<holder, marker, setup, closure, failed, crashes>>
      BY <2>2 DEF ClaimOp, ReleaseOp, FinalizeOp, AcquireExitClaim, CommitTeardown, CommitSplitFence, AcquireResetFence, ReleaseResetFence
    <3>2. Working(t) /\ req[t].kind \notin Pipeline
      BY <2>2, <2>w DEF ClaimOp, ReleaseOp, FinalizeOp, AcquireExitClaim, CommitTeardown, CommitSplitFence,
                        AcquireResetFence, ReleaseResetFence, At, Working, RequestShape, Stations, Guarded
    <3>3. CASE Answer(t)
      BY <2>n, <2>o, <3>1, <3>2, <3>3 DEF Answer
    <3>4. CASE req' = [req EXCEPT ![t] = Aim(req[t], "Reset Failed")]
      <4>1. Aim(req[t], "Reset Failed").kind = req[t].kind
        BY <3>2 DEF Aim, Working, RequestShape, Requests
      <4> QED
        BY <2>o, <3>1, <3>2, <3>4, <4>1
    <3>5. ASSUME NEW a, Goto(t, a) PROVE \A x \in Stories \ failed' : StoryFree(x)'
      BY <2>g, <2>o, <3>1, <3>2, <3>5 DEF Goto
    <3> QED
      BY <2>2, <3>3, <3>4, <3>5
         DEF ClaimOp, ReleaseOp, FinalizeOp, AcquireExitClaim, CommitTeardown, CommitSplitFence, AcquireResetFence, ReleaseResetFence
  <2>3. ASSUME NEW t \in Threads, get_story(t) PROVE \A x \in Stories \ failed' : StoryFree(x)'
    <3>s. PICK s \in Stories : s = req[t].story
      BY <2>3, <2>w DEF get_story, Working
    <3> DEFINE a == IF req[t].kind \in Guarded \union {"exit", "split"} THEN "claim" ELSE "save"
               r == [req[t] EXCEPT !.snap = row[s], !.at = a]
    <3>1. /\ Working(t) /\ req[t].at = "read" /\ req' = [req EXCEPT ![t] = r]
          /\ UNCHANGED <<holder, marker, setup, closure, failed, crashes>>
      BY <2>3, <2>w, <3>s DEF get_story
    <3>2. r.kind = req[t].kind /\ r.story = s /\ r.at = a /\ r.fresh = req[t].fresh /\ a \in {"claim", "save"}
      BY <3>1, <3>s DEF Working, RequestShape, Requests
    <3> HIDE DEF r, a
    <3>3. CASE req[t].kind \notin Pipeline
      BY <2>o, <3>1, <3>2, <3>3
    <3>4. CASE req[t].kind \in Pipeline
      <4> SUFFICES ASSUME s \notin failed' PROVE \A x \in Stories \ failed' : StoryFree(x)'
        BY <2>3, <2>f, <3>1, <3>4, <3>s, FailedStep DEF Step
      <4>1. (\A x \in Stories \ failed : StoryFree(x)) /\ StoryFree(s)
        BY <2>f, <3>1
      <4>2. marker[s] = holder[s]
        BY <2>0, <3>1, <3>4, <3>s, <4>1, MarkerAgrees
      <4>3. r.kind = "setup" => r.fresh
        <5>1. req[t].kind = "setup" => req[t].fresh
          BY <3>1, <3>s, <4>1 DEF StoryFree, Works
        <5> QED
          BY <3>2, <5>1, Zenon
      <4>4. /\ holder[s] # "none" => r.kind = "setup" \/ (setup[s] \in {"completed", "purged"} /\ closure[s] # "completed")
        BY <2>0, <3>1, <3>2, <3>4, <3>s, <4>1 DEF StoryFree, InSetup, Works, OnePipeline
      <4> QED
        BY ZenonT(40), <2>0, <3>1, <3>2, <3>4, <3>s, <4>1, <4>2, <4>3, <4>4, FreeStep
    <3> QED
      BY <3>3, <3>4
  <2>4. ASSUME NEW t \in Threads, Save(t) PROVE \A x \in Stories \ failed' : StoryFree(x)'
    <3>s. PICK s \in Stories : s = req[t].story
      BY <2>4, <2>w DEF Save, Working
    <3>1. Working(t) /\ req[t].at = "save" /\ UNCHANGED <<holder, marker, setup, closure, failed, crashes>>
      BY <2>4, <2>w DEF Save
    <3>2. req' = [req EXCEPT ![t] = Written(req[t])] \/ req' = [req EXCEPT ![t] = Refused(req[t])]
      BY <2>4 DEF Save
    <3>3. ASSUME NEW a
          PROVE  LET r == [req[t] EXCEPT !.snap = NoRow, !.at = a]
                 IN  r.kind = req[t].kind /\ r.story = s /\ r.at = a /\ r.fresh = req[t].fresh
      BY <3>1, <3>s DEF Working, RequestShape, Requests
    <3>4. CASE req[t].kind \notin Pipeline
      <4>1. \/ \E a : req' = [req EXCEPT ![t] = [req[t] EXCEPT !.snap = NoRow, !.at = a]]
            \/ req' = [req EXCEPT ![t] = NoReq]
            \/ req' = [req EXCEPT ![t] = Aim(req[t], "Reset Failed")]
        BY <3>1, <3>2, <3>4 DEF Written, Refused, Working, AllKinds, Guarded
      <4>2. Aim(req[t], "Reset Failed").kind = req[t].kind
        BY <3>1 DEF Aim, Working, RequestShape, Requests
      <4>3. ASSUME NEW a, req' = [req EXCEPT ![t] = [req[t] EXCEPT !.snap = NoRow, !.at = a]]
            PROVE  \A x \in Stories \ failed' : StoryFree(x)'
        <5> DEFINE r == [req[t] EXCEPT !.snap = NoRow, !.at = a]
        <5>1. r.kind = req[t].kind
          BY <3>3
        <5> HIDE DEF r
        <5> QED
          BY <2>o, <3>1, <3>4, <4>3, <5>1 DEF r
      <4> QED
        BY <2>n, <2>o, <3>1, <3>4, <4>1, <4>2, <4>3
    <3>5. CASE req[t].kind \in Pipeline
      <4> SUFFICES ASSUME s \notin failed' PROVE \A x \in Stories \ failed' : StoryFree(x)'
        BY <2>4, <2>f, <3>1, <3>5, <3>s, FailedStep DEF Step
      <4>1. (\A x \in Stories \ failed : StoryFree(x)) /\ StoryFree(s)
        BY <2>f, <3>1
      <4>2. marker[s] = holder[s]
        BY <2>0, <3>1, <3>5, <3>s, <4>1, MarkerAgrees
      <4>3. req[t].kind = "setup" => req[t].fresh
        BY <3>1, <3>s, <4>1 DEF StoryFree, Works
      <4>4. holder[s] # "none" => req[t].kind = "setup" \/ (setup[s] \in {"completed", "purged"} /\ closure[s] # "completed")
        BY <2>0, <3>1, <3>5, <3>s, <4>1 DEF StoryFree, InSetup, Works, OnePipeline
      <4>5. PICK a : /\ req' = [req EXCEPT ![t] = [req[t] EXCEPT !.snap = NoRow, !.at = a]]
                     /\ IF req[t].kind = "setup" THEN a \in {"return", "compensate"} ELSE a \in {"checkpoint", "failed"}
        BY <3>2, <3>5, <4>3 DEF Written, Refused, Guarded
      <4> DEFINE r == [req[t] EXCEPT !.snap = NoRow, !.at = a]
      <4>6. r.kind = req[t].kind /\ r.story = s /\ r.at = a
        BY <3>3
      <4> HIDE DEF r
      <4> QED
        BY <2>0, <3>1, <3>5, <3>s, <4>1, <4>2, <4>4, <4>5, <4>6, FreeStep DEF r
    <3> QED
      BY <3>4, <3>5
  <2>5. ASSUME NEW t \in Threads, PurgeRun(t) PROVE \A x \in Stories \ failed' : StoryFree(x)'
    <3>1. /\ Working(t) /\ req[t].kind = "reset" /\ UNCHANGED <<holder, marker, failed, crashes>>
          /\ \/ UNCHANGED <<setup, closure>>
             \/ /\ setup' = [setup EXCEPT ![req[t].story] = "purged"]
                /\ closure' = [closure EXCEPT ![req[t].story] = "purged"]
          /\ \E g : req' = [req EXCEPT ![t] = Aim(req[t], g)]
      BY <2>5, <2>w DEF PurgeRun, At
    <3>2. PICK r : req' = [req EXCEPT ![t] = r] /\ r.kind = "reset"
      <4>1. PICK g : req' = [req EXCEPT ![t] = Aim(req[t], g)]
        BY <3>1
      <4>2. Aim(req[t], g).kind = "reset"
        BY <3>1 DEF Aim, Working, RequestShape, Requests
      <4> QED
        BY <4>1, <4>2
    <3>3. \A t2 \in Threads : req'[t2] = IF t2 = t THEN r ELSE req[t2]
      BY <2>0, <3>2 DEF Reqs
    <3>4. ASSUME NEW x \in Stories \ failed PROVE StoryFree(x)'
      <4>1. /\ setup'[x] \in {setup[x], "purged"} /\ closure'[x] \in {closure[x], "purged"}
        BY <2>0, <3>1 DEF Tables
      <4> QED
        BY <2>f, <3>1, <3>2, <3>3, <4>1, FreeElsewhere
    <3> QED
      BY <3>1, <3>4
  <2>6. ASSUME NEW t \in Threads,
               Preflight(t) \/ Enrich(t) \/ EndSetup(t) \/ AcquireModeLock(t) \/ WriteMarker(t) \/ Compensate(t)
               \/ (ClearMarker(t) /\ req[t].kind = "setup")
        PROVE  \A x \in Stories \ failed' : StoryFree(x)'
    <3>s. PICK s \in Stories : s = req[t].story
      BY <2>6, <2>w DEF Preflight, Enrich, EndSetup, AcquireModeLock, WriteMarker, Compensate, ClearMarker, At, Working
    <3>1. /\ Working(t) /\ req[t].kind = "setup" /\ Works(t, "setup", s) /\ UNCHANGED <<closure, crashes>>
          /\ req[t].at \in {"preflight", "enrich", "return", "failed", "acquire", "marker", "compensate", "clear"}
      <4>1. req[t].kind = "setup" /\ req[t].at \in {"preflight", "enrich", "return", "failed", "acquire", "marker", "compensate", "clear"}
        BY <2>6 DEF Preflight, Enrich, EndSetup, AcquireModeLock, WriteMarker, Compensate, ClearMarker, At
      <4>2. UNCHANGED closure
        BY <2>6 DEF Preflight, Enrich, EndSetup, AcquireModeLock, WriteMarker, Compensate, ClearMarker
      <4>3. UNCHANGED crashes
        BY <2>6 DEF Preflight, Enrich, EndSetup, AcquireModeLock, WriteMarker, Compensate, ClearMarker, LockStepFails
      <4>4. Working(t)
        BY <2>w, <4>1
      <4>5. Works(t, "setup", s)
        BY <3>s, <4>1 DEF Works
      <4> QED
        BY <4>1, <4>2, <4>3, <4>4, <4>5
    <3> SUFFICES ASSUME s \notin failed' PROVE \A x \in Stories \ failed' : StoryFree(x)'
      BY <2>6, <2>f, <3>1, <3>s, FailedStep DEF Step
    <3>f. failed' = failed
      BY <2>6, <3>s DEF Preflight, Enrich, EndSetup, AcquireModeLock, WriteMarker, Compensate, ClearMarker, LockStepFails
    <3>2. (\A x \in Stories \ failed : StoryFree(x)) /\ StoryFree(s) /\ StoryHolds(s) /\ SetupHolds(t, s)
      BY <2>f, <3>1, <3>f, BegunInSetup
    <3>3. req[t].at \notin {"marker", "clear"} => marker[s] = holder[s]
      BY <2>0, <3>1, <3>2, <3>s, MarkerAgrees
    <3>4. /\ req[t].at \in {"preflight", "enrich", "acquire", "clear", "failed"} => holder[s] = "none"
          /\ req[t].at = "marker" => marker[s] = "none"
      BY <3>1, <3>2 DEF StoryFree
    <3>5. req[t].at = "marker" => req[t].fresh
      BY <3>1, <3>2 DEF StoryFree
    <3>6. ASSUME NEW x \in {"paused", "failed", "completed"}, SetupReturns(t, x), UNCHANGED <<holder, marker>>,
                 req[t].at \notin {"marker", "clear"}, x = "completed" \/ holder[s] = "none"
          PROVE  \A y \in Stories \ failed' : StoryFree(y)'
      <4>1. req' = [req EXCEPT ![t] = NoReq] /\ setup' = [setup EXCEPT ![s] = x]
        BY <3>6, <3>s DEF SetupReturns, Answer
      <4>x. ASSUME NEW y \in Stories, y # s PROVE setup'[y] = setup[y]
        BY <2>0, <4>1, <4>x DEF Tables
      <4>2. setup'[s] = x /\ \A y \in Stories \ {s} : setup'[y] = setup[y]
        BY <2>0, <4>1, <4>x DEF Tables
      <4>3. closure[s] # "completed"
        BY <3>2 DEF SetupHolds
      <4> QED
        BY <2>0, <2>n, <3>1, <3>2, <3>3, <3>6, <3>f, <3>s, <4>1, <4>2, <4>3, FreeStep
    <3>7. CASE Preflight(t) \/ Enrich(t)
      <4>1. CASE \E x \in {"paused", "failed"} : SetupReturns(t, x)
        <5>1. UNCHANGED <<holder, marker>> /\ req[t].at \in {"preflight", "enrich"}
          BY <3>7 DEF Preflight, Enrich, At
        <5> QED
          BY <3>4, <3>6, <4>1, <5>1
      <4>2. CASE \E a \in {"enrich", "acquire"} : Goto(t, a) /\ UNCHANGED setup
        <5>1. PICK a \in {"enrich", "acquire"} : Goto(t, a) /\ UNCHANGED setup
          BY <4>2
        <5>2. UNCHANGED <<holder, marker>> /\ req[t].at \in {"preflight", "enrich"}
          BY <3>7 DEF Preflight, Enrich, At
        <5> DEFINE r == [req[t] EXCEPT !.at = a]
        <5>3. r.kind = "setup" /\ r.story = s /\ r.at = a /\ req' = [req EXCEPT ![t] = r]
          BY <2>g, <3>1, <3>s, <5>1 DEF Goto
        <5> HIDE DEF r
        <5> QED
          BY <2>0, <3>1, <3>2, <3>3, <3>4, <3>f, <3>s, <5>1, <5>2, <5>3, FreeStep
      <4> QED
        BY <3>7, <4>1, <4>2 DEF Preflight, Enrich
    <3>8. CASE EndSetup(t)
      <4>1. UNCHANGED <<holder, marker>> /\ req[t].at \in {"return", "failed"}
        BY <3>8 DEF EndSetup, At
      <4> QED
        BY <3>4, <3>6, <3>8, <4>1 DEF EndSetup, At
    <3>9. CASE AcquireModeLock(t)
      <4>1. req[t].at = "acquire" /\ UNCHANGED marker /\ holder[s] = "none"
        BY <3>4, <3>9 DEF AcquireModeLock, At
      <4>2. CASE SetupReturns(t, "failed") /\ UNCHANGED holder
        BY <3>6, <4>1, <4>2
      <4>3. CASE /\ acquire(s, ctx[s]) /\ UNCHANGED setup
                 /\ req' = [req EXCEPT ![t].fresh = holder[s] = "none", ![t].goal = "In Progress",
                                       ![t].at = IF marker[s] = "none" THEN "marker" ELSE "read"]
        <5> DEFINE f == holder[s] = "none"
                   a == IF marker[s] = "none" THEN "marker" ELSE "read"
                   r == [req[t] EXCEPT !.fresh = f, !.goal = "In Progress", !.at = a]
        <5>1. req' = [req EXCEPT ![t] = r]
          BY <4>3
        <5>2. a = "marker" /\ f /\ marker[s] = "none"
          BY <3>3, <4>1
        <5>3. r.kind = "setup" /\ r.story = s /\ r.at = a /\ r.fresh = f
          <6> HIDE DEF a, f
          <6> QED
            BY <3>1, <3>s DEF Working, RequestShape, Requests
        <5> HIDE DEF r, a, f
        <5>4. r.fresh
          BY <5>2, <5>3, Zenon
        <5>x. ASSUME NEW y \in Stories, y # s PROVE holder'[y] = holder[y]
          BY ZenonT(40), <2>0, <4>3, <5>x DEF acquire, Tables
        <5>5. \A y \in Stories \ {s} : holder'[y] = holder[y]
          BY <5>x
        <5>6. r.kind = "setup" /\ r.story = s /\ r.at = "marker" /\ marker'[s] = "none"
          BY <4>1, <5>2, <5>3
        <5>7. UNCHANGED <<setup, closure, marker>>
          BY <3>1, <4>1, <4>3
        <5> QED
          BY <2>0, <3>1, <3>2, <3>f, <3>s, <5>1, <5>4, <5>5, <5>6, <5>7, FreeStep
      <4> QED
        BY <3>9, <3>s, <4>2, <4>3 DEF AcquireModeLock
    <3>10. CASE WriteMarker(t)
      <4> DEFINE r == [req[t] EXCEPT !.at = "read"]
      <4>1. /\ req[t].at = "marker" /\ UNCHANGED <<holder, setup>> /\ marker' = [marker EXCEPT ![s] = ctx[s]]
            /\ req' = [req EXCEPT ![t] = r]
        BY <3>10, <3>s DEF WriteMarker, At, Goto, LockStepFails
      <4>2. r.kind = "setup" /\ r.story = s /\ r.at = "read" /\ r.fresh = req[t].fresh
        BY <2>g, <3>1, <3>s
      <4> HIDE DEF r
      <4>3. r.fresh
        BY <3>5, <4>1, <4>2, Zenon
      <4>x. ASSUME NEW y \in Stories, y # s PROVE marker'[y] = marker[y]
        BY <2>0, <4>1, <4>x DEF Tables
      <4>4. \A y \in Stories \ {s} : marker'[y] = marker[y]
        BY <4>x
      <4>5. marker'[s] = holder'[s]
        BY <2>0, <3>2, <4>1 DEF Tables, SetupHolds
      <4>6. r.kind = "setup" /\ r.story = s /\ r.at = "read"
        BY <4>2
      <4> QED
        BY <2>0, <3>1, <3>2, <3>f, <3>s, <4>1, <4>3, <4>4, <4>5, <4>6, FreeStep
    <3>11. CASE Compensate(t)
      <4> DEFINE r == [req[t] EXCEPT !.at = "clear"]
      <4>1. UNCHANGED <<marker, setup>> /\ holder' = [holder EXCEPT ![s] = "none"] /\ req' = [req EXCEPT ![t] = r]
        BY <3>11, <3>s DEF Compensate, At, Goto, release, LockStepFails
      <4>2. r.kind = "setup" /\ r.story = s /\ r.at = "clear"
        BY <2>g, <3>1, <3>s
      <4> HIDE DEF r
      <4>x. ASSUME NEW y \in Stories, y # s PROVE holder'[y] = holder[y]
        BY <2>0, <4>1, <4>x DEF Tables
      <4>3. holder'[s] = "none" /\ \A y \in Stories \ {s} : holder'[y] = holder[y]
        BY <2>0, <4>1, <4>x DEF Tables
      <4> QED
        BY <2>0, <3>1, <3>2, <3>f, <3>s, <4>1, <4>2, <4>3, FreeStep
    <3>12. CASE ClearMarker(t)
      <4> DEFINE r == [req[t] EXCEPT !.at = "failed"]
      <4>1. /\ req[t].at = "clear" /\ UNCHANGED <<holder, setup>> /\ marker' = [marker EXCEPT ![s] = "none"]
            /\ req' = [req EXCEPT ![t] = r]
        BY <3>1, <3>12, <3>s DEF ClearMarker, Goto, LockStepFails
      <4>2. r.kind = "setup" /\ r.story = s /\ r.at = "failed"
        BY <2>g, <3>1, <3>s
      <4> HIDE DEF r
      <4>x. ASSUME NEW y \in Stories, y # s PROVE marker'[y] = marker[y]
        BY <2>0, <4>1, <4>x DEF Tables
      <4>3. marker'[s] = "none" /\ \A y \in Stories \ {s} : marker'[y] = marker[y]
        BY <2>0, <4>1, <4>x DEF Tables
      <4> QED
        BY <2>0, <3>1, <3>2, <3>4, <3>f, <3>s, <4>1, <4>2, <4>3, FreeStep
    <3> QED
      BY <2>6, <3>7, <3>8, <3>9, <3>10, <3>11, <3>12
  <2>7. ASSUME NEW t \in Threads,
               CheckpointClosed(t) \/ ReleaseModeLock(t) \/ EndClosure(t) \/ (ClearMarker(t) /\ req[t].kind # "setup")
        PROVE  \A x \in Stories \ failed' : StoryFree(x)'
    <3>s. PICK s \in Stories : s = req[t].story
      BY <2>7, <2>w DEF CheckpointClosed, ReleaseModeLock, EndClosure, ClearMarker, At, Working
    <3>1. /\ Working(t) /\ req[t].kind = "closure" /\ Works(t, "closure", s) /\ UNCHANGED <<setup, crashes>>
          /\ req[t].at \in {"checkpoint", "release", "clear", "return", "failed"}
      BY <2>7, <2>w, <3>s DEF CheckpointClosed, ReleaseModeLock, EndClosure, ClearMarker, At, Works, Working, RequestShape, Stations, LockStepFails
    <3> SUFFICES ASSUME s \notin failed' PROVE \A x \in Stories \ failed' : StoryFree(x)'
      BY <2>7, <2>f, <3>1, <3>s, FailedStep DEF Step
    <3>f. failed' = failed
      BY <2>7, <3>s DEF CheckpointClosed, ReleaseModeLock, EndClosure, ClearMarker, LockStepFails
    <3>2. (\A x \in Stories \ failed : StoryFree(x)) /\ StoryFree(s) /\ ClosureHolds(t, s)
      BY <2>f, <3>1, <3>f DEF LockInv, StoryHolds
    <3>3. req[t].at # "clear" => marker[s] = holder[s]
      BY <2>0, <3>1, <3>2, <3>s, MarkerAgrees
    <3>4. req[t].at \in {"clear", "return"} => holder[s] = "none"
      BY <3>1, <3>2 DEF StoryFree
    <3>5. setup[s] \in {"completed", "purged"}
      BY <3>2 DEF ClosureHolds
    <3>6. PICK r : /\ req' = [req EXCEPT ![t] = r]
                   /\ \/ CheckpointClosed(t) /\ r.kind = "closure" /\ r.story = s /\ r.at = "release"
                      \/ ReleaseModeLock(t) /\ r.kind = "closure" /\ r.story = s
                         /\ r.at = IF holder[s] # "none" /\ marker[s] = holder[s] THEN "clear" ELSE "return"
                      \/ ClearMarker(t) /\ r.kind = "closure" /\ r.story = s /\ r.at = "return"
                      \/ EndClosure(t) /\ r.kind = "none"
      <4>1. ASSUME NEW a
            PROVE  LET r == [req[t] EXCEPT !.at = a] IN r.kind = "closure" /\ r.story = s /\ r.at = a
        BY <2>g, <3>1, <3>s
      <4>2. CASE CheckpointClosed(t)
        BY <4>1, <4>2 DEF CheckpointClosed, Goto
      <4>3. CASE ReleaseModeLock(t)
        <5>1. Goto(t, IF holder[s] # "none" /\ marker[s] = holder[s] THEN "clear" ELSE "return")
          BY <3>s, <4>3 DEF ReleaseModeLock, Goto, LockStepFails
        <5> QED
          BY <4>1, <4>3, <5>1 DEF Goto
      <4>4. CASE ClearMarker(t)
        <5>1. Goto(t, "return")
          BY <3>1, <4>4 DEF ClearMarker, Goto
        <5> QED
          BY <4>1, <4>4, <5>1 DEF Goto
      <4>5. CASE EndClosure(t)
        BY <2>n, <4>5 DEF EndClosure, Answer
      <4> QED
        BY <2>7, <4>2, <4>3, <4>4, <4>5
    <3>7. CASE CheckpointClosed(t) /\ r.kind = "closure" /\ r.story = s /\ r.at = "release"
      <4>1. UNCHANGED <<holder, marker>> /\ closure' = [closure EXCEPT ![s] = "closed"] /\ req[t].at = "checkpoint"
        BY <3>7, <3>s DEF CheckpointClosed, At
      <4>x. ASSUME NEW y \in Stories, y # s PROVE closure'[y] = closure[y]
        BY <2>0, <4>1, <4>x DEF Tables
      <4>2. closure'[s] = "closed" /\ \A y \in Stories \ {s} : closure'[y] = closure[y]
        BY <2>0, <4>1, <4>x DEF Tables
      <4> QED
        BY <2>0, <3>1, <3>2, <3>3, <3>5, <3>6, <3>7, <3>f, <3>s, <4>1, <4>2, FreeStep
    <3>8. CASE ReleaseModeLock(t) /\ r.kind = "closure" /\ r.story = s
               /\ r.at = IF holder[s] # "none" /\ marker[s] = holder[s] THEN "clear" ELSE "return"
      <4>1. /\ UNCHANGED <<marker, closure>> /\ req[t].at = "release"
            /\ IF holder[s] # "none" /\ marker[s] = holder[s] THEN holder' = [holder EXCEPT ![s] = "none"] ELSE UNCHANGED holder
        BY <3>8, <3>s DEF ReleaseModeLock, At, release, LockStepFails
      <4>x. ASSUME NEW y \in Stories, y # s PROVE holder'[y] = holder[y]
        BY <2>0, <4>1, <4>x DEF Tables
      <4>2. holder'[s] = "none" /\ \A y \in Stories \ {s} : holder'[y] = holder[y]
        BY <2>0, <3>3, <4>1, <4>x DEF Tables
      <4>3. r.at \in {"clear", "return"} /\ (r.at = "return" => marker'[s] = "none")
        BY <3>3, <3>8, <4>1
      <4> QED
        BY <2>0, <3>1, <3>2, <3>6, <3>8, <3>f, <3>s, <4>1, <4>2, <4>3, FreeStep
    <3>9. CASE ClearMarker(t) /\ r.kind = "closure" /\ r.story = s /\ r.at = "return"
      <4>1. UNCHANGED <<holder, closure>> /\ marker' = [marker EXCEPT ![s] = "none"] /\ req[t].at = "clear"
        BY <3>9, <3>s DEF ClearMarker, LockStepFails
      <4>x. ASSUME NEW y \in Stories, y # s PROVE marker'[y] = marker[y]
        BY <2>0, <4>1, <4>x DEF Tables
      <4>2. marker'[s] = "none" /\ \A y \in Stories \ {s} : marker'[y] = marker[y]
        BY <2>0, <4>1, <4>x DEF Tables
      <4> QED
        BY <2>0, <3>1, <3>2, <3>4, <3>6, <3>9, <3>f, <3>s, <4>1, <4>2, FreeStep
    <3>10. CASE EndClosure(t) /\ r.kind = "none"
      <4>1. /\ UNCHANGED <<holder, marker>>
            /\ \/ req[t].at = "return" /\ closure' = [closure EXCEPT ![s] = "completed"]
               \/ req[t].at = "failed" /\ closure' = [closure EXCEPT ![s] = "failed"]
        BY <3>10, <3>s DEF EndClosure, At
      <4>x. ASSUME NEW y \in Stories, y # s PROVE closure'[y] = closure[y]
        BY <2>0, <4>1, <4>x DEF Tables
      <4>2. /\ closure'[s] = "completed" => req[t].at = "return"
            /\ \A y \in Stories \ {s} : closure'[y] = closure[y]
        BY <2>0, <4>1, <4>x DEF Tables
      <4> QED
        BY <2>0, <3>1, <3>2, <3>3, <3>4, <3>5, <3>6, <3>10, <3>f, <3>s, <4>1, <4>2, FreeStep
    <3> QED
      BY <3>6, <3>7, <3>8, <3>9, <3>10
  <2>8. ASSUME NEW t \in Threads, NEW s \in Stories, StartSetup(t, s) \/ StartClosure(t, s)
        PROVE  \A x \in Stories \ failed' : StoryFree(x)'
    <3>1. /\ req[t] = NoReq /\ ~InPipeline(s) /\ UNCHANGED <<setup, holder, marker, failed, crashes>>
          /\ closure' = closure \/ closure' = [closure EXCEPT ![s] = "running"]
      BY <2>8 DEF StartSetup, StartClosure
    <3>2. PICK r : /\ req' = [req EXCEPT ![t] = r] /\ r.story = s
                   /\ \/ StartSetup(t, s) /\ r.kind = "setup" /\ r.at = "preflight"
                      \/ StartClosure(t, s) /\ r.kind = "closure" /\ r.at = "read"
      <4>1. CASE StartSetup(t, s)
        <5> DEFINE r == [NoReq EXCEPT !.kind = "setup", !.story = s, !.at = "preflight"]
        <5>1. r.story = s /\ r.kind = "setup" /\ r.at = "preflight"
          BY DEF NoReq
        <5>2. req' = [req EXCEPT ![t] = r]
          BY <4>1 DEF StartSetup
        <5> HIDE DEF r
        <5> QED
          BY <4>1, <5>1, <5>2
      <4>2. CASE StartClosure(t, s)
        <5> DEFINE r == [NoReq EXCEPT !.kind = "closure", !.story = s, !.at = "read", !.goal = "Done"]
        <5>1. r.story = s /\ r.kind = "closure" /\ r.at = "read"
          BY DEF NoReq
        <5>2. req' = [req EXCEPT ![t] = r]
          BY <4>2 DEF StartClosure
        <5> HIDE DEF r
        <5> QED
          BY <4>2, <5>1, <5>2
      <4> QED
        BY <2>8, <4>1, <4>2
    <3>3. \A t2 \in Threads : req'[t2] = IF t2 = t THEN r ELSE req[t2]
      BY <2>0, <3>2 DEF Reqs
    <3>4. \A t2 \in Threads : ~(req[t2].story = s /\ req[t2].kind \in Pipeline)
      BY <3>1 DEF InPipeline
    <3>5. ASSUME NEW x \in Stories \ failed, x # s PROVE StoryFree(x)'
      <4>1. \A t2 \in Threads : /\ req'[t2].kind \in Pipeline /\ req'[t2].story = x => req'[t2] = req[t2]
                                /\ req[t2].kind \in Pipeline /\ req[t2].story = x => req'[t2] = req[t2]
        BY <2>n, <3>1, <3>2, <3>3, <3>5
      <4>2. closure'[x] = closure[x]
        BY <2>0, <3>1, <3>5 DEF Tables
      <4> QED
        BY <2>f, <3>1, <4>1, <4>2, FreeElsewhere
    <3>6. ASSUME s \notin failed PROVE StoryFree(s)'
      <4>1. StoryFree(s)
        BY <2>f, <3>1, <3>6
      <4>2. marker[s] = holder[s] /\ ~InSetup(s)
        BY <3>4, <4>1 DEF StoryFree, InSetup, Works
      <4>3. StartSetup(t, s) => holder[s] = "none"
        BY <4>1, <4>2 DEF StoryFree, StartSetup
      <4>4. \A t2 \in Threads, k \in Pipeline : Works(t2, k, s)' => t2 = t /\ r.kind = k
        BY <3>3, <3>4 DEF Works
      <4>5. closure'[s] \in {closure[s], "running"}
        BY <2>0, <3>1 DEF Tables
      <4> QED
        BY <3>1, <3>2, <3>3, <4>1, <4>2, <4>3, <4>4, <4>5 DEF StoryFree
    <3> QED
      BY <3>1, <3>5, <3>6
  <2>9. CASE Crash
    BY <2>9 DEF Crash, Counters
  <2>10. CASE UNCHANGED vars
    <3>1. UNCHANGED <<holder, marker, setup, closure, req, failed, crashes>>
      BY <2>10 DEF vars
    <3> QED
      BY <2>f, <3>1, FreeElsewhere
  <2> QED
    BY <2>1, <2>2, <2>3, <2>4, <2>5, <2>6, <2>7, <2>8, <2>9, <2>10 DEF Next, Step
<1> QED
  BY <1>1, <1>2, ShapesHold, LockInvHolds, CountersHold, PTL DEF Spec

(* THEOREM.  While no process has died, the holder row of a story none of whose
   steps on its lock has failed belongs to a setup that is past acquire or to a
   run that is not closed, and the marker file says what the holder row says
   unless it is about to be written or cleared.                              *)
THEOREM LockHasTheLifeOfTheRun == Spec => []LockFollowsRun
<1>1. LockFree => LockFollowsRun
  BY DEF LockFree, StoryFree, InSetup, Works, LockFollowsRun
<1> QED
  BY <1>1, LockFreeHolds, PTL

=============================================================================
