------------------------ MODULE StoryPipelineProofs ------------------------
(***************************************************************************)
(* Proofs about StoryPipeline, for every set of kinds of stories and any   *)
(* number of dispatches, crashes and freezes.                              *)
(***************************************************************************)
EXTENDS StoryPipeline, TLAPS

-----------------------------------------------------------------------------
(* The route of a story, in closed form.                                   *)

\* The phases a story of kind k is routed through, and those before p on it.
Route(k) == IF k = "explore" THEN Phases ELSE Phases \ {"exploration"}

Prior(k, p) ==
    CASE p = "exploration" -> {"setup"}
      [] p = "implementation" -> Route(k) \ {"implementation", "closure"}
      [] p = "closure" -> Route(k) \ {"closure"}
      [] OTHER -> {}

\* The edge of the workflow definition that leads to p.
Edge(k, s, p) ==
    \/ s.phase = "setup" /\ p = (IF k = "explore" THEN "exploration" ELSE "implementation")
    \/ s.phase = "exploration" /\ p = "implementation"
    \/ s.phase = "implementation" /\ p = "closure"

(* get_phases_for_story lists the phases of Route.                           *)
LEMMA RouteOfStory ==
  ASSUME NEW k \in AllKinds
  PROVE  ToSet(get_phases_for_story(k)) = Route(k)
<1>1. CASE k = "explore"
  BY <1>1 DEF ToSet, get_phases_for_story, Route, Phases
<1>2. CASE k # "explore"
  BY <1>2 DEF ToSet, get_phases_for_story, Route, Phases
<1> QED
  BY <1>1, <1>2

(* Before and Prior are the same sets.                                       *)
LEMMA BeforeIsPrior ==
  ASSUME kind \in AllKinds, NEW p \in Route(kind)
  PROVE  Before(p) = Prior(kind, p)
<1> DEFINE route == get_phases_for_story(kind)
<1>1. CASE kind = "explore"
  <2>1. DOMAIN route = 1 .. 4
    BY <1>1 DEF get_phases_for_story
  <2>2. route[1] = "setup" /\ route[2] = "exploration" /\ route[3] = "implementation" /\ route[4] = "closure"
    BY <1>1 DEF get_phases_for_story
  <2> QED
    BY <1>1, <2>1, <2>2 DEF Before, Prior, Route, Phases
<1>2. CASE kind # "explore"
  <2>1. DOMAIN route = 1 .. 3
    BY <1>2 DEF get_phases_for_story
  <2>2. route[1] = "setup" /\ route[2] = "implementation" /\ route[3] = "closure"
    BY <1>2 DEF get_phases_for_story
  <2> QED
    <3>1. Before(p) = {route[i] : i \in {j \in 1 .. 3 : \E n \in 1 .. 3 : j < n /\ route[n] = p}}
      BY <2>1 DEF Before
    <3>2. CASE p = "implementation"
      BY <1>2, <2>2, <3>1, <3>2 DEF Prior, Route, Phases
    <3>3. CASE p = "closure"
      BY <1>2, <2>2, <3>1, <3>3 DEF Prior, Route, Phases
    <3>4. CASE p = "setup"
      BY <1>2, <2>2, <3>1, <3>4 DEF Prior, Route, Phases
    <3> QED
      BY <1>2, <3>2, <3>3, <3>4 DEF Route, Phases
<1> QED
  BY <1>1, <1>2

(* The dispatcher enters a phase along an edge of the workflow only.         *)
LEMMA EnteredAlongEdge ==
  ASSUME NEW k \in AllKinds, NEW s, NEW p \in Phases, first_passing_edge(k, s) = p
  PROVE  Edge(k, s, p)
<1> DEFINE edges == get_transitions_from(k, s)
           passing == {i \in DOMAIN edges : edges[i][2]}
           first == CHOOSE i \in passing : \A j \in passing : i <= j
<1>1. passing # {} /\ p = edges[first][1]
  BY DEF first_passing_edge, Phases
<1>2. CASE s.phase = "setup" /\ IsCode(k)
  <2>1. edges = << <<"exploration", k = "explore">>, <<"implementation", k # "explore">> >>
    BY <1>2 DEF get_transitions_from
  <2>2. DOMAIN edges = {1, 2} /\ edges[1][1] = "exploration" /\ edges[2][1] = "implementation"
    BY <2>1
  <2>3. CASE k = "explore"
    <3>0. (k = "explore") = TRUE /\ (k # "explore") = FALSE
      BY <2>3
    <3>1. edges = << <<"exploration", TRUE>>, <<"implementation", FALSE>> >>
      BY <2>1, <3>0, Zenon
    <3>2. edges[1][2] = TRUE /\ edges[2][2] = FALSE
      BY <3>1
    <3>3. passing = {1}
      BY <2>2, <3>2
    <3>4. first = 1
      BY <3>3
    <3> QED
      BY <1>1, <1>2, <2>2, <2>3, <3>4 DEF Edge
  <2>4. CASE k # "explore"
    <3>0. (k = "explore") = FALSE /\ (k # "explore") = TRUE
      BY <2>4
    <3>1. edges = << <<"exploration", FALSE>>, <<"implementation", TRUE>> >>
      BY <2>1, <3>0, Zenon
    <3>2. edges[1][2] = FALSE /\ edges[2][2] = TRUE
      BY <3>1
    <3>3. passing = {2}
      BY <2>2, <3>2
    <3>4. first = 2
      BY <3>3
    <3> QED
      BY <1>1, <1>2, <2>2, <2>4, <3>4 DEF Edge
  <2> QED
    BY <2>3, <2>4
<1>3. CASE s.phase = "setup" /\ ~IsCode(k)
  <2>1. edges = << <<"implementation", TRUE>> >>
    BY <1>3 DEF get_transitions_from
  <2>2. DOMAIN edges = {1} /\ edges[1][1] = "implementation"
    BY <2>1
  <2>3. passing = {1}
    BY <1>1, <2>2
  <2>4. first = 1
    BY <2>3
  <2> QED
    BY <1>1, <1>3, <2>2, <2>4 DEF Edge, IsCode
<1>4. CASE s.phase = "exploration"
  <2>1. DOMAIN edges = {1} /\ edges[1][1] = "implementation"
    BY <1>4 DEF get_transitions_from
  <2>2. passing = {1}
    BY <1>1, <2>1
  <2>3. first = 1
    BY <2>2
  <2> QED
    BY <1>1, <1>4, <2>1, <2>3 DEF Edge
<1>5. CASE s.phase = "implementation"
  <2>1. DOMAIN edges = {1} /\ edges[1][1] = "closure"
    BY <1>5 DEF get_transitions_from
  <2>2. passing = {1}
    BY <1>1, <2>1
  <2>3. first = 1
    BY <2>2
  <2> QED
    BY <1>1, <1>5, <2>1, <2>3 DEF Edge
<1>6. CASE s.phase \notin {"setup", "exploration", "implementation"}
  <2>1. DOMAIN edges = {}
    BY <1>6 DEF get_transitions_from
  <2> QED
    BY <1>1, <2>1
<1> QED
  BY <1>2, <1>3, <1>4, <1>5, <1>6

-----------------------------------------------------------------------------
(* The attempt records.                                                    *)

\* The outcomes recorded for each phase, whatever the number of the attempt.
Log == {<<k[2], attempts[k]>> : k \in DOMAIN attempts}

Completed(p) == <<p, "COMPLETED">> \in Log

(* Recorded, in terms of the log.                                            *)
LEMMA RecordedInLog ==
  ASSUME NEW p, NEW o
  PROVE  Recorded(p, o) <=> <<p, o>> \in Log
BY DEF Recorded, Log

(* The upsert of an attempt whose number was used before can only overwrite a
   record of the same phase: it loses no COMPLETED one unless the phase had
   completed already.                                                        *)
LEMMA UpsertKeepsLog ==
  ASSUME NEW n, NEW p, NEW m, NEW o, attempts' = Upsert(attempts, <<n, p, m>>, o),
         <<p, "COMPLETED">> \notin Log
  PROVE  /\ <<p, o>> \in Log'
         /\ \A q : <<q, "COMPLETED">> \in Log' <=> <<q, "COMPLETED">> \in Log \/ (q = p /\ o = "COMPLETED")
         /\ \A x \in Log' : x \in Log \/ x = <<p, o>>
         /\ \A k \in DOMAIN attempts : attempts[k] = "COMPLETED" =>
               k \in DOMAIN attempts' /\ attempts'[k] = "COMPLETED"
<1> DEFINE key == <<n, p, m>>
<1>0. key[2] = p
  OBVIOUS
<1>1. DOMAIN attempts' = DOMAIN attempts \cup {key}
  BY DEF Upsert
<1>2. \A x \in DOMAIN attempts' : attempts'[x] = IF x = key THEN o ELSE attempts[x]
  BY <1>1 DEF Upsert
<1>3. \A k \in DOMAIN attempts : attempts[k] = "COMPLETED" => k # key
  BY <1>0 DEF Log
<1>4. <<p, o>> \in Log'
  BY <1>0, <1>1, <1>2 DEF Log
<1>5. \A x \in Log' : x \in Log \/ x = <<p, o>>
  BY <1>0, <1>1, <1>2 DEF Log
<1>6. \A q : <<q, "COMPLETED">> \in Log => <<q, "COMPLETED">> \in Log'
  <2> SUFFICES ASSUME NEW k \in DOMAIN attempts, attempts[k] = "COMPLETED"
               PROVE  <<k[2], "COMPLETED">> \in Log'
    BY DEF Log
  <2> QED
    BY <1>1, <1>2, <1>3 DEF Log
<1> HIDE DEF key
<1> QED
  BY <1>1, <1>2, <1>3, <1>4, <1>5, <1>6

-----------------------------------------------------------------------------
(* The inductive invariant.                                                *)

Endings == {"PAUSED", "IN_PROGRESS", "ESCALATED", "FAILED", "COMPLETED"}
Positions == {"idle", "handler", "closure", "checkpoint", "save", "snapshot", "flow", "node"}
JobType == [engine : Nat, phase : Phases \cup {"none"}, at : Positions, start : StateType,
            resumed : BOOLEAN, progress : SUBSET Checkpoints, result : StateType]

\* The result of the dispatch is not persisted yet; it is.
Unsaved == job.at \in {"handler", "closure", "checkpoint", "save"}
Saved == job.at \in {"snapshot", "flow", "node"}

RowShapes ==
    /\ kind \in Kinds /\ state \in StateType /\ job \in JobType
    /\ job.at = "idle" <=> job = NoJob
    /\ dispatches \in Nat

\* What is persisted lies on the route, and nothing behind it has completed.
StateOnRoute ==
    /\ state.phase = "none" => state = NoState
    /\ admitted => state.phase # "none"
    /\ state.phase # "none" =>
          /\ state.phase \in Route(kind)
          /\ \A q \in Prior(kind, state.phase) : <<q, "COMPLETED">> \in Log
    /\ state.status = "COMPLETED" => <<state.phase, "COMPLETED">> \in Log
    /\ \A q \in Phases : <<q, "COMPLETED">> \in Log =>
          \/ q \in Prior(kind, state.phase)
          \/ q = state.phase /\ state.status = "COMPLETED"

\* A dispatch executes the phase it resumes or the one that follows, which has
\* not completed before the dispatch has saved that it did.
JobOnRoute ==
    job.at # "idle" =>
        /\ job.phase \in Route(kind)
        /\ \A q \in Prior(kind, job.phase) : <<q, "COMPLETED">> \in Log
        /\ job.start.phase = job.phase
        /\ job.at \in {"closure", "checkpoint"} => job.phase = "closure"
        /\ job.at \in {"save", "snapshot", "flow", "node"} =>
              job.result.phase = job.phase /\ job.result.status \in Endings
        /\ Unsaved =>
              /\ <<job.phase, "COMPLETED">> \notin Log
              /\ \/ state.phase = job.phase
                 \/ state = NoState
                 \/ state.phase \in Prior(kind, job.phase)
        /\ Saved => state = job.result /\ <<job.phase, Outcome(job.result.status)>> \in Log
        /\ job.at = "snapshot" => job.result.status = "COMPLETED"

\* After a failed or escalated phase nothing is dispatched any more.
FlowIsLast ==
    flow.status \in {"FAILED", "ESCALATED"} =>
        /\ state.phase = flow.node /\ state.status = flow.status
        /\ job.at \in {"idle", "node"}

PipelineInv == RowShapes /\ StateOnRoute /\ JobOnRoute /\ FlowIsLast

-----------------------------------------------------------------------------
(* What the steps of a dispatch do to phase state and job.                 *)

\* The job returns r to the engine, the phase state as it is or as escalated.
Returns(r) ==
    /\ r \in StateType /\ r.phase = job.phase /\ r.status \in Endings
    /\ job' = [job EXCEPT !.at = "save", !.result = r]
    /\ UNCHANGED state \/ (job.phase = "closure" /\ state' = ClosureState(job.progress, "ESCALATED"))

(* A handler returns a state of the phase it was started for.                *)
LEMMA HandlerEffect ==
  ASSUME RowShapes, JobOnRoute, HandlerReturns \/ HandlerRaises
  PROVE  \E r \in StateType : Returns(r) /\ UNCHANGED state
<1>1. job.at # "idle" /\ job.start \in StateType /\ job.start.phase = job.phase
  BY DEF RowShapes, JobType, JobOnRoute, HandlerReturns, HandlerRaises
<1>2. \A st \in Endings : Keep(st) \in StateType /\ Keep(st).phase = job.phase /\ Keep(st).status = st
  BY <1>1 DEF Keep, StateType, Endings, Statuses
<1>3. ASSUME HandlerReturns PROVE \E r \in StateType : Returns(r) /\ UNCHANGED state
  <2>1. PICK r \in HandlerResults(job.phase) : Return(r)
    BY <1>3 DEF HandlerReturns
  <2>2. job.phase \in {"setup", "exploration", "implementation"}
    BY <1>1, <1>3 DEF HandlerReturns, RowShapes, JobType, Phases, JobOnRoute, Route
  <2>3. r \in StateType /\ r.phase = job.phase /\ r.status \in Endings
    <3>1. CASE job.phase = "setup"
      BY <1>2, <3>1, <2>1 DEF HandlerResults, Endings
    <3>2. CASE job.phase = "exploration"
      BY ZenonT(40), <1>1, <3>2, <2>1 DEF HandlerResults, ExplorationResults, StateType, Statuses, Endings
    <3>3. CASE job.phase = "implementation"
      BY <1>2, <3>3, <2>1 DEF HandlerResults, Endings
    <3> QED
      BY <2>2, <3>1, <3>2, <3>3
  <2> QED
    BY <1>3, <2>1, <2>3 DEF HandlerReturns, Returns, Return, rows
<1>4. ASSUME HandlerRaises PROVE \E r \in StateType : Returns(r) /\ UNCHANGED state
  BY <1>2, <1>4 DEF HandlerRaises, Returns, Return, rows, Endings
<1> QED
  BY <1>3, <1>4

(* Closure writes phase states of its own phase only.                        *)
LEMMA ClosureEffect ==
  ASSUME RowShapes, JobOnRoute, ClosureSteps
  PROVE  /\ job.phase = "closure" /\ job.at \in {"handler", "closure", "checkpoint"}
         /\ UNCHANGED <<kind, attempts, snapshots, flow, nodes, closureOk, frozen, admitted, reply, bounds>>
         /\ \/ \E r \in StateType : Returns(r)
            \/ /\ \E a \in {"closure", "checkpoint"}, p \in SUBSET Checkpoints :
                     job' = [job EXCEPT !.at = a, !.progress = p]
               /\ \/ UNCHANGED state
                  \/ \E p \in SUBSET Checkpoints : state' = ClosureState(p, "IN_PROGRESS")
<1> USE DEF RowShapes, JobType
<1>1. /\ job.phase = "closure" /\ job.at \in {"handler", "closure", "checkpoint"}
      /\ UNCHANGED <<kind, attempts, snapshots, flow, nodes, closureOk, frozen, admitted, reply, bounds>>
  BY DEF JobOnRoute, ClosureSteps, ClosureEnters, PrepareEdgeMerge, VerifyEdgeMerge, ExecuteEdgeMerge, SkipMerge,
         CloseStory, CheckpointClosed, WriteMetrics, Postflight, WriteReport, At, closureFrame
<1>2. job.start.phase = "closure" /\ job.start \in StateType /\ job.progress \in SUBSET Checkpoints
  BY <1>1 DEF JobOnRoute
<1>3. \A st \in Endings : Keep(st) \in StateType /\ Keep(st).phase = job.phase /\ Keep(st).status = st
  BY <1>1, <1>2 DEF Keep, StateType, Endings, Statuses
<1>4. \A st \in Endings, p \in SUBSET Checkpoints :
         ClosureState(p, st) \in StateType /\ ClosureState(p, st).phase = "closure" /\ ClosureState(p, st).status = st
  BY DEF ClosureState, StateType, Endings, Statuses, Phases
<1>5. ASSUME escalated PROVE \E r \in StateType : Returns(r)
  <2> DEFINE e == ClosureState(job.progress, "ESCALATED")
  <2>1. e \in StateType /\ e.phase = job.phase /\ e.status \in Endings
    BY <1>1, <1>2, <1>4 DEF Endings
  <2>2. state' = e /\ job' = [job EXCEPT !.at = "save", !.result = e]
    BY <1>5 DEF escalated, Return
  <2>3. Returns(e)
    BY <1>1, <2>1, <2>2 DEF Returns
  <2> QED
    BY <2>1, <2>3
<1>6. ASSUME NEW st \in Endings, Return(Keep(st)), UNCHANGED state PROVE \E r \in StateType : Returns(r)
  BY <1>3, <1>6 DEF Returns, Return
<1>7. ASSUME NEW c \in SUBSET Checkpoints, persist(job.progress \cup c)
      PROVE  /\ \E a \in {"closure", "checkpoint"}, p \in SUBSET Checkpoints :
                     job' = [job EXCEPT !.at = a, !.progress = p]
             /\ \E p \in SUBSET Checkpoints : state' = ClosureState(p, "IN_PROGRESS")
  BY <1>2, <1>7 DEF persist
<1>8. ASSUME NEW a \in {"closure", "checkpoint"}, job' = [job EXCEPT !.at = a]
      PROVE  \E b \in {"closure", "checkpoint"}, p \in SUBSET Checkpoints :
                     job' = [job EXCEPT !.at = b, !.progress = p]
  <2>1. job' = [job EXCEPT !.at = a, !.progress = job.progress]
    BY <1>8
  <2> QED
    BY <1>2, <2>1
<1> USE DEF Endings
<1>c1. CASE ClosureEnters
  BY <1>1, <1>5, <1>6, <1>8, <1>c1 DEF ClosureEnters
<1>c2. CASE PrepareEdgeMerge
  BY <1>1, <1>5, <1>7, <1>c2 DEF PrepareEdgeMerge, Checkpoints
<1>c3. CASE VerifyEdgeMerge
  BY <1>1, <1>5, <1>7, <1>c3 DEF VerifyEdgeMerge, Checkpoints
<1>c4. CASE ExecuteEdgeMerge
  BY <1>1, <1>5, <1>6, <1>7, <1>c4 DEF ExecuteEdgeMerge, Checkpoints
<1>c5. CASE SkipMerge
  BY <1>1, <1>7, <1>c5 DEF SkipMerge, Checkpoints
<1>c6. CASE CloseStory
  BY <1>1, <1>6, <1>8, <1>c6 DEF CloseStory
<1>c7. CASE CheckpointClosed
  BY <1>1, <1>7, <1>c7 DEF CheckpointClosed, Checkpoints
<1>c8. CASE WriteMetrics
  BY <1>1, <1>6, <1>7, <1>c8 DEF WriteMetrics, Checkpoints
<1>c9. CASE Postflight
  BY <1>1, <1>7, <1>c9 DEF Postflight, Checkpoints
<1>c10. CASE WriteReport
  <2> DEFINE e == ClosureState(job.progress, "COMPLETED")
  <2>1. e \in StateType /\ e.phase = job.phase /\ e.status \in Endings
    BY <1>1, <1>2, <1>4 DEF Endings
  <2>2. UNCHANGED state /\ job' = [job EXCEPT !.at = "save", !.result = e]
    BY <1>c10 DEF WriteReport, Return
  <2>3. Returns(e)
    BY <1>1, <2>1, <2>2 DEF Returns
  <2> QED
    BY <1>1, <2>1, <2>3
<1> QED
  BY <1>c1, <1>c2, <1>c3, <1>c4, <1>c5, <1>c6, <1>c7, <1>c8, <1>c9, <1>c10 DEF ClosureSteps

-----------------------------------------------------------------------------
(* Every dispatch goes one step along the route, and a phase that completed is
   never executed again.                                                     *)
LEMMA PipelineInvHolds == Spec => []PipelineInv
<1> USE StoryPipelineAssumption
<1>1. Init => PipelineInv
  <2> SUFFICES ASSUME Init PROVE PipelineInv
    OBVIOUS
  <2>1. Log = {}
    BY DEF Init, Log
  <2>2. RowShapes
    BY DEF Init, RowShapes, NoState, NoJob, JobType, StateType, Statuses, Positions
  <2> QED
    BY <2>1, <2>2 DEF Init, PipelineInv, StateOnRoute, JobOnRoute, FlowIsLast, NoState, NoJob, NoFlow
<1>2. PipelineInv /\ [Next]_vars => PipelineInv'
  <2> SUFFICES ASSUME PipelineInv, [Next]_vars PROVE PipelineInv'
    OBVIOUS
  <2> USE DEF PipelineInv
  <2>k. kind \in AllKinds /\ state \in StateType /\ job \in JobType /\ state.phase \in Phases \cup {"none"}
    BY DEF RowShapes, StateType
  <2>r. Route(kind) \subseteq Phases /\ Prior(kind, "none") = {} /\ Prior(kind, "setup") = {}
    BY DEF Route, Prior
  <2>1. ASSUME UNCHANGED <<kind, attempts, state, admitted, dispatches, flow>>,
               job' = job \/ job' = NoJob
        PROVE  PipelineInv'
    <3>1. Log' = Log
      BY <2>1 DEF Log
    <3>2. RowShapes'
      <4>1. NoJob \in JobType /\ NoJob.at = "idle"
        BY DEF NoJob, JobType, StateType, NoState, Statuses, Positions
      <4> QED
        BY <2>1, <4>1 DEF RowShapes
    <3>3. StateOnRoute'
      BY <2>1, <3>1 DEF StateOnRoute
    <3>4. JobOnRoute' /\ FlowIsLast'
      BY <2>1, <3>1 DEF JobOnRoute, FlowIsLast, NoJob, Unsaved, Saved
    <3> QED
      BY <3>2, <3>3, <3>4
  <2>2. ASSUME NEW phase \in Phases, NEW trigger \in Triggers, Dispatch(phase, trigger), job' # job
        PROVE  PipelineInv'
    <3>1. /\ job = NoJob /\ ~Rejected(phase, trigger)
          /\ dispatches' = dispatches + 1
          /\ UNCHANGED <<kind, attempts, state, admitted>>
      BY <2>2 DEF Dispatch
    <3> DEFINE start == IF state.phase = phase THEN state
                        ELSE [NoState EXCEPT !.phase = phase, !.status = "PENDING"]
    <3>2. /\ job' = [NoJob EXCEPT !.engine = dispatches + 1, !.phase = phase, !.at = "handler",
                                  !.start = start, !.resumed = IsResume(phase), !.progress = start.progress]
          /\ flow' = IF IsResume(phase) THEN flow
                     ELSE [run |-> IF flow = NoFlow THEN dispatches + 1 ELSE flow.run,
                           status |-> "IN_PROGRESS", node |-> phase]
      BY <2>2 DEF Dispatch
    <3>3. start \in StateType /\ start.phase = phase
      BY <2>k DEF StateType, NoState, Statuses
    <3>4. Log' = Log
      BY <3>1 DEF Log
    <3>5. job'.at = "handler" /\ job'.phase = phase /\ job'.start = start
      BY <3>2 DEF NoJob
    <3>6. job' \in JobType
      <4>1. IsResume(phase) \in BOOLEAN
        BY DEF IsResume
      <4>2. start.progress \in SUBSET Checkpoints
        BY <3>3 DEF StateType
      <4> HIDE DEF start
      <4>3. dispatches + 1 \in Nat
        BY DEF RowShapes
      <4> QED
        BY <3>2, <3>3, <4>1, <4>2, <4>3 DEF JobType, NoJob, Positions, StateType, NoState, Statuses
    <3> HIDE DEF start
    <3>7. /\ phase \in Route(kind)
          /\ \A q \in Prior(kind, phase) : <<q, "COMPLETED">> \in Log
          /\ <<phase, "COMPLETED">> \notin Log
          /\ \/ state.phase = phase \/ state = NoState
             \/ state.phase \in Prior(kind, phase)
      <4>1. CASE state = NoState
        <5>1. state.phase = "none" /\ state.status = "NONE"
          BY <4>1 DEF NoState
        <5>2. phase = "setup"
          BY <3>1, <5>1 DEF Rejected, StateOnRoute
        <5> QED
          BY <4>1, <5>1, <5>2, <2>r DEF StateOnRoute, Route, Phases
      <4>2. CASE state.phase = phase /\ state.status = "PAUSED"
        BY <4>2, <2>r DEF StateOnRoute, Route, Prior, Phases
      <4>3. CASE state.phase # phase /\ state.status = "COMPLETED" /\ first_passing_edge(kind, state) = phase
        <5>1. Edge(kind, state, phase)
          BY <2>k, <4>3, EnteredAlongEdge
        <5>2. /\ state.phase \in Route(kind)
              /\ \A q \in Prior(kind, state.phase) : <<q, "COMPLETED">> \in Log
              /\ <<state.phase, "COMPLETED">> \in Log
          BY <4>3, <5>1 DEF StateOnRoute, Edge
        <5>3. phase \in Route(kind)
          BY <5>1, <5>2 DEF Edge, Route, Phases
        <5>4. Prior(kind, phase) \subseteq Prior(kind, state.phase) \cup {state.phase}
          BY <5>1, <5>2 DEF Edge, Route, Phases, Prior
        <5>5. state.phase \in Prior(kind, phase) /\ phase \notin Prior(kind, state.phase)
          BY <5>1, <5>2 DEF Edge, Route, Phases, Prior
        <5> QED
          BY <4>3, <5>2, <5>3, <5>4, <5>5 DEF StateOnRoute
      <4> QED
        BY <3>1, <4>1, <4>2, <4>3 DEF Rejected, StateAdmits
    <3>8. RowShapes'
      <4>1. job'.at # "idle" /\ NoJob.at = "idle"
        BY <3>5 DEF NoJob
      <4> QED
        BY <3>1, <3>6, <4>1 DEF RowShapes
    <3>9. StateOnRoute'
      BY <3>1, <3>4 DEF StateOnRoute
    <3>10. JobOnRoute'
      BY <3>1, <3>3, <3>4, <3>5, <3>7 DEF JobOnRoute, Unsaved, Saved
    <3>11. FlowIsLast'
      <4>1. CASE IsResume(phase)
        <5>1. flow' = flow /\ state.status = "PAUSED"
          BY <3>2, <4>1 DEF IsResume
        <5> QED
          BY <5>1 DEF FlowIsLast
      <4>2. CASE ~IsResume(phase)
        <5>1. flow'.status = "IN_PROGRESS"
          BY <3>2, <4>2
        <5> QED
          BY <5>1 DEF FlowIsLast
      <4> QED
        BY <4>1, <4>2
    <3> QED
      BY <3>8, <3>9, <3>10, <3>11
  <2>3. ASSUME HandlerReturns \/ HandlerRaises \/ ClosureSteps PROVE PipelineInv'
    <3>1. /\ UNCHANGED <<kind, attempts, snapshots, flow, admitted, reply, dispatches>>
          /\ job.at \in {"handler", "closure", "checkpoint"}
      BY <2>3, ClosureEffect DEF HandlerReturns, HandlerRaises, rows, bounds
    <3>2. Log' = Log
      BY <3>1 DEF Log
    <3>3. \/ UNCHANGED state
          \/ job.phase = "closure" /\ \E p \in SUBSET Checkpoints, st \in {"IN_PROGRESS", "ESCALATED"} :
                                         state' = ClosureState(p, st)
      BY <2>3, <2>k, HandlerEffect, ClosureEffect DEF Returns, JobType
    <3>4. /\ job' \in JobType /\ job'.at \in {"closure", "checkpoint", "save"}
          /\ job'.phase = job.phase /\ job'.start = job.start
          /\ job'.at = "save" => job'.result.phase = job.phase /\ job'.result.status \in Endings
          /\ job'.at # "save" => job.phase = "closure"
      <4>1. ASSUME NEW r \in StateType, Returns(r)
            PROVE  /\ job' \in JobType /\ job'.at = "save" /\ job'.result = r
                   /\ job'.phase = job.phase /\ job'.start = job.start
                   /\ r.phase = job.phase /\ r.status \in Endings
        BY <2>k, <4>1 DEF Returns, JobType, Positions
      <4>2. ASSUME NEW a \in {"closure", "checkpoint"}, NEW p \in SUBSET Checkpoints,
                   job' = [job EXCEPT !.at = a, !.progress = p]
            PROVE  job' \in JobType /\ job'.at = a /\ job'.phase = job.phase /\ job'.start = job.start
        BY <2>k, <4>2 DEF JobType, Positions
      <4>3. CASE HandlerReturns \/ HandlerRaises
        BY <4>1, <4>3, HandlerEffect
      <4>4. CASE ClosureSteps
        BY <4>1, <4>2, <4>4, ClosureEffect
      <4> QED
        BY <2>3, <4>3, <4>4
    <3>5. state' \in StateType
      <4>1. \A p \in SUBSET Checkpoints, st \in {"IN_PROGRESS", "ESCALATED"} : ClosureState(p, st) \in StateType
        BY DEF ClosureState, StateType, Statuses, Phases
      <4> QED
        BY <2>k, <3>3, <4>1
    <3>6. \/ UNCHANGED state
          \/ state'.phase = "closure" /\ state'.status # "COMPLETED" /\ job.phase = "closure"
      BY <3>3 DEF ClosureState
    <3>7. /\ job.phase \in Route(kind) /\ \A q \in Prior(kind, job.phase) : <<q, "COMPLETED">> \in Log
          /\ job.start.phase = job.phase /\ <<job.phase, "COMPLETED">> \notin Log
          /\ state.phase = job.phase \/ state = NoState \/ state.phase \in Prior(kind, job.phase)
      BY <3>1 DEF JobOnRoute, Unsaved
    <3>8. RowShapes'
      <4>1. job'.at # "idle" /\ NoJob.at = "idle"
        BY <3>4 DEF NoJob
      <4> QED
        BY <3>1, <3>4, <3>5, <4>1 DEF RowShapes
    <3>9. StateOnRoute'
      <4>1. CASE UNCHANGED state
        BY <3>1, <3>2, <4>1 DEF StateOnRoute
      <4>2. CASE state'.phase = "closure" /\ state'.status # "COMPLETED" /\ job.phase = "closure"
        <5>1. \A q \in Phases : q \in Prior(kind, "closure") \/ q = "closure" \/ <<q, "COMPLETED">> \notin Log
          <6>1. \A q \in Phases \ Route(kind) : <<q, "COMPLETED">> \notin Log
            BY DEF StateOnRoute, Route, Prior, Phases
          <6> QED
            BY <6>1 DEF Prior
        <5> QED
          BY <3>1, <3>2, <3>7, <4>2, <5>1 DEF StateOnRoute
      <4> QED
        BY <3>6, <4>1, <4>2
    <3>10. JobOnRoute'
      BY <3>1, <3>2, <3>4, <3>6, <3>7 DEF JobOnRoute, Unsaved, Saved
    <3>11. FlowIsLast'
      BY <3>1, <3>6 DEF FlowIsLast
    <3> QED
      BY <3>8, <3>9, <3>10, <3>11
  <2>4. ASSUME SavePhaseCompletion, ~frozen PROVE PipelineInv'
    <3> DEFINE o == Outcome(job.result.status)
    <3>1. /\ job.at = "save"
          /\ attempts' = Upsert(attempts, <<resolve_run_id, job.phase, AttemptNumber>>, o)
          /\ state' = job.result
          /\ job' = [job EXCEPT !.at = IF job.result.status = "COMPLETED" THEN "snapshot" ELSE "flow"]
          /\ UNCHANGED <<kind, flow, admitted, dispatches, reply>>
      BY <2>4 DEF SavePhaseCompletion, bounds
    <3>2. /\ job.phase \in Route(kind) /\ \A q \in Prior(kind, job.phase) : <<q, "COMPLETED">> \in Log
          /\ job.start.phase = job.phase /\ <<job.phase, "COMPLETED">> \notin Log
          /\ job.result.phase = job.phase /\ job.result.status \in Endings
          /\ state.phase = job.phase \/ state = NoState \/ state.phase \in Prior(kind, job.phase)
      BY <3>1 DEF JobOnRoute, Unsaved
    <3>3. /\ <<job.phase, o>> \in Log'
          /\ \A q : <<q, "COMPLETED">> \in Log' <=> <<q, "COMPLETED">> \in Log \/ (q = job.phase /\ o = "COMPLETED")
      BY <3>1, <3>2, UpsertKeepsLog
    <3>4. o = "COMPLETED" <=> job.result.status = "COMPLETED"
      BY <3>2 DEF Outcome, Endings
    <3>5. /\ job' \in JobType /\ job'.at \in {"snapshot", "flow"}
          /\ job'.at = "snapshot" => job.result.status = "COMPLETED"
          /\ job'.phase = job.phase /\ job'.start = job.start /\ job'.result = job.result
      BY <2>k, <3>1 DEF JobType, Positions
    <3>6. RowShapes'
      <4>1. job'.at # "idle" /\ NoJob.at = "idle"
        BY <3>5 DEF NoJob
      <4>2. job.result \in StateType
        BY <2>k DEF JobType
      <4> QED
        BY <3>1, <3>5, <4>1, <4>2 DEF RowShapes
    <3>7. StateOnRoute'
      <4>1. \A q \in Phases : <<q, "COMPLETED">> \in Log => q \in Prior(kind, job.phase)
        <5>1. \A q \in Phases : <<q, "COMPLETED">> \in Log => q # job.phase /\ (q \in Prior(kind, state.phase) \/ q = state.phase)
          BY <3>2 DEF StateOnRoute
        <5>2. CASE state.phase = job.phase
          BY <5>1, <5>2
        <5>3. CASE state = NoState
          BY <5>1, <5>3, <2>r DEF NoState, Phases
        <5>4. CASE state.phase \in Prior(kind, job.phase)
          BY <5>1, <5>4, <3>2 DEF Prior, Route, Phases
        <5> QED
          BY <3>2, <5>2, <5>3, <5>4
      <4>2. job.phase # "none"
        BY <3>2, <2>r DEF Phases
      <4> QED
        BY <3>1, <3>2, <3>3, <3>4, <4>1, <4>2 DEF StateOnRoute
    <3>8. JobOnRoute'
      <4>1. \A q \in Prior(kind, job.phase) : <<q, "COMPLETED">> \in Log'
        BY <3>2, <3>3
      <4> HIDE DEF o
      <4> QED
        BY <3>1, <3>2, <3>3, <3>5, <4>1 DEF JobOnRoute, Unsaved, Saved, o
    <3>9. FlowIsLast'
      BY <3>1 DEF FlowIsLast
    <3> QED
      BY <3>6, <3>7, <3>8, <3>9
  <2>5. ASSUME SavePhaseSnapshot \/ RecordFlowExecution PROVE PipelineInv'
    <3>1. /\ job.at \in {"snapshot", "flow"} /\ UNCHANGED <<kind, attempts, state, admitted, dispatches, reply>>
          /\ \E a \in {"flow", "node"} : job' = [job EXCEPT !.at = a]
      BY <2>5 DEF SavePhaseSnapshot, RecordFlowExecution, bounds
    <3>2. /\ job' \in JobType /\ job'.at \in {"flow", "node"}
          /\ job'.phase = job.phase /\ job'.start = job.start /\ job'.result = job.result
      BY <2>k, <3>1 DEF JobType, Positions
    <3>3. Log' = Log
      BY <3>1 DEF Log
    <3>4. RowShapes'
      <4>1. job'.at # "idle" /\ NoJob.at = "idle"
        BY <3>2 DEF NoJob
      <4> QED
        BY <3>1, <3>2, <4>1 DEF RowShapes
    <3>5. StateOnRoute'
      BY <3>1, <3>3 DEF StateOnRoute
    <3>6. JobOnRoute'
      BY <3>1, <3>2, <3>3 DEF JobOnRoute, Unsaved, Saved
    <3>7. FlowIsLast'
      <4>1. CASE SavePhaseSnapshot
        BY <3>1, <4>1 DEF SavePhaseSnapshot, FlowIsLast
      <4>2. CASE RecordFlowExecution
        <5>1. flow'.status = Outcome(job.result.status) /\ flow'.node = job.phase /\ job'.at = "node"
          BY <2>k, <4>2 DEF RecordFlowExecution, JobType
        <5>2. state = job.result /\ job.result.phase = job.phase /\ job.result.status \in Endings
          BY <3>1 DEF JobOnRoute, Saved
        <5> QED
          BY <3>1, <5>1, <5>2 DEF FlowIsLast, Outcome, Endings
      <4> QED
        BY <2>5, <4>1, <4>2
    <3> QED
      BY <3>4, <3>5, <3>6, <3>7
  <2>6. ASSUME RecordNodeOutcome PROVE PipelineInv'
    <3>1. job.at = "node" /\ job' = NoJob /\ admitted' = TRUE /\ UNCHANGED <<kind, attempts, state, dispatches, flow>>
      BY <2>6 DEF RecordNodeOutcome, bounds
    <3>2. Log' = Log
      BY <3>1 DEF Log
    <3>3. state.phase # "none"
      BY <3>1, <2>r DEF JobOnRoute, Saved, Phases
    <3>4. RowShapes'
      <4>1. NoJob \in JobType /\ NoJob.at = "idle"
        BY DEF NoJob, JobType, StateType, NoState, Statuses, Positions
      <4> QED
        BY <3>1, <4>1 DEF RowShapes
    <3>5. StateOnRoute'
      BY <3>1, <3>2, <3>3 DEF StateOnRoute
    <3>6. JobOnRoute' /\ FlowIsLast'
      BY <3>1 DEF JobOnRoute, FlowIsLast, NoJob
    <3> QED
      BY <3>4, <3>5, <3>6
  <2>7. ASSUME NEW phase \in Phases, NEW trigger \in Triggers, Dispatch(phase, trigger), job' = job
        PROVE  PipelineInv'
    <3>1. UNCHANGED <<kind, attempts, state, admitted>> /\ job = NoJob
      BY <2>7 DEF Dispatch
    <3>2. UNCHANGED <<dispatches, flow>>
      <4>1. UNCHANGED <<flow, dispatches>> \/ job'.at = "handler"
        BY <2>7 DEF Dispatch, NoJob
      <4> QED
        BY <2>7, <3>1, <4>1 DEF NoJob
    <3>3. job.at = "idle"
      BY <3>1 DEF NoJob
    <3>4. Log' = Log
      BY <3>1 DEF Log
    <3>5. RowShapes'
      BY <2>7, <3>1, <3>2 DEF RowShapes
    <3>6. StateOnRoute'
      BY <3>1, <3>4 DEF StateOnRoute
    <3>7. JobOnRoute' /\ FlowIsLast'
      BY <2>7, <3>1, <3>2, <3>3 DEF JobOnRoute, FlowIsLast
    <3> QED
      BY <3>5, <3>6, <3>7
  <2>8. CASE SavePhaseCompletion /\ frozen
    BY <2>1, <2>8 DEF SavePhaseCompletion, bounds
  <2>9. CASE Crash \/ Freeze \/ Thaw
    BY <2>1, <2>9 DEF Crash, Freeze, Thaw, rows, bounds
  <2>10. CASE UNCHANGED vars
    BY <2>1, <2>10 DEF vars, rows, bounds
  <2> QED
    BY <2>2, <2>3, <2>4, <2>5, <2>6, <2>7, <2>8, <2>9, <2>10 DEF Next, EngineSteps
<1> QED
  BY <1>1, <1>2, PTL DEF Spec

-----------------------------------------------------------------------------
(* Type correctness.                                                       *)

\* What TypeOK says beyond the phase state and the job.
TableTypes ==
    /\ closureOk \in {"unset", "no", "yes"}
    /\ \A k \in DOMAIN attempts : k[2] \in Phases /\ attempts[k] \in Outcomes
    /\ snapshots \subseteq Phases
    /\ flow.status \in Outcomes \cup {"NONE", "IN_PROGRESS"}
    /\ nodes \in [Phases -> [count : Nat, success : Nat]]
    /\ \A p \in Phases : nodes[p].success <= nodes[p].count

Flags == {merged, done, frozen, admitted} \subseteq BOOLEAN

(* The rows of the pipeline tables and the running dispatch are well typed.  *)
THEOREM TypeCorrect == Spec => []TypeOK
<1>1. Init => TableTypes /\ Flags
  <2> SUFFICES ASSUME Init PROVE TableTypes /\ Flags
    OBVIOUS
  <2>1. DOMAIN attempts = {}
    BY DEF Init
  <2>2. nodes \in [Phases -> [count : Nat, success : Nat]] /\ \A p \in Phases : nodes[p].success <= nodes[p].count
    BY DEF Init
  <2>3. Flags
    BY DEF Init, Flags
  <2> QED
    BY <2>1, <2>2, <2>3 DEF Init, TableTypes, NoFlow
<1>2. PipelineInv /\ TableTypes /\ [Next]_vars => TableTypes'
  <2> SUFFICES ASSUME PipelineInv, TableTypes, [Next]_vars PROVE TableTypes'
    OBVIOUS
  <2>j. /\ job \in JobType
        /\ job.at # "idle" => job.phase \in Phases
        /\ job.at \in {"save", "snapshot", "flow", "node"} => job.result.status \in Endings
    BY DEF PipelineInv, RowShapes, JobOnRoute, Route
  <2>o. \A st \in Endings : Outcome(st) \in Outcomes
    BY DEF Endings, Outcome, Outcomes
  <2>1. CASE UNCHANGED <<closureOk, attempts, snapshots, flow, nodes>>
    BY <2>1 DEF TableTypes
  <2>2. CASE \E phase \in Phases, trigger \in Triggers : Dispatch(phase, trigger)
    BY <2>2 DEF Dispatch, TableTypes, effects
  <2>3. CASE HandlerReturns
    BY <2>3 DEF HandlerReturns, FollowUp, TableTypes, rows
  <2>4. CASE HandlerRaises \/ Crash \/ Freeze \/ Thaw \/ UNCHANGED vars
    BY <2>1, <2>4 DEF HandlerRaises, Crash, Freeze, Thaw, vars, rows, effects
  <2>5. CASE ClosureSteps
    BY <2>1, <2>5, ClosureEffect DEF PipelineInv
  <2>6. CASE SavePhaseCompletion /\ ~frozen
    <3> DEFINE key == <<resolve_run_id, job.phase, AttemptNumber>>
               o == Outcome(job.result.status)
    <3>1. job.phase \in Phases /\ o \in Outcomes
      BY <2>6, <2>j, <2>o DEF SavePhaseCompletion
    <3>2. key[2] = job.phase
      OBVIOUS
    <3>3. attempts' = Upsert(attempts, key, o) /\ UNCHANGED <<closureOk, snapshots, flow, nodes>>
      BY <2>6 DEF SavePhaseCompletion, effects
    <3> HIDE DEF key, o
    <3>4. \A k \in DOMAIN attempts' : k[2] \in Phases /\ attempts'[k] \in Outcomes
      BY <3>1, <3>2, <3>3 DEF TableTypes, Upsert
    <3> QED
      BY <3>3, <3>4 DEF TableTypes
  <2>7. CASE SavePhaseCompletion /\ frozen
    BY <2>1, <2>7 DEF SavePhaseCompletion, effects
  <2>8. CASE SavePhaseSnapshot
    BY <2>j, <2>8 DEF SavePhaseSnapshot, TableTypes, effects
  <2>9. CASE RecordFlowExecution
    <3>1. flow'.status \in Outcomes
      BY <2>j, <2>o, <2>9 DEF RecordFlowExecution
    <3> QED
      BY <2>9, <3>1 DEF RecordFlowExecution, TableTypes, effects
  <2>10. CASE RecordNodeOutcome
    <3>1. job.phase \in Phases
      BY <2>j, <2>10 DEF RecordNodeOutcome
    <3>2. PICK d \in {0, 1} : nodes' = [nodes EXCEPT ![job.phase] = [count |-> @.count + 1, success |-> @.success + d]]
      BY <2>10 DEF RecordNodeOutcome
    <3>3. nodes' \in [Phases -> [count : Nat, success : Nat]]
      BY <3>1, <3>2 DEF TableTypes
    <3>4. \A p \in Phases : nodes'[p].success <= nodes'[p].count
      BY <3>1, <3>2 DEF TableTypes
    <3> QED
      BY <2>10, <3>3, <3>4 DEF RecordNodeOutcome, TableTypes, effects
  <2> QED
    BY <2>2, <2>3, <2>4, <2>5, <2>6, <2>7, <2>8, <2>9, <2>10 DEF Next, EngineSteps
<1>3. PipelineInv /\ Flags /\ [Next]_vars => Flags'
  <2> SUFFICES ASSUME PipelineInv, Flags, [Next]_vars PROVE Flags'
    OBVIOUS
  <2> QED
    BY DEF Flags, Next, EngineSteps, Dispatch, HandlerReturns, HandlerRaises, ClosureSteps, ClosureEnters, PrepareEdgeMerge,
       VerifyEdgeMerge, ExecuteEdgeMerge, SkipMerge, CloseStory, CheckpointClosed, WriteMetrics, Postflight, WriteReport,
       closureFrame, SavePhaseCompletion, SavePhaseSnapshot, RecordFlowExecution, RecordNodeOutcome, Crash, Freeze, Thaw,
       vars, effects
<1>4. PipelineInv /\ TableTypes /\ Flags => TypeOK
  BY DEF PipelineInv, RowShapes, JobType, TableTypes, Flags, TypeOK, Positions
<1> QED
  BY <1>1, <1>2, <1>3, <1>4, PipelineInvHolds, PTL DEF Spec

-----------------------------------------------------------------------------
(* What the invariant says of the routes, the records and the answers.      *)

(* A phase is executed and persisted only behind completed attempts of every
   earlier phase of the route.                                               *)
THEOREM FollowsRoute == Spec => []RouteFollowed
<1>1. PipelineInv => RouteFollowed
  <2> SUFFICES ASSUME PipelineInv, NEW p \in {state.phase, job.phase} \ {"none"}
               PROVE  p \in ToSet(get_phases_for_story(kind)) /\ \A q \in Before(p) : Recorded(q, "COMPLETED")
    BY DEF RouteFollowed
  <2>1. kind \in AllKinds
    BY StoryPipelineAssumption DEF PipelineInv, RowShapes
  <2>2. job.phase # "none" => job.at # "idle"
    BY DEF PipelineInv, RowShapes, NoJob
  <2>3. p \in Route(kind) /\ \A q \in Prior(kind, p) : <<q, "COMPLETED">> \in Log
    BY <2>2 DEF PipelineInv, StateOnRoute, JobOnRoute
  <2>4. Before(p) = Prior(kind, p) /\ ToSet(get_phases_for_story(kind)) = Route(kind)
    BY <2>1, <2>3, BeforeIsPrior, RouteOfStory
  <2> QED
    BY <2>3, <2>4, RecordedInLog
<1> QED
  BY <1>1, PipelineInvHolds, PTL

(* A completed attempt is never overwritten, although the numbers of attempts
   repeat: the phase is not executed again.                                  *)
THEOREM CompletedStays == Spec => CompletedIsFinal
<1>1. PipelineInv /\ [Next]_vars =>
        \A k \in DOMAIN attempts :
          attempts[k] = "COMPLETED" => k \in DOMAIN attempts' /\ attempts'[k] = "COMPLETED"
  <2> SUFFICES ASSUME PipelineInv, [Next]_vars
               PROVE  \A k \in DOMAIN attempts :
                        attempts[k] = "COMPLETED" => k \in DOMAIN attempts' /\ attempts'[k] = "COMPLETED"
    OBVIOUS
  <2>1. CASE SavePhaseCompletion /\ ~frozen
    <3>1. <<job.phase, "COMPLETED">> \notin Log
      BY <2>1 DEF SavePhaseCompletion, PipelineInv, JobOnRoute, Unsaved
    <3>2. attempts' = Upsert(attempts, <<resolve_run_id, job.phase, AttemptNumber>>, Outcome(job.result.status))
      BY <2>1 DEF SavePhaseCompletion
    <3> QED
      BY <3>1, <3>2, UpsertKeepsLog
  <2>2. CASE UNCHANGED attempts
    BY <2>2
  <2>3. ClosureSteps => UNCHANGED attempts
    BY ClosureEffect DEF PipelineInv
  <2>4. UNCHANGED attempts \/ (SavePhaseCompletion /\ ~frozen)
    BY <2>3 DEF Next, EngineSteps, Dispatch, HandlerReturns, HandlerRaises, SavePhaseCompletion, SavePhaseSnapshot,
       RecordFlowExecution, RecordNodeOutcome, Crash, Freeze, Thaw, rows, vars
  <2> QED
    BY <2>1, <2>2, <2>4
<1> QED
  BY <1>1, PipelineInvHolds, PTL DEF Spec, CompletedIsFinal

\* The flow entry and the snapshots speak of recorded attempts.
LedgersInv ==
    /\ flow.status \in {"COMPLETED", "FAILED", "ESCALATED"} => <<flow.node, flow.status>> \in Log
    /\ \A p \in snapshots : <<p, "COMPLETED">> \in Log

(* Snapshot and flow entry are written after the attempt, and what they say
   stays recorded: completed attempts for good, and behind a failed or escalated
   flow entry no attempt is saved any more.                                  *)
THEOREM AttemptFirst == Spec => []LedgersBackedByAttempt
<1>1. Init => LedgersInv
  BY DEF Init, LedgersInv, NoFlow
<1>2. PipelineInv /\ LedgersInv /\ [Next]_vars => LedgersInv'
  <2> SUFFICES ASSUME PipelineInv, LedgersInv, [Next]_vars PROVE LedgersInv'
    OBVIOUS
  <2> USE DEF LedgersInv
  <2>1. ASSUME UNCHANGED <<attempts, snapshots>>,
               UNCHANGED flow \/ flow'.status = "IN_PROGRESS"
        PROVE  LedgersInv'
    <3>1. Log' = Log
      BY <2>1 DEF Log
    <3> QED
      BY <2>1, <3>1
  <2>2. CASE SavePhaseCompletion /\ ~frozen
    <3>1. <<job.phase, "COMPLETED">> \notin Log /\ flow.status \notin {"FAILED", "ESCALATED"}
      BY <2>2 DEF SavePhaseCompletion, PipelineInv, JobOnRoute, Unsaved, FlowIsLast
    <3>2. attempts' = Upsert(attempts, <<resolve_run_id, job.phase, AttemptNumber>>, Outcome(job.result.status))
      BY <2>2 DEF SavePhaseCompletion
    <3>3. \A q : <<q, "COMPLETED">> \in Log => <<q, "COMPLETED">> \in Log'
      BY <3>1, <3>2, UpsertKeepsLog
    <3>4. UNCHANGED <<flow, snapshots>>
      BY <2>2 DEF SavePhaseCompletion
    <3> QED
      BY <3>1, <3>3, <3>4
  <2>3. CASE SavePhaseSnapshot
    <3>1. <<job.phase, "COMPLETED">> \in Log
      BY <2>3 DEF SavePhaseSnapshot, PipelineInv, JobOnRoute, Saved, Outcome
    <3>2. Log' = Log
      BY <2>3 DEF SavePhaseSnapshot, Log
    <3> QED
      BY <2>3, <3>1, <3>2 DEF SavePhaseSnapshot
  <2>4. CASE RecordFlowExecution
    <3>1. <<job.phase, Outcome(job.result.status)>> \in Log
      BY <2>4 DEF RecordFlowExecution, PipelineInv, JobOnRoute, Saved
    <3>2. Log' = Log
      BY <2>4 DEF RecordFlowExecution, Log
    <3> QED
      BY <2>4, <3>1, <3>2 DEF RecordFlowExecution
  <2>5. CASE \E phase \in Phases, trigger \in Triggers : Dispatch(phase, trigger)
    BY <2>1, <2>5 DEF Dispatch
  <2>6. CASE ClosureSteps
    BY <2>1, <2>6, ClosureEffect DEF PipelineInv
  <2>7. CASE HandlerReturns \/ HandlerRaises \/ RecordNodeOutcome \/ (SavePhaseCompletion /\ frozen)
    BY <2>1, <2>7 DEF HandlerReturns, HandlerRaises, RecordNodeOutcome, SavePhaseCompletion, rows
  <2>8. CASE Crash \/ Freeze \/ Thaw \/ UNCHANGED vars
    BY <2>1, <2>8 DEF Crash, Freeze, Thaw, vars, rows
  <2> QED
    BY <2>2, <2>3, <2>4, <2>5, <2>6, <2>7, <2>8 DEF Next, EngineSteps
<1>3. LedgersInv => LedgersBackedByAttempt
  BY RecordedInLog DEF LedgersInv, LedgersBackedByAttempt
<1> QED
  BY <1>1, <1>2, <1>3, PipelineInvHolds, PTL DEF Spec

\* A running dispatch has answered nothing.
ReplyInv == ReplyIsDurable /\ (job.at # "idle" => reply = NoReply)

(* The engine's answer to an attempt is the persisted state: it is given after
   the state was saved and before anything else of the story is dispatched.
   The answer "failed" without an attempt is given to a resume with a trigger
   of no yield point, and the phase it was asked for is still PAUSED.         *)
THEOREM AnswersAreDurable == Spec => []ReplyIsDurable
<1>1. Init => ReplyInv
  BY DEF Init, ReplyInv, ReplyIsDurable, NoReply
<1>2. PipelineInv /\ ReplyInv /\ [Next]_vars => ReplyInv'
  <2> SUFFICES ASSUME PipelineInv, ReplyInv, [Next]_vars PROVE ReplyInv'
    OBVIOUS
  <2>1. NoReply.status = "none" /\ ~NoReply.attempt /\ NoJob.at = "idle"
    BY DEF NoReply, NoJob
  <2>2. ASSUME reply' = reply, job' = job, UNCHANGED state PROVE ReplyInv'
    BY <2>2 DEF ReplyInv, ReplyIsDurable
  <2>3. ASSUME reply' = NoReply PROVE ReplyInv'
    BY <2>1, <2>3 DEF ReplyInv, ReplyIsDurable
  <2>4. ASSUME reply' = reply, job.at # "idle" PROVE ReplyInv'
    BY <2>3, <2>4 DEF ReplyInv
  <2>5. CASE \E phase \in Phases, trigger \in Triggers : Dispatch(phase, trigger)
    <3>1. PICK phase \in Phases, trigger \in Triggers : Dispatch(phase, trigger)
      BY <2>5
    <3>2. \/ reply' = NoReply
          \/ job' = NoJob /\ reply' = NoAttempt(phase, "rejected")
          \/ /\ job' = NoJob /\ reply' = NoAttempt(phase, "failed")
             /\ IsResume(phase) /\ state' = state
      BY <3>1 DEF Dispatch
    <3>3. CASE job' = NoJob /\ reply' = NoAttempt(phase, "rejected")
      <4>1. reply'.status = "rejected" /\ ~reply'.attempt
        BY <3>3 DEF NoAttempt
      <4> QED
        BY <2>1, <3>3, <4>1 DEF ReplyInv, ReplyIsDurable
    <3>4. CASE job' = NoJob /\ reply' = NoAttempt(phase, "failed") /\ IsResume(phase) /\ state' = state
      <4>1. reply'.phase = phase /\ ~reply'.attempt
        BY <3>4 DEF NoAttempt
      <4>2. state'.phase = phase /\ state'.status = "PAUSED"
        BY <3>4 DEF IsResume
      <4> QED
        BY <2>1, <3>4, <4>1, <4>2 DEF ReplyInv, ReplyIsDurable
    <3> QED
      BY <2>3, <3>2, <3>3, <3>4
  <2>6. CASE HandlerReturns \/ HandlerRaises
    BY <2>4, <2>6 DEF HandlerReturns, HandlerRaises
  <2>7. CASE ClosureSteps
    BY <2>4, <2>7, ClosureEffect DEF PipelineInv
  <2>8. CASE SavePhaseCompletion
    <3>1. CASE frozen
      <4>1. job' = NoJob /\ reply'.status = "error" /\ ~reply'.attempt
        BY <2>8, <3>1 DEF SavePhaseCompletion, NoAttempt
      <4> QED
        BY <2>1, <4>1 DEF ReplyInv, ReplyIsDurable
    <3>2. CASE ~frozen
      BY <2>4, <2>8, <3>2 DEF SavePhaseCompletion
    <3> QED
      BY <3>1, <3>2
  <2>9. CASE SavePhaseSnapshot \/ RecordFlowExecution
    BY <2>4, <2>9 DEF SavePhaseSnapshot, RecordFlowExecution
  <2>10. CASE RecordNodeOutcome
    <3>1. state = job.result /\ job.result.phase = job.phase
      BY <2>10 DEF RecordNodeOutcome, PipelineInv, JobOnRoute, Saved
    <3>2. /\ state' = state /\ job' = NoJob /\ reply'.phase = job.phase
          /\ reply'.attempt /\ reply'.status = EngineStatus(job.result.status)
      BY <2>10 DEF RecordNodeOutcome
    <3> QED
      BY <2>1, <3>1, <3>2 DEF ReplyInv, ReplyIsDurable
  <2>11. CASE Crash
    BY <2>3, <2>11 DEF Crash
  <2>12. CASE Freeze \/ Thaw \/ UNCHANGED vars
    BY <2>2, <2>12 DEF Freeze, Thaw, vars, rows
  <2> QED
    BY <2>5, <2>6, <2>7, <2>8, <2>9, <2>10, <2>11, <2>12 DEF Next, EngineSteps
<1>3. ReplyInv => ReplyIsDurable
  BY DEF ReplyInv
<1> QED
  BY <1>1, <1>2, <1>3, PipelineInvHolds, PTL DEF Spec

\* A recorded merge is one the edge has made.
MergeIsReal ==
    IsCode(kind) /\ ~merged =>
        /\ "merge_done" \notin state.progress /\ "merge_done" \notin job.progress
        /\ "merge_done" \notin job.start.progress /\ "merge_done" \notin job.result.progress

DoneInv ==
    /\ MergeIsReal
    /\ done => <<"implementation", "COMPLETED">> \in Log /\ (IsCode(kind) => merged)

(* complete_story is reached with the merge recorded, behind a completed
   implementation, and both stay so.                                         *)
THEOREM DoneBehindMerge == Spec => []DoneIsEarned
<1>1. Init => DoneInv
  BY DEF Init, DoneInv, MergeIsReal, NoState, NoJob
<1>2. PipelineInv /\ DoneInv /\ [Next]_vars => DoneInv'
  <2> SUFFICES ASSUME PipelineInv, DoneInv, [Next]_vars PROVE DoneInv'
    OBVIOUS
  <2>t. /\ state \in StateType /\ job \in JobType /\ job.start \in StateType /\ job.result \in StateType
        /\ job.progress \in SUBSET Checkpoints
    BY DEF PipelineInv, RowShapes, JobType
  <2>1. ASSUME UNCHANGED <<kind, merged, state>>,
               \/ UNCHANGED job
               \/ job'.progress \cup job'.start.progress \cup job'.result.progress
                    \subseteq state.progress \cup job.progress \cup job.start.progress \cup job.result.progress
        PROVE  MergeIsReal'
    BY <2>1 DEF DoneInv, MergeIsReal
  <2>2. ASSUME UNCHANGED <<kind, merged, done, attempts>> PROVE DoneInv' <=> MergeIsReal'
    <3>1. Log' = Log
      BY <2>2 DEF Log
    <3> QED
      BY <2>2, <3>1 DEF DoneInv
  <2>3. ASSUME job' = NoJob PROVE job'.progress \cup job'.start.progress \cup job'.result.progress = {}
    BY <2>3 DEF NoJob, NoState
  <2>4. ASSUME NEW phase \in Phases, NEW trigger \in Triggers, Dispatch(phase, trigger) PROVE DoneInv'
    <3>1. UNCHANGED <<kind, merged, done, attempts, state>>
      BY <2>4 DEF Dispatch, effects
    <3>2. CASE UNCHANGED job
      BY <2>1, <2>2, <3>1, <3>2
    <3>3. CASE job' # job
      <4> DEFINE start == IF state.phase = phase THEN state
                          ELSE [NoState EXCEPT !.phase = phase, !.status = "PENDING"]
      <4>1. job' = [NoJob EXCEPT !.engine = dispatches + 1, !.phase = phase, !.at = "handler",
                                 !.start = start, !.resumed = IsResume(phase), !.progress = start.progress]
        BY <2>4, <3>3 DEF Dispatch
      <4>2. start.progress \subseteq state.progress
        BY DEF NoState
      <4> HIDE DEF start
      <4>3. job'.progress = start.progress /\ job'.start = start /\ job'.result.progress = {}
        BY <4>1 DEF NoJob, NoState
      <4> QED
        BY <2>1, <2>2, <3>1, <4>2, <4>3
    <3> QED
      BY <3>2, <3>3
  <2>5. ASSUME NEW st, Return(Keep(st)), UNCHANGED <<kind, merged, state>> PROVE MergeIsReal'
    <3>1. Keep(st).progress = job.start.progress
      BY <2>t DEF Keep, StateType
    <3>2. job'.progress = job.progress /\ job'.start = job.start /\ job'.result = Keep(st)
      BY <2>t, <2>5 DEF Return, JobType
    <3> QED
      BY <2>1, <2>5, <3>1, <3>2
  <2>6. CASE HandlerReturns
    <3>1. PICK r \in HandlerResults(job.phase) : Return(r)
      BY <2>6 DEF HandlerReturns
    <3>2. job.phase \in {"setup", "exploration", "implementation"}
      BY <2>6 DEF HandlerReturns, PipelineInv, JobOnRoute, Route, Phases
    <3>3. r.progress = job.start.progress
      BY <2>t, <3>1, <3>2 DEF HandlerResults, ExplorationResults, Keep, StateType
    <3>4. job'.progress = job.progress /\ job'.start = job.start /\ job'.result = r
      BY <2>t, <3>1 DEF Return, JobType
    <3>5. UNCHANGED <<kind, merged, done, attempts, state>>
      BY <2>6 DEF HandlerReturns, rows
    <3> QED
      BY <2>1, <2>2, <3>3, <3>4, <3>5
  <2>7. CASE HandlerRaises
    <3>1. UNCHANGED <<kind, merged, done, attempts, state>>
      BY <2>7 DEF HandlerRaises, rows, effects
    <3> QED
      BY <2>2, <2>5, <2>7, <3>1 DEF HandlerRaises
  <2>8. CASE ClosureSteps
    <3>1. UNCHANGED <<kind, attempts>>
      BY <2>8, ClosureEffect DEF PipelineInv
    <3>2. ASSUME escalated, UNCHANGED merged PROVE MergeIsReal'
      <4>1. state'.progress = job.progress /\ job'.progress = job.progress /\ job'.start = job.start
            /\ job'.result.progress = job.progress
        BY <2>t, <3>2 DEF escalated, ClosureState, Return, JobType
      <4> QED
        BY <3>1, <3>2, <4>1 DEF DoneInv, MergeIsReal
    <3>3. ASSUME NEW c, persist(job.progress \cup c), UNCHANGED merged \/ merged' = TRUE,
                 "merge_done" \in c /\ IsCode(kind) => merged'
          PROVE MergeIsReal'
      <4>1. state'.progress = job.progress \cup c /\ job'.progress = job.progress \cup c
            /\ job'.start = job.start /\ job'.result = job.result
        BY <2>t, <3>3 DEF persist, ClosureState, JobType
      <4> QED
        BY <3>1, <3>3, <4>1 DEF DoneInv, MergeIsReal
    <3>4. ASSUME NEW a, job' = [job EXCEPT !.at = a], UNCHANGED <<state, merged>> PROVE MergeIsReal'
      <4>1. job'.progress = job.progress /\ job'.start = job.start /\ job'.result = job.result
        BY <2>t, <3>4 DEF JobType
      <4> QED
        BY <2>1, <3>1, <3>4, <4>1
    <3>5. MergeIsReal' /\ (UNCHANGED merged \/ merged' = TRUE)
      <4>1. CASE ClosureEnters
        BY <2>5, <3>1, <3>2, <3>4, <4>1 DEF ClosureEnters
      <4>2. CASE PrepareEdgeMerge
        BY <3>2, <3>3, <4>2 DEF PrepareEdgeMerge
      <4>3. CASE VerifyEdgeMerge
        BY <3>2, <3>3, <4>3 DEF VerifyEdgeMerge
      <4>4. CASE ExecuteEdgeMerge
        BY <2>5, <3>1, <3>2, <3>3, <4>4 DEF ExecuteEdgeMerge
      <4>5. CASE SkipMerge
        <5>1. ~IsCode(kind)
          BY <4>5 DEF SkipMerge, At, OpenStep
        <5> QED
          BY <3>3, <4>5, <5>1 DEF SkipMerge
      <4>6. CASE CloseStory
        BY <2>5, <3>1, <3>4, <4>6 DEF CloseStory
      <4>7. CASE CheckpointClosed
        BY <3>3, <4>7 DEF CheckpointClosed
      <4>8. CASE WriteMetrics
        BY <2>5, <3>1, <3>3, <4>8 DEF WriteMetrics
      <4>9. CASE Postflight
        BY <3>3, <4>9 DEF Postflight
      <4>10. CASE WriteReport
        <5>1. job'.progress = job.progress /\ job'.start = job.start /\ job'.result.progress = job.progress
          BY <2>t, <4>10 DEF WriteReport, ClosureState, Return, JobType
        <5> QED
          BY <2>1, <3>1, <4>10, <5>1 DEF WriteReport
      <4> QED
        BY <2>8, <4>1, <4>2, <4>3, <4>4, <4>5, <4>6, <4>7, <4>8, <4>9, <4>10 DEF ClosureSteps
    <3>6. Log' = Log
      BY <3>1 DEF Log
    <3>7. UNCHANGED done \/ (CloseStory /\ UNCHANGED merged)
      BY <2>8 DEF ClosureSteps, ClosureEnters, PrepareEdgeMerge, VerifyEdgeMerge, ExecuteEdgeMerge, SkipMerge,
         CloseStory, CheckpointClosed, WriteMetrics, Postflight, WriteReport
    <3>8. CloseStory => <<"implementation", "COMPLETED">> \in Log /\ (IsCode(kind) => merged)
      <4> SUFFICES ASSUME CloseStory
                   PROVE  <<"implementation", "COMPLETED">> \in Log /\ (IsCode(kind) => merged)
        OBVIOUS
      <4>1. job.at = "closure" /\ OpenStep = "close"
        BY DEF CloseStory, At
      <4>2. "merge_done" \in job.progress
        BY <4>1 DEF OpenStep
      <4>3. <<"implementation", "COMPLETED">> \in Log
        BY <4>1 DEF PipelineInv, JobOnRoute, Prior, Route, Phases
      <4> QED
        BY <4>2, <4>3 DEF DoneInv, MergeIsReal
    <3> QED
      BY <3>1, <3>5, <3>6, <3>7, <3>8 DEF DoneInv
  <2>9. CASE SavePhaseCompletion /\ ~frozen
    <3>1. <<job.phase, "COMPLETED">> \notin Log
      BY <2>9 DEF SavePhaseCompletion, PipelineInv, JobOnRoute, Unsaved
    <3>2. attempts' = Upsert(attempts, <<resolve_run_id, job.phase, AttemptNumber>>, Outcome(job.result.status))
      BY <2>9 DEF SavePhaseCompletion
    <3>3. \A q : <<q, "COMPLETED">> \in Log => <<q, "COMPLETED">> \in Log'
      BY <3>1, <3>2, UpsertKeepsLog
    <3>4. UNCHANGED <<kind, merged, done>> /\ state' = job.result
      BY <2>9 DEF SavePhaseCompletion, effects
    <3>5. job'.progress = job.progress /\ job'.start = job.start /\ job'.result = job.result
      BY <2>t, <2>9 DEF SavePhaseCompletion, JobType
    <3> QED
      BY <3>3, <3>4, <3>5 DEF DoneInv, MergeIsReal
  <2>10. CASE SavePhaseSnapshot \/ RecordFlowExecution
    <3>1. UNCHANGED <<kind, merged, done, attempts, state>>
      BY <2>10 DEF SavePhaseSnapshot, RecordFlowExecution, effects
    <3>2. job'.progress = job.progress /\ job'.start = job.start /\ job'.result = job.result
      BY <2>t, <2>10 DEF SavePhaseSnapshot, RecordFlowExecution, JobType
    <3> QED
      BY <2>1, <2>2, <3>1, <3>2
  <2>11. CASE RecordNodeOutcome \/ Crash \/ (SavePhaseCompletion /\ frozen)
    BY <2>1, <2>2, <2>3, <2>11 DEF RecordNodeOutcome, Crash, SavePhaseCompletion, rows, effects
  <2>12. CASE Freeze \/ Thaw \/ UNCHANGED vars
    BY <2>1, <2>2, <2>12 DEF Freeze, Thaw, vars, rows, effects
  <2> QED
    BY <2>4, <2>6, <2>7, <2>8, <2>9, <2>10, <2>11, <2>12 DEF Next, EngineSteps
<1>3. DoneInv => DoneIsEarned
  BY RecordedInLog DEF DoneInv, DoneIsEarned
<1> QED
  BY <1>1, <1>2, <1>3, PipelineInvHolds, PTL DEF Spec

=============================================================================
