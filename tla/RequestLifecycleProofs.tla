----------------------- MODULE RequestLifecycleProofs -----------------------
(***************************************************************************)
(* Theorems about RequestLifecycle, for every value of its constants.      *)
(***************************************************************************)
EXTENDS RequestLifecycle, TLAPS

-----------------------------------------------------------------------------
(* Type correctness *)

\* What TypeOK leaves open: a call that got past its reads knows what it asks
\* for, a committed one knows its id, and a request on record has a payload.
Shape ==
    /\ \A s \in Sessions : session[s].pc # "idle" =>
         session[s].payload \in Payload \cup PurgeOrder
    /\ \A s \in Sessions : session[s].pc = "committed" => session[s].id \in RequestIds
    /\ \A r \in Live : payload[r] \in Payload

Typed == TypeOK /\ Shape

LEMMA IdleSessionTyped == IdleSession \in Session
  BY ConstantsAssumption DEF IdleSession, Session, Creators

LEMMA NoRowsTyped == NoRows \in [Services -> Creators]
  BY ConstantsAssumption DEF NoRows, Creators

LEMMA NoExecutionTyped == NoExecution \in Execution
  BY ConstantsAssumption, NoRowsTyped DEF NoExecution, Execution, Phases

LEMMA InitTyped == Init => Typed
  BY ConstantsAssumption, IdleSessionTyped, NoRowsTyped, NoExecutionTyped
     DEF Init, Typed, TypeOK, Shape, Live, Creators, RequestIds, Statuses, IdleSession

\* A Lambda that goes on to another phase.
LEMMA PhaseTyped ==
  ASSUME NEW r \in RequestIds, NEW ph \in Phases, exec \in [RequestIds -> Execution],
         Phase(r, ph)
  PROVE  exec' \in [RequestIds -> Execution]
<1> DEFINE seen == IF ph \in {"work", "report"} THEN exec[r].seen ELSE NoRows
           after == [exec[r] EXCEPT !.phase = ph, !.seen = seen]
<1>1. exec[r] \in Execution
  OBVIOUS
<1>2. exec[r].seen \in [Services -> Creators]
  BY <1>1 DEF Execution
<1>3. seen \in [Services -> Creators]
  BY <1>2, NoRowsTyped
<1>4. after \in Execution
  <2> HIDE DEF seen
  <2> QED BY <1>1, <1>3 DEF Execution
<1>5. exec' = [exec EXCEPT ![r] = after]
  BY DEF Phase
<1> HIDE DEF after
<1> QED BY <1>4, <1>5

\* Entering a state of the state machine, or closing it.
LEMMA EnterTyped ==
  ASSUME NEW st \in OpenStates, NEW n \in 0 .. MaxAttempts
  PROVE  Enter(st, n) \in Execution
  BY NoRowsTyped DEF Enter, Entry, Execution, Phases

LEMMA CloseTyped ==
  ASSUME NEW st \in ClosedStates
  PROVE  Close(st) \in Execution
  BY NoExecutionTyped DEF Close, Execution, NoExecution

\* The rows a SUCCESS leaves are typed, even for a request without a payload:
\* an update outside a function's domain changes nothing.
LEMMA PurgeRowsTyped ==
  ASSUME NEW r \in RequestIds, rows \in [Apps -> [Services -> Creators]]
  PROVE  PurgeRows(r) \in [Apps -> [Services -> Creators]]
<1>0. 0 \in Creators BY ConstantsAssumption DEF Creators
<1>1. CASE payload[r].app \in Apps
  <2>1. rows[payload[r].app] \in [Services -> Creators] BY <1>1
  <2>2. [x \in Services |-> IF x \in payload[r].remove THEN 0
                            ELSE rows[payload[r].app][x]] \in [Services -> Creators]
    BY <1>0, <2>1
  <2> QED BY <2>2 DEF PurgeRows
<1>2. CASE payload[r].app \notin Apps
  BY <1>2 DEF PurgeRows
<1> QED BY <1>1, <1>2

LEMMA ApplyStatusTyped ==
  ASSUME NEW r \in Live, NEW st \in Reports, Typed, ApplyStatus(r, st)
  PROVE  /\ rows' \in [Apps -> [Services -> Creators]]
         /\ status' \in [RequestIds -> Statuses]
         /\ Live' = Live
<1>1. rows' \in [Apps -> [Services -> Creators]]
  BY PurgeRowsTyped DEF ApplyStatus, Typed, TypeOK, Live
<1>2. status' \in [RequestIds -> Statuses]
  BY DEF ApplyStatus, Typed, TypeOK, Live, Statuses
<1>3. Live' = Live
  BY DEF ApplyStatus, Typed, TypeOK, Live, Reports, InFlight, Terminal
<1> QED BY <1>1, <1>2, <1>3

-----------------------------------------------------------------------------
(* What a step may do to the database.  Every action outside the HTTP        *)
(* sessions leaves it alone or applies one callback to a request on record.  *)

Callback == \E r \in Live, st \in Reports : ApplyStatus(r, st)

\* The variables outside the database and the sessions keep their types.
FlowTyped ==
    /\ queue    \subseteq RequestIds
    /\ receives \in [RequestIds -> 0 .. MaxReceives]
    /\ exec     \in [RequestIds -> Execution]
    /\ late     \subseteq RequestIds \X Reports

Flow == UNCHANGED session /\ (UNCHANGED dbVars \/ Callback) /\ FlowTyped'

LEMMA PostFlows ==
  ASSUME NEW r \in RequestIds, NEW st \in Reports,
         NEW ok \in Phases, NEW err \in Phases,
         Typed, Post(r, st, ok, err), UNCHANGED <<session, sqsVars>>
  PROVE  Flow
<1>1. exec' \in [RequestIds -> Execution]
  BY PhaseTyped DEF Post, Typed, TypeOK
<1>2. late' \subseteq RequestIds \X Reports
  BY DEF Post, Typed, TypeOK
<1>3. UNCHANGED dbVars \/ Callback
  <2>1. Acceptable(r) => r \in Live
    BY DEF Acceptable, Live
  <2> QED BY <2>1 DEF Post, Callback
<1> QED BY <1>1, <1>2, <1>3 DEF Flow, FlowTyped, Typed, TypeOK, sqsVars

LEMMA ConsumeFlows ==
  ASSUME NEW r \in RequestIds, Typed, Consume(r)
  PROVE  Flow
<1>1. ASSUME Receivable(r)
      PROVE  receives[r] + 1 \in 0 .. MaxReceives
  BY <1>1, ConstantsAssumption DEF Receivable, Typed, TypeOK
<1>2. Enter("step1", 0) \in Execution
  BY EnterTyped, ConstantsAssumption DEF OpenStates
<1>3. CASE Deliver(r)
  BY <1>1, <1>2, <1>3 DEF Deliver, Acknowledge, Flow, FlowTyped, Typed, TypeOK, sqsVars
<1>4. CASE DeliverAgain(r)
  BY <1>1, <1>4 DEF DeliverAgain, Acknowledge, Flow, FlowTyped, Typed, TypeOK
<1>5. CASE DeliverFails(r)
  BY <1>1, <1>5 DEF DeliverFails, Flow, FlowTyped, Typed, TypeOK
<1>6. CASE DeadLetter(r)
  BY <1>6 DEF DeadLetter, Flow, FlowTyped, Typed, TypeOK
<1> QED BY <1>3, <1>4, <1>5, <1>6 DEF Consume

\* A Lambda that only moves on.
LEMMA PhaseFlows ==
  ASSUME NEW r \in RequestIds, NEW ph \in Phases, Typed, Phase(r, ph),
         UNCHANGED <<session, dbVars, sqsVars, late>>
  PROVE  Flow
  BY PhaseTyped DEF Flow, FlowTyped, Typed, TypeOK, sqsVars

LEMMA GetDetailsFlows ==
  ASSUME NEW r \in RequestIds, Typed, GetDetails(r)
  PROVE  Flow
<1>1. exec' \in [RequestIds -> Execution]
  <2>1. payload[r] \in Payload
    BY DEF GetDetails, Typed, Shape, Live
  <2>2. Reported(r) \in [Services -> Creators]
    BY <2>1, NoRowsTyped DEF Reported, Typed, TypeOK, Payload
  <2>3. AfterDetails(r) \in Phases
    BY DEF AfterDetails, Phases
  <2>4. exec[r] \in Execution
    BY DEF Typed, TypeOK
  <2>5. \A ph \in Phases, seen \in [Services -> Creators] :
          [exec[r] EXCEPT !.phase = ph, !.seen = seen] \in Execution
    BY <2>4 DEF Execution
  <2>6. PICK ph \in Phases, seen \in [Services -> Creators] :
          exec' = [exec EXCEPT ![r].phase = ph, ![r].seen = seen]
    BY <2>2, <2>3, NoRowsTyped DEF GetDetails
  <2>7. exec' = [exec EXCEPT ![r] = [exec[r] EXCEPT !.phase = ph, !.seen = seen]]
    BY <2>6 DEF Typed, TypeOK
  <2> QED BY <2>5, <2>7 DEF Typed, TypeOK
<1> QED BY <1>1 DEF GetDetails, Flow, FlowTyped, Typed, TypeOK, sqsVars

LEMMA WorkFlows ==
  ASSUME NEW r \in RequestIds, Typed, Work(r)
  PROVE  Flow
<1> USE DEF Phases, Reports, InFlight, Terminal
<1>1. CASE GetDetails(r)
  BY <1>1, GetDetailsFlows
<1>2. CASE GetDetailsFails(r)
  BY <1>2, PhaseFlows DEF GetDetailsFails, ErrorPhase
<1>3. CASE ReportStarted(r)
  BY <1>3, PostFlows DEF ReportStarted
<1>4. CASE DoWork(r)
  BY <1>4, PhaseFlows DEF DoWork
<1>5. CASE WorkFails(r)
  BY <1>5, PhaseFlows DEF WorkFails
<1>6. CASE Report(r)
  BY <1>6, PostFlows DEF Report
<1>7. CASE ReportPartial(r)
  BY <1>7, PostFlows DEF ReportPartial
<1>8. CASE ReportFailure(r)
  BY <1>8, PostFlows DEF ReportFailure
<1>9. CASE Poll(r)
  <2>1. PICK verdict \in {"ready", "pending"} :
          \/ Phase(r, verdict) /\ UNCHANGED <<dbVars, late>>
          \/ Post(r, "in_progress", verdict, verdict)
    BY <1>9 DEF Poll
  <2>2. UNCHANGED <<session, sqsVars>>
    BY <1>9 DEF Poll
  <2> QED BY <2>1, <2>2, PhaseFlows, PostFlows
<1>10. CASE PollFails(r)
  BY <1>10, PhaseFlows DEF PollFails
<1> QED BY <1>1, <1>2, <1>3, <1>4, <1>5, <1>6, <1>7, <1>8, <1>9, <1>10 DEF Work

LEMMA TransitionFlows ==
  ASSUME NEW r \in RequestIds, Typed, Transition(r)
  PROVE  Flow
<1>1. exec[r] \in Execution
  BY DEF Typed, TypeOK
<1>2. exec[r].attempt \in 0 .. MaxAttempts
  BY <1>1 DEF Execution
<1>3. AfterPending(exec[r]) \in Execution
  BY <1>2, EnterTyped, ConstantsAssumption DEF AfterPending, OpenStates
<1>4. /\ Enter("apply", 0) \in Execution /\ Enter("check", 1) \in Execution
      /\ Enter("extract", exec[r].attempt) \in Execution
  BY <1>2, EnterTyped, ConstantsAssumption DEF OpenStates
<1>5. /\ Close("timed_out") \in Execution /\ Close("failed") \in Execution
      /\ Close("succeeded") \in Execution
  BY CloseTyped DEF ClosedStates
<1>6. Following(r) \in Execution
  BY <1>3, <1>4, <1>5 DEF Following
<1> QED BY <1>6 DEF Transition, Flow, FlowTyped, Typed, TypeOK, sqsVars

LEMMA CrashFlows ==
  ASSUME NEW r \in RequestIds, Typed, Crash(r)
  PROVE  Flow
  BY PhaseFlows DEF Crash, Phases

LEMMA RetryFlows ==
  ASSUME NEW r \in RequestIds, Typed, Retry(r)
  PROVE  Flow
<1>1. exec[r] \in Execution /\ exec[r].state \in OpenStates
  BY DEF Typed, TypeOK, Retry
<1>2. exec[r].attempt \in 0 .. MaxAttempts /\ exec[r].retries + 1 \in Nat
  BY <1>1 DEF Execution
<1>3. Enter(exec[r].state, exec[r].attempt) \in Execution
  BY <1>1, <1>2, EnterTyped
<1>4. [Enter(exec[r].state, exec[r].attempt) EXCEPT !.retries = exec[r].retries + 1]
        \in Execution
  BY <1>2, <1>3 DEF Execution
<1>5. Close("timed_out") \in Execution /\ Close("failed") \in Execution
  BY CloseTyped DEF ClosedStates
<1> QED BY <1>4, <1>5 DEF Retry, Flow, FlowTyped, Typed, TypeOK, sqsVars

LEMMA ApplyLateFlows ==
  ASSUME NEW r \in RequestIds, NEW st \in Reports, Typed, ApplyLate(r, st)
  PROVE  Flow
<1>1. UNCHANGED dbVars \/ Callback
  BY DEF ApplyLate, Callback, Live
<1> QED BY <1>1 DEF ApplyLate, Flow, FlowTyped, Typed, TypeOK, sqsVars

-----------------------------------------------------------------------------
(* Typing of the HTTP sessions *)

LEMMA FlowKeepsTyped ==
  ASSUME Typed, Flow
  PROVE  Typed'
<1>1. CASE UNCHANGED dbVars
  BY <1>1 DEF Flow, FlowTyped, Typed, TypeOK, Shape, Live, dbVars
<1>2. CASE Callback
  <2>1. PICK r \in Live, st \in Reports : ApplyStatus(r, st)
    BY <1>2 DEF Callback
  <2>2. /\ rows' \in [Apps -> [Services -> Creators]]
        /\ status' \in [RequestIds -> Statuses]
        /\ Live' = Live
    BY <2>1, ApplyStatusTyped
  <2>3. UNCHANGED <<owner, payload, nextId, session>>
    BY <2>1 DEF ApplyStatus, Flow
  <2>4. TypeOK'
    BY <2>2, <2>3 DEF Flow, FlowTyped, Typed, TypeOK
  <2>5. Shape'
    BY <2>2, <2>3 DEF Typed, Shape
  <2> QED BY <2>4, <2>5 DEF Typed
<1> QED BY <1>1, <1>2 DEF Flow

LEMMA BeginTyped ==
  ASSUME NEW s \in Sessions, NEW p \in Payload \cup PurgeOrder,
         NEW present \in SUBSET Services, Typed, Begin(s, p, present)
  PROVE  Typed'
<1>1. p.app \in Apps
  BY DEF Payload, PurgeOrder
<1>2. [pc |-> "checked", payload |-> p, owner |-> owner[p.app],
       present |-> present, id |-> 0] \in Session
  BY <1>1, ConstantsAssumption DEF Session, Creators, Typed, TypeOK
<1>3. TypeOK'
  BY <1>2 DEF Begin, Typed, TypeOK, dbVars, sqsVars, sfnVars
<1>4. Shape'
  BY DEF Begin, Typed, TypeOK, Shape, Live, dbVars
<1> QED BY <1>3, <1>4 DEF Typed

LEMMA ReceiveTyped ==
  ASSUME NEW s \in Sessions, Typed, Receive(s)
  PROVE  Typed'
<1>0. PICK a \in Apps :
        \/ \E k \in Keys, d \in Deltas : ReceiveCreate(s, a, k, d) \/ ReceiveUpdate(s, a, k, d)
        \/ \E k \in Keys, e \in Envs : ReceiveDelete(s, a, k, e)
        \/ ReceivePurge(s, a)
  BY DEF Receive
<1>1. ASSUME NEW k \in Keys, NEW d \in Deltas, ReceiveCreate(s, a, k, d)
      PROVE  Typed'
  <2>1. [type |-> "create", app |-> a, key |-> k, add |-> d.add, remove |-> {}] \in Payload
    BY ConstantsAssumption DEF Payload
  <2> QED BY <1>1, <2>1, BeginTyped DEF ReceiveCreate
<1>2. ASSUME NEW k \in Keys, NEW d \in Deltas, ReceiveUpdate(s, a, k, d)
      PROVE  Typed'
  <2>1. [type |-> "update", app |-> a, key |-> k, add |-> d.add, remove |-> d.remove]
          \in Payload
    BY ConstantsAssumption DEF Payload
  <2>2. RowsOf(a) \in SUBSET Services
    BY DEF RowsOf
  <2> QED BY <1>2, <2>1, <2>2, BeginTyped DEF ReceiveUpdate
<1>3. ASSUME NEW k \in Keys, NEW e \in Envs, ReceiveDelete(s, a, k, e)
      PROVE  Typed'
  <2> DEFINE p == [type |-> "delete", app |-> a, key |-> k, add |-> {},
                   remove |-> {x \in Services : EnvOf[x] = e}]
  <2>1. p \in Payload
    BY DEF Payload
  <2>2. RowsOf(a) \in SUBSET Services
    BY DEF RowsOf
  <2>3. Begin(s, p, RowsOf(a))
    BY <1>3 DEF ReceiveDelete
  <2> QED BY <2>1, <2>2, <2>3, BeginTyped
<1>4. CASE ReceivePurge(s, a)
  <2>1. [type |-> "purge", app |-> a] \in PurgeOrder
    BY DEF PurgeOrder
  <2> QED BY <1>4, <2>1, BeginTyped DEF ReceivePurge
<1> QED BY <1>0, <1>1, <1>2, <1>3, <1>4

\* A call that is past its reads, and not a purge, asks for a request.
LEMMA CheckedPayload ==
  ASSUME NEW s \in Sessions, Typed, session[s].pc = "checked"
  PROVE  /\ session[s].payload.type # "purge" => session[s].payload \in Payload
         /\ session[s].payload.app \in Apps
         /\ session[s] \in Session
  BY DEF Typed, TypeOK, Shape, Payload, PurgeOrder

LEMMA CommitRequestTyped ==
  ASSUME NEW s \in Sessions, Typed, CommitRequest(s)
  PROVE  Typed'
<1> DEFINE p == session[s].payload
<1>1. p \in Payload /\ session[s] \in Session
  BY CheckedPayload DEF CommitRequest
<1>2. nextId \in RequestIds /\ nextId \in Creators /\ nextId + 1 \in 1 .. MaxRequests + 1
  BY ConstantsAssumption DEF CommitRequest, RequestIds, Creators
<1>3. AddRows(s) \in [Apps -> [Services -> Creators]]
  <2>1. p.app \in Apps
    BY <1>1 DEF Payload
  <2>2. [x \in Services |-> IF x \in p.add \ session[s].present
                               THEN nextId ELSE rows[p.app][x]] \in [Services -> Creators]
    BY <1>2, <2>1 DEF Typed, TypeOK
  <2> QED BY <2>2 DEF AddRows, Typed, TypeOK
<1>4. owner' \in [Apps -> Creators]
  BY <1>2 DEF CommitRequest, Typed, TypeOK
<1>5. session' \in [Sessions -> Session]
  BY <1>1, <1>2 DEF CommitRequest, Typed, TypeOK, Session
<1>6. status' \in [RequestIds -> Statuses] /\ payload' \in [RequestIds -> Payload \cup {NoPayload}]
  BY <1>1, <1>2 DEF CommitRequest, Typed, TypeOK, Statuses, Reports, InFlight
<1>7. TypeOK'
  BY <1>2, <1>3, <1>4, <1>5, <1>6 DEF CommitRequest, Typed, TypeOK, sqsVars, sfnVars
<1>8. Shape'
  BY <1>1, <1>2 DEF CommitRequest, Typed, TypeOK, Shape, Live
<1> QED BY <1>7, <1>8 DEF Typed

LEMMA CommitPurgeTyped ==
  ASSUME NEW s \in Sessions, Typed, CommitPurge(s)
  PROVE  Typed'
<1>0. 0 \in Creators
  BY ConstantsAssumption DEF Creators
<1>1. status' \in [RequestIds -> Statuses]
  BY DEF CommitPurge, Typed, TypeOK, Statuses
<1>2. payload' \in [RequestIds -> Payload \cup {NoPayload}]
  BY DEF CommitPurge, Typed, TypeOK
<1>3. owner' \in [Apps -> Creators]
  BY <1>0 DEF CommitPurge, Typed, TypeOK
<1>4. session' \in [Sessions -> Session]
  BY IdleSessionTyped DEF CommitPurge, Typed, TypeOK
<1>5. TypeOK'
  BY <1>1, <1>2, <1>3, <1>4 DEF CommitPurge, Typed, TypeOK, sqsVars, sfnVars
<1>6. \A q \in Live' : q \in Live /\ payload'[q] = payload[q]
  BY DEF CommitPurge, Live, RequestsOf
<1>7. Shape'
  BY <1>6 DEF CommitPurge, Typed, TypeOK, Shape, IdleSession
<1> QED BY <1>5, <1>7 DEF Typed

LEMMA FinishTyped ==
  ASSUME NEW s \in Sessions, Typed, Finish(s)
  PROVE  Typed'
<1>1. CASE CommitRequest(s)
  BY <1>1, CommitRequestTyped
<1>2. CASE CommitPurge(s)
  BY <1>2, CommitPurgeTyped
<1>3. CASE Rollback(s) \/ Publish(s) \/ PublishFails(s)
  <2>1. session' = [session EXCEPT ![s] = IdleSession] /\ UNCHANGED <<dbVars, receives, sfnVars>>
    BY <1>3 DEF Rollback, Publish, PublishFails, sqsVars
  <2>2. queue' \subseteq RequestIds
    BY <1>3 DEF Rollback, Publish, PublishFails, sqsVars, Typed, TypeOK, Shape
  <2>3. TypeOK'
    BY <2>1, <2>2, IdleSessionTyped DEF Typed, TypeOK, dbVars, sfnVars
  <2>4. Shape'
    BY <2>1 DEF Typed, TypeOK, Shape, Live, dbVars, IdleSession
  <2> QED BY <2>3, <2>4 DEF Typed
<1> QED BY <1>1, <1>2, <1>3 DEF Finish

LEMMA NextTyped == Typed /\ [Next]_vars => Typed'
<1> SUFFICES ASSUME Typed, [Next]_vars PROVE Typed'
  OBVIOUS
<1>1. CASE UNCHANGED vars
  BY <1>1 DEF vars, Typed, TypeOK, Shape, Live
<1>2. ASSUME NEW s \in Sessions, Receive(s) \/ Finish(s)
      PROVE  Typed'
  BY <1>2, ReceiveTyped, FinishTyped
<1>3. ASSUME NEW r \in RequestIds,
             \/ Consume(r) \/ Work(r) \/ Transition(r) \/ Crash(r) \/ Retry(r)
             \/ \E st \in Reports : ApplyLate(r, st)
      PROVE  Typed'
  BY <1>3, ConsumeFlows, WorkFlows, TransitionFlows, CrashFlows, RetryFlows,
     ApplyLateFlows, FlowKeepsTyped
<1> QED BY <1>1, <1>2, <1>3 DEF Next

LEMMA AlwaysTyped == Spec => []Typed
  BY InitTyped, NextTyped, PTL DEF Spec

\* Every variable has its type in every reachable state of Spec.
THEOREM TypeCorrect == Spec => []TypeOK
<1>1. Typed => TypeOK
  BY DEF Typed
<1> QED BY <1>1, AlwaysTyped, PTL

-----------------------------------------------------------------------------
(* Four kinds of steps, as the database sees them *)

\* Nothing but the two commits of a session and a callback writes a table.
LEMMA DbSteps ==
  ASSUME Typed, [Next]_vars
  PROVE  \/ UNCHANGED dbVars
         \/ UNCHANGED session /\ Callback
         \/ \E s \in Sessions : CommitRequest(s)
         \/ \E s \in Sessions : CommitPurge(s)
<1>1. CASE UNCHANGED vars
  BY <1>1 DEF vars, dbVars
<1>2. ASSUME NEW s \in Sessions, Receive(s)
      PROVE  UNCHANGED dbVars
  BY <1>2 DEF Receive, ReceiveCreate, ReceiveUpdate, ReceiveDelete, ReceivePurge, Begin
<1>3. ASSUME NEW s \in Sessions, Finish(s), ~CommitRequest(s), ~CommitPurge(s)
      PROVE  UNCHANGED dbVars
  BY <1>3 DEF Finish, Rollback, Publish, PublishFails
<1>4. ASSUME NEW r \in RequestIds,
             \/ Consume(r) \/ Work(r) \/ Transition(r) \/ Crash(r) \/ Retry(r)
             \/ \E st \in Reports : ApplyLate(r, st)
      PROVE  Flow
  BY <1>4, ConsumeFlows, WorkFlows, TransitionFlows, CrashFlows, RetryFlows, ApplyLateFlows
<1> QED BY <1>1, <1>2, <1>3, <1>4 DEF Next, Flow

LEMMA CallbackKeeps ==
  ASSUME Typed, Callback
  PROVE  /\ Live' = Live
         /\ UNCHANGED <<owner, payload, nextId>>
         /\ \A a \in Apps : RequestsOf(a)' = RequestsOf(a)
<1>1. PICK r \in Live, st \in Reports : ApplyStatus(r, st)
  BY DEF Callback
<1>2. Live' = Live
  BY <1>1, ApplyStatusTyped
<1>3. UNCHANGED <<owner, payload, nextId>>
  BY <1>1 DEF ApplyStatus
<1> QED BY <1>2, <1>3 DEF RequestsOf

LEMMA CommitKeeps ==
  ASSUME NEW s \in Sessions, Typed, CommitRequest(s)
  PROVE  /\ session[s].payload \in Payload
         /\ nextId \in RequestIds
         /\ Live' = Live \cup {nextId}
         /\ \A r \in RequestIds : r # nextId => payload'[r] = payload[r]
         /\ payload'[nextId] = session[s].payload
  BY CheckedPayload DEF CommitRequest, Typed, TypeOK, Live

LEMMA PurgeKeeps ==
  ASSUME NEW s \in Sessions, Typed, CommitPurge(s)
  PROVE  /\ session[s].payload.app \in Apps
         /\ Live' = Live \ RequestsOf(session[s].payload.app)
         /\ \A r \in Live' : payload'[r] = payload[r]
         /\ \A a \in Apps \ {session[s].payload.app} : RequestsOf(a)' = RequestsOf(a)
         /\ \A a \in Apps : a = session[s].payload.app => RequestsOf(a)' = {}
<1>1. session[s].payload.app \in Apps
  BY CheckedPayload DEF CommitPurge
<1>2. Live' = Live \ RequestsOf(session[s].payload.app)
  BY DEF CommitPurge, Live, RequestsOf
<1>3. \A r \in Live' : payload'[r] = payload[r]
  BY <1>2 DEF CommitPurge, Live
<1>4. \A a \in Apps : RequestsOf(a)' = {r \in Live' : payload[r].app = a}
  BY <1>3 DEF RequestsOf
<1> DEFINE b == session[s].payload.app
<1>5. \A a \in Apps \ {b} : RequestsOf(a)' = RequestsOf(a)
  <2> SUFFICES ASSUME NEW a \in Apps \ {b} PROVE RequestsOf(a)' = RequestsOf(a)
    OBVIOUS
  <2>1. RequestsOf(a) \subseteq Live' /\ RequestsOf(a)' \subseteq Live
    BY <1>2 DEF RequestsOf
  <2> QED BY <1>4, <2>1 DEF RequestsOf
<1>6. \A a \in Apps : a = b => RequestsOf(a)' = {}
  BY <1>2, <1>4 DEF RequestsOf
<1> QED BY <1>1, <1>2, <1>3, <1>5, <1>6

-----------------------------------------------------------------------------
(* Idempotency keys *)

\* However many calls are served at a time and whatever fails: one key, one
\* request.  get_by_idempotency_key alone would not do, the unique constraint at
\* the commit is what the proof uses.
THEOREM KeysUnique == Spec => []UniqueKeys
<1>1. Init => UniqueKeys
  BY DEF Init, UniqueKeys, Live
<1>2. Typed /\ UniqueKeys /\ [Next]_vars => UniqueKeys'
  <2> SUFFICES ASSUME Typed, UniqueKeys, [Next]_vars PROVE UniqueKeys'
    OBVIOUS
  <2>1. CASE UNCHANGED dbVars
    BY <2>1 DEF UniqueKeys, Live, dbVars
  <2>2. CASE Callback
    BY <2>2, CallbackKeeps DEF UniqueKeys
  <2>3. ASSUME NEW s \in Sessions, CommitRequest(s)
        PROVE  UniqueKeys'
    <3>1. \A r \in Live : payload[r].key # session[s].payload.key
      BY <2>3 DEF CommitRequest, ConstraintsHold, FreshKey
    <3> QED BY <2>3, <3>1, CommitKeeps DEF UniqueKeys, Live
  <2>4. ASSUME NEW s \in Sessions, CommitPurge(s)
        PROVE  UniqueKeys'
    BY <2>4, PurgeKeeps DEF UniqueKeys
  <2> QED BY <2>1, <2>2, <2>3, <2>4, DbSteps
<1> QED BY <1>1, <1>2, AlwaysTyped, PTL DEF Spec

-----------------------------------------------------------------------------
(* Referential integrity *)

\* The sequence is ahead of every request on record.
IdsIssued == \A r \in Live : r < nextId

\* An update or a delete was let through for an app that existed.
AppKnown ==
    \A s \in Sessions :
      session[s].pc = "checked" /\ session[s].payload.type \in {"update", "delete"}
        => session[s].owner # 0

\* Why ReferentialIntegrity is not inductive alone: the new request must be
\* younger than the App row, and a call whose app was purged and created again
\* since its reads must not pass for a create.
Integrity == ReferentialIntegrity /\ IdsIssued /\ AppKnown

LEMMA SessionSteps ==
  ASSUME Typed, [Next]_vars, AppKnown
  PROVE  AppKnown'
<1>1. CASE UNCHANGED session
  BY <1>1 DEF AppKnown
<1>2. ASSUME NEW s \in Sessions, NEW p, NEW present,
             Begin(s, p, present), p.type \in {"update", "delete"} => owner[p.app] # 0
      PROVE  AppKnown'
  BY <1>2 DEF Begin, AppKnown, Typed, TypeOK
<1>3. ASSUME NEW s \in Sessions, Receive(s)
      PROVE  AppKnown'
  <2>1. PICK a \in Apps :
          \/ \E k \in Keys, d \in Deltas : ReceiveCreate(s, a, k, d) \/ ReceiveUpdate(s, a, k, d)
          \/ \E k \in Keys, e \in Envs : ReceiveDelete(s, a, k, e)
          \/ ReceivePurge(s, a)
    BY <1>3 DEF Receive
  <2>2. ASSUME NEW k \in Keys, NEW d \in Deltas,
               ReceiveCreate(s, a, k, d) \/ ReceiveUpdate(s, a, k, d)
        PROVE  AppKnown'
    BY <1>2, <2>2 DEF ReceiveCreate, ReceiveUpdate
  <2>3. ASSUME NEW k \in Keys, NEW e \in Envs, ReceiveDelete(s, a, k, e)
        PROVE  AppKnown'
    <3> DEFINE p == [type |-> "delete", app |-> a, key |-> k, add |-> {},
                     remove |-> {x \in Services : EnvOf[x] = e}]
    <3>1. Begin(s, p, RowsOf(a)) /\ p.app = a /\ owner[a] # 0
      BY <2>3 DEF ReceiveDelete
    <3> QED BY <1>2, <3>1
  <2>4. CASE ReceivePurge(s, a)
    BY <1>2, <2>4 DEF ReceivePurge
  <2> QED BY <2>1, <2>2, <2>3, <2>4
<1>4. ASSUME NEW s \in Sessions, Finish(s)
      PROVE  AppKnown'
  <2>1. \/ session' = [session EXCEPT ![s] = IdleSession]
        \/ session' = [session EXCEPT ![s].pc = "committed", ![s].id = nextId]
    BY <1>4 DEF Finish, CommitRequest, CommitPurge, Rollback, Publish, PublishFails
  <2>2. ASSUME NEW t \in Sessions, session'[t].pc = "checked"
        PROVE  session'[t] = session[t]
    <3>1. session \in [Sessions -> Session]
      BY DEF Typed, TypeOK
    <3>2. CASE session' = [session EXCEPT ![s] = IdleSession]
      BY <2>2, <3>1, <3>2 DEF IdleSession
    <3>3. CASE session' = [session EXCEPT ![s].pc = "committed", ![s].id = nextId]
      BY <2>2, <3>1, <3>3 DEF Session
    <3> QED BY <2>1, <3>2, <3>3
  <2> QED BY <2>2 DEF AppKnown
<1>5. ASSUME NEW r \in RequestIds,
             \/ Consume(r) \/ Work(r) \/ Transition(r) \/ Crash(r) \/ Retry(r)
             \/ \E st \in Reports : ApplyLate(r, st)
      PROVE  UNCHANGED session
  BY <1>5, ConsumeFlows, WorkFlows, TransitionFlows, CrashFlows, RetryFlows, ApplyLateFlows
     DEF Flow
<1> QED BY <1>1, <1>3, <1>4, <1>5 DEF Next, vars

LEMMA IdsStep ==
  ASSUME Typed, [Next]_vars, IdsIssued
  PROVE  IdsIssued'
<1>1. CASE UNCHANGED dbVars
  BY <1>1 DEF IdsIssued, Live, dbVars
<1>2. CASE Callback
  BY <1>2, CallbackKeeps DEF IdsIssued
<1>3. ASSUME NEW s \in Sessions, CommitRequest(s)
      PROVE  IdsIssued'
  BY <1>3, CommitKeeps, ConstantsAssumption DEF IdsIssued, CommitRequest, RequestIds, Live
<1>4. ASSUME NEW s \in Sessions, CommitPurge(s)
      PROVE  IdsIssued'
  BY <1>4, PurgeKeeps DEF IdsIssued, CommitPurge
<1> QED BY <1>1, <1>2, <1>3, <1>4, DbSteps

LEMMA CallbackAnchored ==
  ASSUME Typed, Callback, NEW a \in Apps, Anchored(a)
  PROVE  Anchored(a)'
<1>1. PICK r \in Live, st \in Reports : ApplyStatus(r, st)
  BY DEF Callback
<1>2. rows \in [Apps -> [Services -> Creators]]
  BY DEF Typed, TypeOK
<1>3. \A x \in Services : PurgeRows(r)[a][x] \in {0, rows[a][x]}
  BY <1>2 DEF PurgeRows
<1>4. \A x \in Services : rows'[a][x] \in {0, rows[a][x]}
  BY <1>1, <1>3 DEF ApplyStatus
<1>5. RowsOf(a)' \subseteq RowsOf(a) /\ \A x \in RowsOf(a)' : rows'[a][x] = rows[a][x]
  BY <1>4 DEF RowsOf
<1>6. owner' = owner /\ RequestsOf(a)' = RequestsOf(a)
  BY CallbackKeeps
<1> QED BY <1>5, <1>6 DEF Anchored

LEMMA CommitAnchored ==
  ASSUME NEW s \in Sessions, Typed, Integrity, CommitRequest(s), NEW a \in Apps
  PROVE  Anchored(a)'
<1> DEFINE p == session[s].payload
<1>1. /\ p \in Payload /\ p.app \in Apps
      /\ nextId \in RequestIds /\ nextId > 0
      /\ Live' = Live \cup {nextId} /\ nextId \notin Live
      /\ \A r \in RequestIds : r # nextId => payload'[r] = payload[r]
      /\ payload'[nextId] = p
  BY CommitKeeps, ConstantsAssumption DEF Payload, Integrity, IdsIssued, RequestIds
<1>2. Anchored(a) /\ \A r \in Live : r < nextId
  BY DEF Integrity, ReferentialIntegrity, IdsIssued
<1>3. rows' = AddRows(s) /\ rows \in [Apps -> [Services -> Creators]] /\ owner \in [Apps -> Creators]
  BY DEF CommitRequest, Typed, TypeOK
<1>4. CASE a # p.app
  <2>1. RequestsOf(a)' = RequestsOf(a)
    BY <1>1, <1>4 DEF RequestsOf, Live
  <2>2. rows'[a] = rows[a] /\ owner'[a] = owner[a]
    BY <1>1, <1>3, <1>4 DEF AddRows, CommitRequest
  <2>3. RowsOf(a)' = RowsOf(a)
    BY <2>2 DEF RowsOf
  <2> QED BY <1>2, <2>1, <2>2, <2>3 DEF Anchored
<1>5. CASE a = p.app
  <2>1. RequestsOf(a)' = RequestsOf(a) \cup {nextId}
    BY <1>1, <1>5 DEF RequestsOf, Live
  <2>2. \A x \in Services : rows'[a][x] \in {nextId, rows[a][x]}
    BY <1>1, <1>3, <1>5 DEF AddRows
  <2>3. \A x \in RowsOf(a)' :
          \/ rows'[a][x] = nextId
          \/ (x \in RowsOf(a) /\ rows'[a][x] = rows[a][x])
    BY <2>2 DEF RowsOf
  <2>4. CASE p.type = "create"
    <3>1. owner[a] = 0 /\ owner'[a] = nextId
      BY <1>3, <1>5, <2>4 DEF CommitRequest, ConstraintsHold
    <3>2. RequestsOf(a) = {} /\ RowsOf(a) = {}
      BY <1>2, <3>1 DEF Anchored
    <3> QED BY <1>1, <2>1, <2>3, <3>1, <3>2 DEF Anchored, RequestIds
  <2>5. CASE p.type # "create"
    <3>1. p.type \in {"update", "delete"}
      BY <1>1, <2>5 DEF Payload
    <3>2. owner[a] # 0 /\ owner'[a] = owner[a]
      BY <1>5, <3>1 DEF CommitRequest, ConstraintsHold, Integrity, AppKnown
    <3>3. /\ owner[a] \in RequestsOf(a)
          /\ \A r \in RequestsOf(a) : r >= owner[a]
          /\ \A x \in RowsOf(a) : rows[a][x] \in RequestsOf(a)
      BY <1>2, <3>2 DEF Anchored
    <3>4. nextId >= owner[a]
      BY <1>1, <1>2, <3>3, ConstantsAssumption DEF RequestsOf, Live, RequestIds
    <3> QED BY <2>1, <2>3, <3>2, <3>3, <3>4 DEF Anchored
  <2> QED BY <2>4, <2>5
<1> QED BY <1>4, <1>5

LEMMA PurgeAnchored ==
  ASSUME NEW s \in Sessions, Typed, CommitPurge(s), NEW a \in Apps, Anchored(a)
  PROVE  Anchored(a)'
<1> DEFINE b == session[s].payload.app
<1>1. rows' = rows /\ RowsOf(a)' = RowsOf(a)
  BY DEF CommitPurge, RowsOf
<1>2. CASE a # b
  <2>1. RequestsOf(a)' = RequestsOf(a)
    BY <1>2, PurgeKeeps
  <2>2. owner'[a] = owner[a]
    BY <1>2 DEF CommitPurge, Typed, TypeOK
  <2> QED BY <1>1, <2>1, <2>2 DEF Anchored
<1>3. CASE a = b
  <2>1. RequestsOf(a)' = {}
    BY <1>3, PurgeKeeps
  <2>2. owner'[a] = 0 /\ RowsOf(a) = {}
    BY <1>3 DEF CommitPurge, CanPurge, Typed, TypeOK
  <2> QED BY <1>1, <2>1, <2>2 DEF Anchored
<1> QED BY <1>2, <1>3

LEMMA InitIntegrity == Init => Integrity
  BY DEF Init, Integrity, ReferentialIntegrity, Anchored, RequestsOf, RowsOf, Live, IdsIssued,
         AppKnown, IdleSession, NoRows

LEMMA NextIntegrity == Typed /\ Integrity /\ [Next]_vars => Integrity'
<1> SUFFICES ASSUME Typed, Integrity, [Next]_vars PROVE Integrity'
  OBVIOUS
<1>1. IdsIssued' /\ AppKnown'
  BY IdsStep, SessionSteps DEF Integrity
<1>2. ASSUME NEW a \in Apps PROVE Anchored(a)'
  <2>0. Anchored(a)
    BY DEF Integrity, ReferentialIntegrity
  <2>1. CASE UNCHANGED dbVars
    BY <2>0, <2>1 DEF Anchored, RequestsOf, RowsOf, Live, dbVars
  <2> QED BY <2>0, <2>1, DbSteps, CallbackAnchored, CommitAnchored, PurgeAnchored
<1> QED BY <1>1, <1>2 DEF Integrity, ReferentialIntegrity

LEMMA AlwaysIntegrity == Spec => []Integrity
  BY InitIntegrity, NextIntegrity, AlwaysTyped, PTL DEF Spec

\* Whatever fails and however many calls race: purge_app, the purges of the
\* callbacks and the commits of the sessions leave no request and no Service row
\* without its App row.
THEOREM IntegrityHolds == Spec => []ReferentialIntegrity
<1>1. Integrity => ReferentialIntegrity
  BY DEF Integrity
<1> QED BY <1>1, AlwaysIntegrity, PTL

-----------------------------------------------------------------------------
(* Calls that take turns, and nothing after the end                          *)

\* The Lambda of r has reported the end, or is past doing so.
Done(st, ph) ==
    \/ ph = "raised"
    \/ st = "extract" /\ ph \in {"ret", "fail"}
    \/ st = "report_failed" /\ ph = "ret"

\* Until then the request is in flight, unless purge_app took it away; and a
\* handler that is about to report a failure has not reported a success.
Told(r) ==
    /\ exec[r].state = "none" => status[r] \in {"absent", "pending"}
    /\ exec[r].state \in OpenStates /\ ~Done(exec[r].state, exec[r].phase)
         => status[r] \notin Terminal
    /\ exec[r].state \in OpenStates /\ exec[r].phase = "fail" => status[r] # "success"

OldOnesEnded ==
    \A a \in Apps : \A r, q \in RequestsOf(a) : r < q => status[r] \in Terminal

\* The answer of _reject_in_flight still holds when the call commits.
StillQuiet ==
    \A s \in Sessions :
      session[s].pc = "checked" /\ session[s].payload.type # "create"
        => \A r \in RequestsOf(session[s].payload.app) : status[r] \in Terminal

\* No message and no execution is ahead of the sequence.
NothingAhead ==
    /\ \A r \in queue : r < nextId
    /\ \A s \in Sessions : session[s].pc = "committed" => session[s].id < nextId
    /\ \A r \in RequestIds : r >= nextId => exec[r].state = "none" /\ status[r] = "absent"

\* A callback in transit was sent by an execution.
SentByARun == \A m \in late : exec[m[1]].state # "none"

\* What the runs know of the end of their requests, however calls overlap.
EndTold == NothingAhead /\ SentByARun /\ \A r \in RequestIds : Told(r)

Serial == OldOnesEnded /\ StillQuiet /\ EndTold

\* What a step for request r may do, apart from the sessions.
Quiet(r) ==
    /\ \A q \in RequestIds \ {r} : exec'[q] = exec[q] /\ status'[q] = status[q]
    /\ status[r] \in Terminal => status'[r] = status[r]
    /\ status[r] = "absent" <=> status'[r] = "absent"
    /\ IF exec[r].state = "none"
         THEN (r \in queue \/ exec'[r] = exec[r]) /\ late' \subseteq late
         ELSE exec'[r].state # "none" /\ \A m \in late' : m \in late \/ m[1] = r
    /\ queue' \subseteq queue
    /\ UNCHANGED <<session, payload, nextId>>
    /\ Told(r)'

\* What Phase does to the execution, field by field.
LEMMA PhaseFields ==
  ASSUME NEW r \in RequestIds, NEW ph \in Phases, Typed, Phase(r, ph)
  PROVE  /\ \A q \in RequestIds \ {r} : exec'[q] = exec[q]
         /\ exec'[r].state = exec[r].state
         /\ exec'[r].phase = ph
<1>1. exec \in [RequestIds -> Execution]
  BY DEF Typed, TypeOK
<1> QED BY <1>1 DEF Phase, Execution

\* A POST is applied when it is sent, or the worker takes it that it was not.
LEMMA PostEffect ==
  ASSUME NEW r \in RequestIds, NEW st \in Reports, NEW ok \in Phases, NEW err \in Phases,
         Typed, Post(r, st, ok, err)
  PROVE  /\ \A q \in RequestIds \ {r} : exec'[q] = exec[q] /\ status'[q] = status[q]
         /\ exec'[r].state = exec[r].state
         /\ \/ status[r] # "absent" /\ status'[r] = st /\ exec'[r].phase = ok
            \/ status'[r] = status[r] /\ exec'[r].phase = err
         /\ \A m \in late' : m \in late \/ m[1] = r
         /\ UNCHANGED <<payload, nextId>>
<1>0. status \in [RequestIds -> Statuses]
  BY DEF Typed, TypeOK
<1>1. CASE Acceptable(r) /\ ApplyStatus(r, st) /\ Phase(r, ok) /\ UNCHANGED late
  BY <1>0, <1>1, PhaseFields DEF Acceptable, ApplyStatus
<1>2. CASE Phase(r, err) /\ UNCHANGED dbVars /\ late' \in {late, late \cup {<<r, st>>}}
  BY <1>2, PhaseFields DEF dbVars
<1> QED BY <1>1, <1>2 DEF Post

LEMMA PhaseMove ==
  ASSUME NEW r \in RequestIds, NEW ph \in Phases, Typed, Phase(r, ph),
         UNCHANGED <<session, dbVars, sqsVars, late>>
  PROVE  /\ \A q \in RequestIds \ {r} : exec'[q] = exec[q] /\ status'[q] = status[q]
         /\ exec'[r].state = exec[r].state
         /\ exec'[r].phase = ph
         /\ status'[r] = status[r]
         /\ late' = late /\ queue' = queue
         /\ UNCHANGED <<session, payload, nextId>>
  BY PhaseFields DEF dbVars, sqsVars

LEMMA QuietPost ==
  ASSUME NEW r \in RequestIds, NEW st \in Reports, NEW ok \in Phases, NEW err \in Phases,
         Typed, Post(r, st, ok, err), UNCHANGED <<session, sqsVars>>,
         exec[r].state \in OpenStates,
         status[r] \in Terminal => status[r] = st,
         st \in Terminal => Done(exec[r].state, ok),
         status[r] \in Terminal => Done(exec[r].state, err),
         ok = "fail" => st # "success",
         err = "fail" => status[r] # "success"
  PROVE  Quiet(r)
<1>1. /\ \A q \in RequestIds \ {r} : exec'[q] = exec[q] /\ status'[q] = status[q]
      /\ exec'[r].state = exec[r].state
      /\ \/ status[r] # "absent" /\ status'[r] = st /\ exec'[r].phase = ok
         \/ status'[r] = status[r] /\ exec'[r].phase = err
      /\ \A m \in late' : m \in late \/ m[1] = r
      /\ UNCHANGED <<payload, nextId>>
  BY PostEffect
<1>2. exec[r].state # "none" /\ st # "absent"
  BY DEF OpenStates, Reports, InFlight, Terminal
<1>3. Told(r)'
  BY <1>1, <1>2 DEF Told
<1>4. status[r] \in Terminal => status'[r] = status[r]
  BY <1>1
<1>5. status[r] = "absent" <=> status'[r] = "absent"
  BY <1>1, <1>2
<1> QED BY <1>1, <1>2, <1>3, <1>4, <1>5 DEF Quiet, sqsVars

LEMMA QuietConsume ==
  ASSUME NothingAfterTheEnd, Typed, EndTold, NEW r \in RequestIds, Consume(r)
  PROVE  Quiet(r)
<1> USE DEF dbVars
<1>1. Told(r) /\ exec \in [RequestIds -> Execution]
  BY DEF EndTold, Typed, TypeOK
<1>2. CASE Deliver(r)
  <2>1. /\ r \in queue /\ exec' = [exec EXCEPT ![r] = Enter("step1", 0)]
        /\ queue' \subseteq queue /\ UNCHANGED <<session, dbVars, late>>
    BY <1>2 DEF Deliver, Receivable, Acknowledge
  <2>2. exec'[r].state = "step1" /\ exec'[r].phase = "get"
    BY <1>1, <2>1 DEF Enter, Entry
  <2>3. status[r] \notin Terminal
    BY <1>1, <1>2 DEF NothingAfterTheEnd, Told, Terminal
  <2>4. Told(r)'
    BY <2>1, <2>2, <2>3 DEF Told
  <2> QED BY <1>1, <2>1, <2>2, <2>4 DEF Quiet
<1>3. CASE DeliverAgain(r) \/ DeliverFails(r) \/ DeadLetter(r)
  <2>1. UNCHANGED <<session, dbVars, exec, late>> /\ queue' \subseteq queue
    BY <1>3 DEF DeliverAgain, DeliverFails, DeadLetter, Acknowledge
  <2> QED BY <1>1, <2>1 DEF Quiet, Told
<1> QED BY <1>2, <1>3 DEF Consume

LEMMA QuietWork ==
  ASSUME Typed, EndTold, NEW r \in RequestIds, Work(r)
  PROVE  Quiet(r)
<1> USE DEF Reports, InFlight, Terminal, Phases, OpenStates, ClosedStates
<1>0. /\ Told(r)
      /\ exec \in [RequestIds -> Execution] /\ status \in [RequestIds -> Statuses]
  BY DEF EndTold, Typed, TypeOK
<1>1. CASE GetDetails(r)
  <2>1. /\ \A q \in RequestIds \ {r} : exec'[q] = exec[q]
        /\ exec'[r].state = exec[r].state
        /\ exec'[r].phase = AfterDetails(r)
    BY <1>0, <1>1 DEF GetDetails, Execution
  <2>2. status[r] \notin Terminal /\ exec[r].state \in OpenStates
    BY <1>0, <1>1 DEF Told, Done, GetDetails, Running
  <2>3. AfterDetails(r) \in {"start", "poll", "report", "work"}
    BY <2>2 DEF AfterDetails
  <2>4. Told(r)'
    BY <1>1, <2>1, <2>2, <2>3 DEF Told, Done, GetDetails, dbVars
  <2> QED BY <1>0, <1>1, <2>1, <2>2, <2>4 DEF GetDetails, Quiet, dbVars, sqsVars
<1>2. CASE GetDetailsFails(r)
  <2>1. ErrorPhase(r) \in {"raised", "fail"}
    BY DEF ErrorPhase
  <2>2. status[r] \notin Terminal /\ exec[r].state \in OpenStates
    BY <1>0, <1>2 DEF Told, Done, GetDetailsFails, Running
  <2> QED BY <1>0, <1>2, <2>1, <2>2, PhaseMove DEF GetDetailsFails, Quiet, Told, Done
<1>3. CASE ReportStarted(r)
  <2>1. status[r] \notin Terminal /\ exec[r].state \in {"step1", "apply"}
    BY <1>0, <1>3 DEF Told, Done, ReportStarted, Running
  <2>2. Post(r, "in_progress", "work", "fail") /\ UNCHANGED <<session, sqsVars>>
    BY <1>3 DEF ReportStarted
  <2> QED BY <1>0, <2>1, <2>2, QuietPost
<1>4. CASE DoWork(r)
  <2>1. status[r] \notin Terminal /\ exec[r].state \in {"step1", "apply", "extract"}
    BY <1>0, <1>4 DEF Told, Done, DoWork, Running
  <2> QED BY <1>0, <1>4, <2>1, PhaseMove DEF DoWork, Quiet, Told, Done
<1>5. CASE WorkFails(r)
  <2>1. status[r] \notin Terminal /\ exec[r].state \in {"step1", "apply", "extract"}
    BY <1>0, <1>5 DEF Told, Done, WorkFails, Running
  <2> QED BY <1>0, <1>5, <2>1, PhaseMove DEF WorkFails, Quiet, Told, Done
<1>6. CASE Report(r)
  <2>1. status[r] \notin Terminal /\ exec[r].state \in OpenStates
    BY <1>0, <1>6 DEF Told, Done, Report, Running
  <2>2. UNCHANGED <<session, sqsVars>>
    BY <1>6 DEF Report
  <2>3. CASE Running(r, {"step1"}, "report") /\ Post(r, "in_progress", "ret", "fail")
    BY <1>0, <2>1, <2>2, <2>3, QuietPost
  <2>4. CASE Running(r, {"extract"}, "report") /\ Post(r, "success", "ret", "fail")
    <3>1. Done(exec[r].state, "ret")
      BY <2>4 DEF Running, Done
    <3> QED BY <1>0, <2>1, <2>2, <2>4, <3>1, QuietPost
  <2>5. CASE Running(r, {"report_failed"}, "report") /\ Post(r, "failed", "ret", "fail")
    <3>1. Done(exec[r].state, "ret")
      BY <2>5 DEF Running, Done
    <3> QED BY <1>0, <2>1, <2>2, <2>5, <3>1, QuietPost
  <2> QED BY <1>6, <2>3, <2>4, <2>5 DEF Report
<1>7. CASE ReportPartial(r)
  <2>1. status[r] \notin Terminal /\ exec[r].state = "extract"
    BY <1>0, <1>7 DEF Told, Done, ReportPartial, Running
  <2>2. Post(r, "failed", "fail", "fail") /\ UNCHANGED <<session, sqsVars>>
    BY <1>7 DEF ReportPartial
  <2>3. Done(exec[r].state, "fail")
    BY <2>1 DEF Done
  <2> QED BY <1>0, <2>1, <2>2, <2>3, QuietPost
<1>8. CASE ReportFailure(r)
  <2>1. status[r] # "success" /\ exec[r].state \in OpenStates
    BY <1>0, <1>8 DEF Told, ReportFailure, Running
  <2>2. Post(r, "failed", "raised", "raised") /\ UNCHANGED <<session, sqsVars>>
    BY <1>8 DEF ReportFailure
  <2>3. Done(exec[r].state, "raised")
    BY DEF Done
  <2> QED BY <1>0, <2>1, <2>2, <2>3, QuietPost
<1>9. CASE Poll(r)
  <2>1. status[r] \notin Terminal /\ exec[r].state = "check"
    BY <1>0, <1>9 DEF Told, Done, Poll, Running
  <2>2. PICK verdict \in {"ready", "pending"} :
          \/ Phase(r, verdict) /\ UNCHANGED <<dbVars, late>>
          \/ Post(r, "in_progress", verdict, verdict)
    BY <1>9 DEF Poll
  <2>3. UNCHANGED <<session, sqsVars>>
    BY <1>9 DEF Poll
  <2>4. CASE Phase(r, verdict) /\ UNCHANGED <<dbVars, late>>
    <3>1. /\ \A q \in RequestIds \ {r} : exec'[q] = exec[q] /\ status'[q] = status[q]
          /\ exec'[r].state = exec[r].state /\ exec'[r].phase = verdict
          /\ status'[r] = status[r]
          /\ late' = late /\ queue' = queue
          /\ UNCHANGED <<session, payload, nextId>>
      BY <1>0, <2>3, <2>4, PhaseMove
    <3>2. Told(r)'
      BY <2>1, <3>1 DEF Told
    <3> QED BY <2>1, <3>1, <3>2 DEF Quiet
  <2>5. CASE Post(r, "in_progress", verdict, verdict)
    <3>1. verdict \in Phases /\ verdict # "fail" /\ "in_progress" \in Reports
      OBVIOUS
    <3>2. exec[r].state \in OpenStates /\ "in_progress" \notin Terminal
      BY <2>1
    <3> QED BY <1>0, <2>1, <2>3, <2>5, <3>1, <3>2, QuietPost
  <2> QED BY <2>2, <2>4, <2>5
<1>10. CASE PollFails(r)
  BY <1>0, <1>10, PhaseMove DEF PollFails, Running, Quiet, Told, Done
<1> QED BY <1>1, <1>2, <1>3, <1>4, <1>5, <1>6, <1>7, <1>8, <1>9, <1>10 DEF Work

LEMMA QuietTransition ==
  ASSUME Typed, EndTold, NEW r \in RequestIds, Transition(r)
  PROVE  Quiet(r)
<1> USE DEF OpenStates, ClosedStates
<1>1. /\ Told(r)
      /\ exec \in [RequestIds -> Execution]
      /\ exec' = [exec EXCEPT ![r] = Following(r)]
      /\ exec[r].state \in OpenStates
      /\ exec[r].phase \in {"ret", "ready", "pending", "raised"}
      /\ UNCHANGED <<session, dbVars, sqsVars, late>>
  BY DEF EndTold, Typed, TypeOK, Transition
<1>2. exec'[r] = Following(r) /\ \A q \in RequestIds \ {r} : exec'[q] = exec[q]
  BY <1>1
<1>3. Following(r).state \in OpenStates =>
        /\ exec[r].phase # "raised"
        /\ exec[r].state \in {"step1", "apply", "check"}
        /\ Following(r).phase \in {"get", "report"}
  <2>1. \A st : Close(st).state = st
    BY DEF Close, NoExecution
  <2>2. \A st, n : Enter(st, n).phase \in {"get", "report"}
    BY DEF Enter, Entry
  <2>3. AfterPending(exec[r]).phase \in {"get", "report"}
    BY <2>2 DEF AfterPending
  <2>4. CASE exec[r].phase = "raised"
    <3>1. Following(r) = Close(IF exec[r].state = "report_failed" THEN "timed_out" ELSE "failed")
      BY <2>4 DEF Following
    <3>2. Following(r).state \in {"timed_out", "failed"}
      BY <2>1, <3>1
    <3> QED BY <3>2
  <2>5. CASE exec[r].phase # "raised" /\ exec[r].state \in {"step1", "apply", "check"}
    <3>1. CASE exec[r].state = "step1"
      BY <2>2, <2>5, <3>1 DEF Following
    <3>2. CASE exec[r].state = "apply"
      BY <2>2, <2>5, <3>2 DEF Following
    <3>3. CASE exec[r].state = "check"
      BY <2>2, <2>3, <2>5, <3>3 DEF Following
    <3> QED BY <2>5, <3>1, <3>2, <3>3
  <2>6. CASE exec[r].phase # "raised" /\ exec[r].state \in {"extract", "report_failed"}
    BY <2>1, <2>6 DEF Following
  <2> QED BY <1>1, <2>4, <2>5, <2>6
<1>4. Following(r).state # "none"
  BY <1>1 DEF Following, AfterPending, Enter, Close, NoExecution
<1>5. Told(r)'
  BY <1>1, <1>2, <1>3, <1>4 DEF Told, Done, dbVars
<1> QED BY <1>1, <1>2, <1>4, <1>5 DEF Quiet, dbVars, sqsVars

LEMMA QuietCrash ==
  ASSUME Typed, EndTold, NEW r \in RequestIds, Crash(r)
  PROVE  Quiet(r)
<1>1. /\ Told(r)
      /\ Phase(r, "raised") /\ exec[r].state \in OpenStates
      /\ UNCHANGED <<session, dbVars, sqsVars, late>>
  BY DEF EndTold, Crash
<1>2. /\ \A q \in RequestIds \ {r} : exec'[q] = exec[q] /\ status'[q] = status[q]
      /\ exec'[r].state = exec[r].state /\ exec'[r].phase = "raised"
      /\ status'[r] = status[r] /\ late' = late /\ queue' = queue
      /\ UNCHANGED <<session, payload, nextId>>
  BY <1>1, PhaseMove DEF Phases
<1>3. Told(r)'
  BY <1>1, <1>2 DEF Told, Done, OpenStates
<1> QED BY <1>1, <1>2, <1>3 DEF Quiet, OpenStates

\* The Lambda is invoked again for a request that has not ended.
LEMMA QuietRetry ==
  ASSUME NothingAfterTheEnd, Typed, EndTold, NEW r \in RequestIds, Retry(r)
  PROVE  Quiet(r)
<1> DEFINE e == exec[r]
           again == [Enter(e.state, e.attempt) EXCEPT !.retries = e.retries + 1]
           given_up == Close(IF e.state = "report_failed" THEN "timed_out" ELSE "failed")
<1>1. /\ e.state \in OpenStates /\ status[r] \notin Terminal
      /\ exec \in [RequestIds -> Execution]
      /\ UNCHANGED <<session, dbVars, sqsVars, late>>
  BY DEF Retry, NothingAfterTheEnd, Typed, TypeOK
<1>2. exec'[r] \in {again, given_up} /\ \A q \in RequestIds \ {r} : exec'[q] = exec[q]
  BY <1>1 DEF Retry
<1>3. again.state # "none" /\ again.phase # "fail"
  BY <1>1 DEF Enter, Entry, OpenStates
<1>4. given_up.state \in ClosedStates
  BY DEF Close, NoExecution, ClosedStates
<1> HIDE DEF again, given_up
<1>5. exec'[r].state # "none" /\ (exec'[r].state \in OpenStates => exec'[r].phase # "fail")
  BY <1>2, <1>3, <1>4 DEF OpenStates, ClosedStates
<1>6. Told(r)'
  BY <1>1, <1>5 DEF Told, dbVars
<1> QED BY <1>1, <1>2, <1>5, <1>6 DEF Quiet, dbVars, sqsVars, OpenStates

\* A late callback meets a request that has not ended, and tells of its end only
\* when nothing runs any more.
LEMMA QuietLate ==
  ASSUME NothingAfterTheEnd, Typed, EndTold, NEW r \in RequestIds, NEW st \in Reports,
         ApplyLate(r, st)
  PROVE  Quiet(r)
<1>1. /\ status[r] \notin Terminal
      /\ st \in Terminal => exec[r].state \in ClosedStates
      /\ Told(r) /\ exec[r].state # "none"
  BY DEF NothingAfterTheEnd, ApplyLate, EndTold, SentByARun
<1>2. /\ UNCHANGED <<session, queue, exec, payload, nextId>> /\ late' \subseteq late
      /\ \A q \in RequestIds \ {r} : status'[q] = status[q]
      /\ status'[r] = IF status[r] = "absent" THEN "absent" ELSE st
  BY DEF ApplyLate, ApplyStatus, dbVars, sqsVars, Typed, TypeOK
<1>3. st # "absent"
  BY DEF Reports, InFlight, Terminal
<1>4. Told(r)'
  BY <1>1, <1>2 DEF Told, OpenStates, ClosedStates, Terminal
<1> QED BY <1>1, <1>2, <1>3, <1>4 DEF Quiet

\* Every step outside the sessions.
LEMMA QuietSteps ==
  ASSUME NothingAfterTheEnd, Typed, EndTold, NEW r \in RequestIds,
         \/ Consume(r) \/ Work(r) \/ Transition(r) \/ Crash(r) \/ Retry(r)
         \/ \E st \in Reports : ApplyLate(r, st)
  PROVE  Quiet(r)
  BY QuietConsume, QuietWork, QuietTransition, QuietCrash, QuietRetry, QuietLate

LEMMA QuietKeepsEndTold ==
  ASSUME Typed, EndTold, NEW r \in RequestIds, Quiet(r)
  PROVE  EndTold'
<1>1. NothingAhead'
  <2>1. ASSUME NEW q \in RequestIds, q >= nextId
        PROVE  exec'[q].state = "none" /\ status'[q] = "absent"
    <3>1. exec[q].state = "none" /\ status[q] = "absent"
      BY <2>1 DEF EndTold, NothingAhead
    <3>2. q \notin queue
      BY <2>1, ConstantsAssumption DEF EndTold, NothingAhead, Typed, TypeOK, RequestIds
    <3> QED BY <3>1, <3>2 DEF Quiet
  <2> QED BY <2>1 DEF EndTold, NothingAhead, Quiet
<1>2. \A q \in RequestIds : Told(q)'
  BY DEF EndTold, Quiet, Told
<1>3. SentByARun'
  <2> SUFFICES ASSUME NEW m \in late' PROVE exec'[m[1]].state # "none"
    BY DEF SentByARun
  <2>1. CASE m \in late
    <3>1. m[1] \in RequestIds /\ exec[m[1]].state # "none"
      BY <2>1 DEF EndTold, SentByARun, Typed, TypeOK
    <3> QED BY <3>1 DEF Quiet
  <2>2. CASE m \notin late
    BY <2>2 DEF Quiet
  <2> QED BY <2>1, <2>2
<1> QED BY <1>1, <1>2, <1>3 DEF EndTold

LEMMA QuietKeepsSerial ==
  ASSUME Typed, Serial, NEW r \in RequestIds, Quiet(r)
  PROVE  Serial'
<1>1. Live' = Live /\ \A a : RequestsOf(a)' = RequestsOf(a)
  <2>1. Live' = Live
    BY DEF Quiet, Live
  <2> QED BY <2>1 DEF Quiet, RequestsOf
<1>2. \A q \in RequestIds : status[q] \in Terminal => status'[q] \in Terminal
  BY DEF Quiet
<1>3. OldOnesEnded'
  BY <1>1, <1>2 DEF Serial, OldOnesEnded, RequestsOf, Live
<1>4. StillQuiet'
  <2>1. UNCHANGED session
    BY DEF Quiet
  <2> SUFFICES ASSUME NEW s \in Sessions, session[s].pc = "checked",
                      session[s].payload.type # "create",
                      NEW q \in RequestsOf(session[s].payload.app)
               PROVE  status'[q] \in Terminal
    BY <1>1, <2>1 DEF StillQuiet
  <2> QED BY <1>2 DEF Serial, StillQuiet, RequestsOf, Live
<1> QED BY <1>3, <1>4, QuietKeepsEndTold DEF Serial

\* What _reject_in_flight sees: the latest request has ended, and so have the
\* older ones.
LEMMA NoneInFlightMeansEnded ==
  ASSUME Typed, OldOnesEnded, NEW a \in Apps, NoneInFlight(a)
  PROVE  \A r \in RequestsOf(a) : status[r] \in Terminal
<1> SUFFICES ASSUME NEW r \in RequestsOf(a) PROVE status[r] \in Terminal
  OBVIOUS
<1>1. CASE \E q \in RequestsOf(a) : r < q
  BY <1>1 DEF OldOnesEnded
<1>2. CASE \A q \in RequestsOf(a) : q <= r
  BY <1>2 DEF NoneInFlight, RequestsOf, Live, Typed, TypeOK, Statuses, Reports
<1> QED BY <1>1, <1>2, ConstantsAssumption DEF RequestsOf, Live, RequestIds

LEMMA BeginKeepsEndTold ==
  ASSUME Typed, EndTold, NEW s \in Sessions, NEW p, NEW present, Begin(s, p, present)
  PROVE  EndTold'
<1>1. UNCHANGED <<status, nextId, queue, exec, late>>
  BY DEF Begin, dbVars, sqsVars, sfnVars
<1>2. session'[s].pc = "checked" /\ \A t \in Sessions \ {s} : session'[t] = session[t]
  BY DEF Begin, Typed, TypeOK
<1> QED BY <1>1, <1>2 DEF EndTold, NothingAhead, SentByARun, Told

LEMMA BeginKeepsSerial ==
  ASSUME Typed, Serial, NEW s \in Sessions, NEW p, NEW present, Begin(s, p, present),
         p.type # "create" => \A r \in RequestsOf(p.app) : status[r] \in Terminal
  PROVE  Serial'
<1>1. UNCHANGED <<owner, rows, status, payload, nextId, queue, exec, late>>
  BY DEF Begin, dbVars, sqsVars, sfnVars
<1>2. Live' = Live /\ \A a : RequestsOf(a)' = RequestsOf(a)
  BY <1>1 DEF Live, RequestsOf
<1>3. /\ session'[s].pc = "checked" /\ session'[s].payload = p
      /\ \A t \in Sessions \ {s} : session'[t] = session[t]
  BY DEF Begin, Typed, TypeOK
<1>4. StillQuiet'
  <2> SUFFICES ASSUME NEW t \in Sessions, session'[t].pc = "checked",
                      session'[t].payload.type # "create",
                      NEW q \in RequestIds, status[q] # "absent",
                      payload[q].app = session'[t].payload.app
               PROVE  status[q] \in Terminal
    BY <1>1 DEF StillQuiet, RequestsOf, Live
  <2> QED BY <1>3 DEF Serial, StillQuiet, RequestsOf, Live
<1>5. OldOnesEnded'
  BY <1>1, <1>2 DEF Serial, OldOnesEnded
<1> QED BY <1>4, <1>5, BeginKeepsEndTold DEF Serial

LEMMA ReceiveKeepsSerial ==
  ASSUME Typed, Serial, NEW s \in Sessions, Receive(s)
  PROVE  Serial'
<1>0. PICK a \in Apps :
        \/ \E k \in Keys, d \in Deltas : ReceiveCreate(s, a, k, d) \/ ReceiveUpdate(s, a, k, d)
        \/ \E k \in Keys, e \in Envs : ReceiveDelete(s, a, k, e)
        \/ ReceivePurge(s, a)
  BY DEF Receive
<1>1. NoneInFlight(a) => \A r \in RequestsOf(a) : status[r] \in Terminal
  BY NoneInFlightMeansEnded DEF Serial
<1>2. ASSUME NEW k \in Keys, NEW d \in Deltas,
             ReceiveCreate(s, a, k, d) \/ ReceiveUpdate(s, a, k, d)
      PROVE  Serial'
  BY <1>1, <1>2, BeginKeepsSerial DEF ReceiveCreate, ReceiveUpdate
<1>3. ASSUME NEW k \in Keys, NEW e \in Envs, ReceiveDelete(s, a, k, e)
      PROVE  Serial'
  <2> DEFINE p == [type |-> "delete", app |-> a, key |-> k, add |-> {},
                   remove |-> {x \in Services : EnvOf[x] = e}]
  <2>1. Begin(s, p, RowsOf(a)) /\ p.app = a /\ NoneInFlight(a)
    BY <1>3 DEF ReceiveDelete
  <2> QED BY <1>1, <2>1, BeginKeepsSerial
<1>4. CASE ReceivePurge(s, a)
  BY <1>1, <1>4, BeginKeepsSerial DEF ReceivePurge
<1> QED BY <1>0, <1>2, <1>3, <1>4

LEMMA CommitKeepsEndTold ==
  ASSUME Typed, EndTold, NEW s \in Sessions, CommitRequest(s)
  PROVE  EndTold'
<1>1. nextId \in RequestIds /\ nextId \in Nat
  BY ConstantsAssumption DEF CommitRequest, RequestIds
<1>2. /\ nextId' = nextId + 1 /\ UNCHANGED <<queue, exec, late>>
      /\ \A r \in RequestIds : r # nextId => status'[r] = status[r]
      /\ status'[nextId] = "pending"
  BY <1>1 DEF CommitRequest, sqsVars, sfnVars, Typed, TypeOK
<1>3. /\ session'[s].pc = "committed" /\ session'[s].id = nextId
      /\ \A t \in Sessions \ {s} : session'[t] = session[t]
  BY DEF CommitRequest, Typed, TypeOK, Session
<1>4. NothingAhead'
  <2>1. \A r \in queue : r \in RequestIds /\ r < nextId
    BY DEF EndTold, NothingAhead, Typed, TypeOK
  <2>2. \A r \in RequestIds : r >= nextId + 1 => r >= nextId /\ r # nextId
    BY <1>1, ConstantsAssumption DEF RequestIds
  <2>3. \A r \in RequestIds : r < nextId => r < nextId + 1
    BY <1>1, ConstantsAssumption DEF RequestIds
  <2>4. nextId < nextId + 1
    BY <1>1
  <2>5. \A t \in Sessions : session[t].pc = "committed" =>
          session[t].id \in RequestIds /\ session[t].id < nextId
    BY DEF EndTold, NothingAhead, Typed, Shape
  <2> QED BY <1>2, <1>3, <2>1, <2>2, <2>3, <2>4, <2>5 DEF EndTold, NothingAhead
<1>5. \A r \in RequestIds : Told(r)'
  <2> SUFFICES ASSUME NEW r \in RequestIds PROVE Told(r)'
    OBVIOUS
  <2>1. CASE r = nextId
    <3>1. exec'[r].state = "none"
      BY <1>1, <1>2, <2>1 DEF EndTold, NothingAhead
    <3> QED BY <1>2, <2>1, <3>1 DEF Told, OpenStates
  <2>2. CASE r # nextId
    BY <1>2, <2>2 DEF EndTold, Told
  <2> QED BY <2>1, <2>2
<1>6. SentByARun'
  BY <1>2 DEF EndTold, SentByARun
<1> QED BY <1>4, <1>5, <1>6 DEF EndTold

LEMMA CommitKeepsSerial ==
  ASSUME TakingTurns, Typed, Integrity, Serial, NEW s \in Sessions, CommitRequest(s)
  PROVE  Serial'
<1> DEFINE p == session[s].payload
<1>1. /\ p \in Payload /\ p.app \in Apps
      /\ nextId \in RequestIds /\ nextId \in Nat
      /\ Live' = Live \cup {nextId}
      /\ \A r \in RequestIds : r # nextId => payload'[r] = payload[r]
      /\ payload'[nextId] = p
  BY CommitKeeps, ConstantsAssumption DEF Payload, RequestIds
<1>2. /\ nextId' = nextId + 1 /\ UNCHANGED <<queue, exec, late>>
      /\ \A r \in RequestIds : r # nextId => status'[r] = status[r]
      /\ status'[nextId] = "pending"
  BY <1>1 DEF CommitRequest, sqsVars, sfnVars, Typed, TypeOK
<1>3. /\ session'[s].pc = "committed" /\ session'[s].id = nextId
      /\ \A t \in Sessions \ {s} : session'[t] = session[t]
  BY DEF CommitRequest, Typed, TypeOK, Session
<1>4. \A r \in RequestsOf(p.app) : status[r] \in Terminal
  <2>1. CASE p.type = "create"
    <3>1. owner[p.app] = 0
      BY <2>1 DEF CommitRequest, ConstraintsHold
    <3> QED BY <1>1, <3>1 DEF Integrity, ReferentialIntegrity, Anchored
  <2>2. CASE p.type # "create"
    BY <2>2 DEF Serial, StillQuiet, CommitRequest
  <2> QED BY <2>1, <2>2
<1>5. \A r \in Live : r \in RequestIds /\ r < nextId
  BY DEF Integrity, IdsIssued, Live
<1>6. OldOnesEnded'
  <2> SUFFICES ASSUME NEW a \in Apps, NEW r \in RequestsOf(a)', NEW q \in RequestsOf(a)', r < q
               PROVE  status'[r] \in Terminal
    BY DEF OldOnesEnded
  <2>1. r \in Live /\ r # nextId
    BY <1>1, <1>5, ConstantsAssumption DEF RequestsOf, RequestIds
  <2>2. r \in RequestsOf(a) /\ status'[r] = status[r]
    BY <1>1, <1>2, <1>5, <2>1 DEF RequestsOf
  <2>3. CASE q = nextId
    BY <1>1, <1>4, <2>2, <2>3 DEF RequestsOf
  <2>4. CASE q # nextId
    <3>1. q \in RequestsOf(a)
      BY <1>1, <1>5, <2>4 DEF RequestsOf
    <3> QED BY <2>2, <3>1 DEF Serial, OldOnesEnded
  <2> QED BY <2>3, <2>4
<1>7. StillQuiet'
  <2> SUFFICES ASSUME NEW t \in Sessions, session'[t].pc = "checked",
                      session'[t].payload.type # "create",
                      NEW r \in Live', payload'[r].app = session'[t].payload.app
               PROVE  status'[r] \in Terminal
    BY DEF StillQuiet, RequestsOf
  <2>1. t # s /\ session'[t] = session[t]
    BY <1>3
  <2>2. session[t].payload.app # p.app
    BY <2>1 DEF TakingTurns, CommitRequest
  <2>3. r \in RequestsOf(session[t].payload.app) /\ status'[r] = status[r]
    BY <1>1, <1>2, <1>5, <2>1, <2>2 DEF RequestsOf
  <2> QED BY <2>1, <2>3 DEF Serial, StillQuiet
<1> QED BY <1>6, <1>7, CommitKeepsEndTold DEF Serial

LEMMA PurgeKeepsEndTold ==
  ASSUME Typed, EndTold, NEW s \in Sessions, CommitPurge(s)
  PROVE  EndTold'
<1>1. \A t \in Sessions : session'[t].pc # "idle" => session'[t] = session[t]
  BY DEF CommitPurge, Typed, TypeOK, IdleSession
<1>2. UNCHANGED <<queue, exec, late, nextId>>
  BY DEF CommitPurge, sqsVars, sfnVars
<1>3. \A r \in RequestIds : status'[r] \in {status[r], "absent"}
  BY DEF CommitPurge
<1>4. NothingAhead' /\ SentByARun'
  BY <1>1, <1>2, <1>3 DEF NothingAhead, SentByARun, EndTold
<1>5. \A r \in RequestIds : Told(r)'
  BY <1>2, <1>3 DEF EndTold, Told, Terminal
<1> QED BY <1>4, <1>5 DEF EndTold

LEMMA PurgeKeepsSerial ==
  ASSUME Typed, Serial, NEW s \in Sessions, CommitPurge(s)
  PROVE  Serial'
<1>1. \A t \in Sessions : session'[t].pc # "idle" => session'[t] = session[t]
  BY DEF CommitPurge, Typed, TypeOK, IdleSession
<1>3. \A r \in RequestIds : status'[r] \in {status[r], "absent"}
  BY DEF CommitPurge
<1>4. /\ \A r \in Live' : r \in Live /\ payload'[r] = payload[r] /\ status'[r] = status[r]
  BY <1>3, PurgeKeeps DEF Live
<1>5. OldOnesEnded'
  BY <1>4 DEF Serial, OldOnesEnded, RequestsOf
<1>6. StillQuiet'
  BY <1>1, <1>4 DEF StillQuiet, Serial, RequestsOf
<1> QED BY <1>5, <1>6, PurgeKeepsEndTold DEF Serial

LEMMA FinishKeepsEndTold ==
  ASSUME Typed, EndTold, NEW s \in Sessions, Finish(s)
  PROVE  EndTold'
<1>1. CASE CommitRequest(s)
  BY <1>1, CommitKeepsEndTold
<1>2. CASE CommitPurge(s)
  BY <1>2, PurgeKeepsEndTold
<1>3. CASE Rollback(s) \/ Publish(s) \/ PublishFails(s)
  <2>1. session' = [session EXCEPT ![s] = IdleSession] /\ UNCHANGED <<dbVars, sfnVars>>
    BY <1>3 DEF Rollback, Publish, PublishFails
  <2>2. \A t \in Sessions : session'[t].pc # "idle" => session'[t] = session[t]
    BY <2>1 DEF Typed, TypeOK, IdleSession
  <2>3. \A r \in queue' : r < nextId
    BY <1>3 DEF Rollback, Publish, PublishFails, sqsVars, EndTold, NothingAhead
  <2>4. SentByARun' /\ \A r \in RequestIds : Told(r)'
    BY <2>1 DEF EndTold, SentByARun, Told, dbVars, sfnVars
  <2>5. NothingAhead'
    BY <2>1, <2>2, <2>3 DEF NothingAhead, EndTold, dbVars, sfnVars
  <2> QED BY <2>4, <2>5 DEF EndTold
<1> QED BY <1>1, <1>2, <1>3 DEF Finish

LEMMA FinishKeepsSerial ==
  ASSUME TakingTurns, Typed, Integrity, Serial, NEW s \in Sessions, Finish(s)
  PROVE  Serial'
<1>1. CASE CommitRequest(s)
  BY <1>1, CommitKeepsSerial
<1>2. CASE CommitPurge(s)
  BY <1>2, PurgeKeepsSerial
<1>3. CASE Rollback(s) \/ Publish(s) \/ PublishFails(s)
  <2>1. session' = [session EXCEPT ![s] = IdleSession] /\ UNCHANGED <<dbVars, sfnVars>>
    BY <1>3 DEF Rollback, Publish, PublishFails
  <2>2. \A t \in Sessions : session'[t].pc # "idle" => session'[t] = session[t]
    BY <2>1 DEF Typed, TypeOK, IdleSession
  <2>3. OldOnesEnded'
    BY <2>1 DEF Serial, OldOnesEnded, RequestsOf, Live, dbVars
  <2>4. StillQuiet'
    BY <2>1, <2>2 DEF StillQuiet, Serial, RequestsOf, Live, dbVars
  <2> QED BY <1>3, <2>3, <2>4, FinishKeepsEndTold DEF Serial, Finish
<1> QED BY <1>1, <1>2, <1>3 DEF Finish

LEMMA InitSerial == Init => Serial
  BY DEF Init, Serial, OldOnesEnded, StillQuiet, EndTold, NothingAhead, SentByARun, Told,
         RequestsOf, Live, IdleSession, NoExecution, OpenStates

\* It takes no turns for the runs to know: NothingAfterTheEnd alone is enough.
LEMMA NextEndTold ==
  Typed /\ EndTold /\ [Next /\ NothingAfterTheEnd]_vars => EndTold'
<1> SUFFICES ASSUME Typed, EndTold, [Next /\ NothingAfterTheEnd]_vars PROVE EndTold'
  OBVIOUS
<1>1. CASE UNCHANGED vars
  BY <1>1 DEF vars, EndTold, NothingAhead, SentByARun, Told
<1>2. ASSUME NEW s \in Sessions, Receive(s)
      PROVE  EndTold'
  BY <1>2, BeginKeepsEndTold
     DEF Receive, ReceiveCreate, ReceiveUpdate, ReceiveDelete, ReceivePurge
<1>3. ASSUME NothingAfterTheEnd, NEW r \in RequestIds,
             \/ Consume(r) \/ Work(r) \/ Transition(r) \/ Crash(r) \/ Retry(r)
             \/ \E st \in Reports : ApplyLate(r, st)
      PROVE  EndTold'
  BY <1>3, QuietSteps, QuietKeepsEndTold
<1> QED BY <1>1, <1>2, <1>3, FinishKeepsEndTold DEF Next

LEMMA NextSerial ==
  Typed /\ Integrity /\ Serial /\ [Next /\ Orderly]_vars => Serial'
<1> SUFFICES ASSUME Typed, Integrity, Serial, [Next /\ Orderly]_vars PROVE Serial'
  OBVIOUS
<1>1. CASE UNCHANGED vars
  BY <1>1 DEF vars, Serial, OldOnesEnded, StillQuiet, EndTold, NothingAhead, SentByARun, Told,
              RequestsOf, Live
<1>2. ASSUME Orderly, NEW s \in Sessions, Receive(s) \/ Finish(s)
      PROVE  Serial'
  BY <1>2, ReceiveKeepsSerial, FinishKeepsSerial DEF Orderly
<1>3. ASSUME Orderly, NEW r \in RequestIds,
             \/ Consume(r) \/ Work(r) \/ Transition(r) \/ Crash(r) \/ Retry(r)
             \/ \E st \in Reports : ApplyLate(r, st)
      PROVE  Serial'
  BY <1>3, QuietSteps, QuietKeepsSerial DEF Orderly, Serial
<1> QED BY <1>1, <1>2, <1>3 DEF Next

\* An orderly behaviour is one of the specification's.
LEMMA OrderlyIsSpec == OrderlySpec => Spec
<1>1. [Next /\ Orderly]_vars => [Next]_vars
  OBVIOUS
<1> QED BY <1>1, PTL DEF Spec, OrderlySpec

LEMMA AlwaysSerial == OrderlySpec => [](Typed /\ Integrity /\ Serial)
  BY InitSerial, NextSerial, OrderlyIsSpec, AlwaysTyped, AlwaysIntegrity, PTL DEF OrderlySpec

\* However many calls are served at once, on however many apps, and whatever
\* fails, is redelivered, invoked again or late: an app has at most one request
\* under way as long as the calls on it take turns and nothing is done for a
\* request after its end.  The promise of _reject_in_flight, and what it rests on.
THEOREM OneInFlight == OrderlySpec => []AtMostOneInFlight
<1>1. Serial => AtMostOneInFlight
  BY ConstantsAssumption
     DEF Serial, OldOnesEnded, AtMostOneInFlight, RequestsOf, Live, RequestIds, InFlight, Terminal
<1> QED BY <1>1, AlwaysSerial, PTL

-----------------------------------------------------------------------------
(* What keeps a request's end, and who is orderly                            *)

\* No execution name used again, no callback applied late, no Lambda invoked anew.
Calm == Faults \cap {"reuse", "late", "sdk"} = {}

\* Then nothing happens for a request after its end.
LEMMA CalmAfterTheEnd == Calm /\ late = {} => NothingAfterTheEnd
  BY DEF NothingAfterTheEnd, Calm, Deliver, Retry, ApplyLate

LEMMA CalmNoneLate ==
  ASSUME Calm
  PROVE  Spec => [](late = {})
<1>1. Init => late = {}
  BY DEF Init
<1>2. late = {} /\ [Next]_vars => (late = {})'
  <2> SUFFICES ASSUME late = {}, [Next]_vars PROVE late' = {}
    OBVIOUS
  <2>1. ASSUME NEW r \in RequestIds, NEW st, NEW ok, NEW err, Post(r, st, ok, err)
        PROVE  late' = {}
    BY <2>1 DEF Post, Calm
  <2>2. ASSUME NEW s \in Sessions, Receive(s) \/ Finish(s)
        PROVE  late' = {}
    BY <2>2 DEF Receive, ReceiveCreate, ReceiveUpdate, ReceiveDelete, ReceivePurge, Begin, Finish,
                CommitRequest, CommitPurge, Rollback, Publish, PublishFails, sfnVars
  <2>3. ASSUME NEW r \in RequestIds, Consume(r) \/ Transition(r) \/ Crash(r) \/ Retry(r)
        PROVE  late' = {}
    BY <2>3 DEF Consume, Deliver, DeliverAgain, DeliverFails, DeadLetter, Transition, Crash, Retry
  <2>4. ASSUME NEW r \in RequestIds, Work(r)
        PROVE  late' = {}
    BY <2>1, <2>4 DEF Work, GetDetails, GetDetailsFails, ReportStarted, DoWork, WorkFails, Report,
                      ReportPartial, ReportFailure, Poll, PollFails
  <2>5. ASSUME NEW r \in RequestIds, NEW st \in Reports, ApplyLate(r, st)
        PROVE  late' = {}
    BY <2>5 DEF ApplyLate
  <2> QED BY <2>2, <2>3, <2>4, <2>5 DEF Next, vars
<1> QED BY <1>1, <1>2, PTL DEF Spec

\* A request that succeeded or failed keeps that status until purge_app deletes
\* it, although update_request_status applies whatever arrives: however many calls
\* overlap, whatever is delivered again or refused, whatever fails or crashes, the
\* workers send nothing after the report of the end.  Three faults are excluded,
\* for they do reopen requests: a message delivered again whose name Step
\* Functions accepts again and a Lambda invoked anew, both after a failure was
\* reported, and a callback applied after its worker gave it up.
THEOREM EndIsFinal ==
  ASSUME Calm
  PROVE  Spec => TerminalIsFinal
<1> DEFINE Final == \A r \in RequestIds :
                      status[r] \in Terminal => status'[r] \in {status[r], "absent"}
<1>1. Typed /\ Integrity /\ EndTold /\ late = {} /\ [Next]_vars => [Final]_vars
  <2> SUFFICES ASSUME Typed, Integrity, EndTold, NothingAfterTheEnd, [Next]_vars PROVE Final
    BY CalmAfterTheEnd
  <2>1. CASE UNCHANGED status
    BY <2>1
  <2>2. ASSUME NEW s \in Sessions, Receive(s)
        PROVE  UNCHANGED status
    BY <2>2 DEF Receive, ReceiveCreate, ReceiveUpdate, ReceiveDelete, ReceivePurge, Begin, dbVars
  <2>3. ASSUME NEW s \in Sessions, Finish(s)
        PROVE  Final
    <3>1. CASE CommitRequest(s)
      <4>1. status[nextId] = "absent"
        BY <3>1, ConstantsAssumption
           DEF CommitRequest, Integrity, IdsIssued, Live, RequestIds
      <4>2. \A r \in RequestIds : r # nextId => status'[r] = status[r]
        BY <3>1 DEF CommitRequest, Typed, TypeOK
      <4> QED BY <4>1, <4>2 DEF Terminal
    <3>2. CASE CommitPurge(s)
      BY <3>2 DEF CommitPurge
    <3>3. CASE Rollback(s) \/ Publish(s) \/ PublishFails(s)
      BY <3>3 DEF Rollback, Publish, PublishFails, dbVars
    <3> QED BY <2>3, <3>1, <3>2, <3>3 DEF Finish
  <2>4. ASSUME NothingAfterTheEnd, NEW r \in RequestIds,
               \/ Consume(r) \/ Work(r) \/ Transition(r) \/ Crash(r) \/ Retry(r)
               \/ \E st \in Reports : ApplyLate(r, st)
        PROVE  Final
    BY <2>4, QuietSteps DEF Quiet
  <2> QED BY <2>1, <2>2, <2>3, <2>4 DEF Next, vars
<1>2. Init => EndTold
  BY InitSerial DEF Serial
<1>3. Typed /\ EndTold /\ late = {} /\ [Next]_vars => EndTold'
  BY NextEndTold, CalmAfterTheEnd
<1> QED BY <1>1, <1>2, <1>3, AlwaysTyped, AlwaysIntegrity, CalmNoneLate, PTL
        DEF Spec, TerminalIsFinal

\* A control plane that serves one call at a time.
OneCaller == \A s, t \in Sessions : s = t

\* One call at a time and workers that run once are orderly, through publish
\* failures, redeliveries, dead letters, crashes, failing work, failing checks
\* and refused callbacks: none of these lets anything happen after the end.
THEOREM CalmIsOrderly ==
  ASSUME OneCaller, Calm
  PROVE  Spec => OrderlySpec
<1>1. late = {} /\ [Next]_vars => [Next /\ Orderly]_vars
  <2> SUFFICES ASSUME late = {} PROVE Orderly
    OBVIOUS
  <2>1. TakingTurns
    BY DEF TakingTurns, OneCaller
  <2> QED BY <2>1, CalmAfterTheEnd DEF Orderly
<1> QED BY <1>1, CalmNoneLate, PTL DEF Spec, OrderlySpec
=============================================================================
