------------------------ MODULE RequestOutcomeProofs ------------------------
(***************************************************************************)
(* What a request of RequestLifecycle leaves behind when its execution     *)
(* ends: where every report reaches the control plane, a status that says  *)
(* how it ended (callers may overlap, work may fail, messages may come     *)
(* twice); where calls on one app take turns and nothing is done for a     *)
(* request after its end (OrderlySpec), the Service rows it was about.     *)
(* Last, the proof that the path of a request implements                   *)
(* AppReconciliation.                                                      *)
(***************************************************************************)
EXTENDS RequestLifecycleProofs

-----------------------------------------------------------------------------
(* A closed execution has reported                                           *)

\* The faults under which a worker cannot tell the control plane how it ended,
\* or tells it too late.  Failing work, redeliveries and execution names used
\* again are not among them.
Heard == Faults \cap {"check", "refuse", "crash", "late", "sdk"} = {}

\* The run of r is over, or only the state machine has to notice.
Over(r) ==
    \/ exec[r].state \in ClosedStates
    \/ exec[r].state \in OpenStates /\ exec[r].phase = "raised"
    \/ exec[r].state \in {"extract", "report_failed"} /\ exec[r].phase = "ret"

Honest(r) ==
    /\ status[r] # "absent" /\ Over(r) => status[r] \in Terminal
    /\ exec[r].phase \in {"ready", "pending"} => exec[r].state = "check"

\* A request that is committed now was never handed to the state machine.
Unstarted ==
    /\ \A r \in queue : r < nextId
    /\ \A s \in Sessions : session[s].pc = "committed" => session[s].id < nextId
    /\ \A r \in RequestIds : exec[r].state # "none" => r < nextId

Truthful == late = {} /\ Unstarted /\ \A r \in RequestIds : Honest(r)

LEMMA HeardFaults ==
  ASSUME Heard
  PROVE  /\ "check" \notin Faults /\ "refuse" \notin Faults /\ "crash" \notin Faults
         /\ "late" \notin Faults /\ "sdk" \notin Faults
  BY DEF Heard

\* What a step for request r does when every report is heard.
Reporting(r) ==
    /\ \A q \in RequestIds \ {r} : exec'[q] = exec[q] /\ status'[q] = status[q]
    /\ exec[r].state = "none" => r \in queue \/ exec'[r] = exec[r]
    /\ queue' \subseteq queue /\ late' = {}
    /\ UNCHANGED <<session, nextId>>
    /\ Honest(r)'

LEMMA ReportingKeeps ==
  ASSUME Typed, Truthful, NEW r \in RequestIds, Reporting(r)
  PROVE  Truthful'
<1>1. \A q \in RequestIds : Honest(q)'
  BY DEF Truthful, Reporting, Honest, Over
<1>2. Unstarted'
  BY DEF Truthful, Unstarted, Reporting, Typed, TypeOK
<1> QED BY <1>1, <1>2 DEF Truthful, Reporting

\* A POST is refused only when its request, or a service it names, is gone.
LEMMA HeardPost ==
  ASSUME NEW r \in RequestIds, NEW st \in Reports, NEW ok \in Phases, NEW err \in Phases,
         Heard, Typed, late = {}, Post(r, st, ok, err)
  PROVE  /\ \A q \in RequestIds \ {r} : exec'[q] = exec[q] /\ status'[q] = status[q]
         /\ exec'[r].state = exec[r].state
         /\ \/ status'[r] = st /\ exec'[r].phase = ok
            \/ status'[r] = status[r] /\ exec'[r].phase = err /\ ~Acceptable(r)
         /\ late' = {}
         /\ UNCHANGED nextId
<1>0. status \in [RequestIds -> Statuses]
  BY DEF Typed, TypeOK
<1>1. CASE Acceptable(r) /\ ApplyStatus(r, st) /\ Phase(r, ok) /\ UNCHANGED late
  BY <1>0, <1>1, PhaseFields DEF ApplyStatus
<1>2. CASE ~Acceptable(r) /\ Phase(r, err) /\ UNCHANGED <<dbVars, late>>
  BY <1>2, PhaseFields DEF dbVars
<1> QED BY <1>1, <1>2, HeardFaults DEF Post

LEMMA ReportingPost ==
  ASSUME NEW r \in RequestIds, NEW st \in Reports, NEW ok \in Phases, NEW err \in Phases,
         Heard, Typed, late = {}, Post(r, st, ok, err), UNCHANGED <<session, sqsVars>>,
         exec[r].state \in OpenStates,
         \/ st \in Terminal
         \/ ok # "raised" /\ ~(exec[r].state \in {"extract", "report_failed"} /\ ok = "ret"),
         \/ err \notin {"raised", "ret"}
         \/ exec[r].phase = "fail",
         ok \in {"ready", "pending"} \/ err \in {"ready", "pending"}
           => exec[r].state = "check"
  PROVE  Reporting(r)
<1>1. /\ \A q \in RequestIds \ {r} : exec'[q] = exec[q] /\ status'[q] = status[q]
      /\ exec'[r].state = exec[r].state
      /\ \/ status'[r] = st /\ exec'[r].phase = ok
         \/ status'[r] = status[r] /\ exec'[r].phase = err /\ ~Acceptable(r)
      /\ late' = {}
      /\ UNCHANGED nextId
  BY HeardPost
<1>2. exec[r].state # "none" /\ exec[r].state \notin ClosedStates
  BY DEF OpenStates, ClosedStates
<1>3. exec[r].phase = "fail" /\ ~Acceptable(r) => status[r] = "absent"
  BY DEF Acceptable
<1>4. Honest(r)'
  <2>1. CASE status'[r] = st /\ exec'[r].phase = ok
    BY <1>1, <1>2, <2>1 DEF Honest, Over
  <2>2. CASE status'[r] = status[r] /\ exec'[r].phase = err /\ ~Acceptable(r)
    BY <1>1, <1>2, <1>3, <2>2 DEF Honest, Over
  <2> QED BY <1>1, <2>1, <2>2
<1> QED BY <1>1, <1>2, <1>4 DEF Reporting, sqsVars

LEMMA ReportingMove ==
  ASSUME NEW r \in RequestIds, NEW ph \in Phases, Typed, late = {}, Phase(r, ph),
         UNCHANGED <<session, dbVars, sqsVars, late>>,
         exec[r].state \in OpenStates,
         ph # "raised" \/ status[r] = "absent",
         ph = "ret" => exec[r].state \notin {"extract", "report_failed"},
         ph \in {"ready", "pending"} => exec[r].state = "check"
  PROVE  Reporting(r)
<1>1. /\ \A q \in RequestIds \ {r} : exec'[q] = exec[q] /\ status'[q] = status[q]
      /\ exec'[r].state = exec[r].state /\ exec'[r].phase = ph
      /\ status'[r] = status[r] /\ late' = {} /\ queue' = queue
      /\ UNCHANGED <<session, payload, nextId>>
  BY PhaseMove
<1>2. exec[r].state # "none" /\ exec[r].state \notin ClosedStates
  BY DEF OpenStates, ClosedStates
<1>3. Honest(r)'
  BY <1>1, <1>2 DEF Honest, Over
<1> QED BY <1>1, <1>2, <1>3 DEF Reporting

LEMMA ReportingConsume ==
  ASSUME Heard, Typed, Truthful, NEW r \in RequestIds, Consume(r)
  PROVE  Reporting(r)
<1>1. late = {} /\ Honest(r) /\ exec \in [RequestIds -> Execution]
  BY DEF Truthful, Typed, TypeOK
<1>2. CASE Deliver(r)
  <2>1. exec' = [exec EXCEPT ![r] = Enter("step1", 0)] /\ r \in queue
    BY <1>2 DEF Deliver, Receivable
  <2>2. exec'[r].state = "step1" /\ exec'[r].phase = "get"
    BY <1>1, <2>1 DEF Enter, Entry
  <2>3. Honest(r)'
    BY <2>2 DEF Honest, Over, ClosedStates
  <2>4. queue' \subseteq queue /\ UNCHANGED <<session, dbVars, late>>
    BY <1>2 DEF Deliver, Acknowledge
  <2> QED BY <1>1, <2>1, <2>3, <2>4 DEF Reporting, dbVars
<1>3. CASE DeliverAgain(r) \/ DeliverFails(r) \/ DeadLetter(r)
  <2>1. UNCHANGED <<session, dbVars, exec, late>> /\ queue' \subseteq queue
    BY <1>3 DEF DeliverAgain, DeliverFails, DeadLetter, Acknowledge
  <2> QED BY <1>1, <2>1 DEF Reporting, Honest, Over, dbVars
<1> QED BY <1>2, <1>3 DEF Consume

LEMMA ReportingWork ==
  ASSUME Heard, Typed, Truthful, NEW r \in RequestIds, Work(r)
  PROVE  Reporting(r)
<1> USE DEF Reports, InFlight, Terminal, Phases, OpenStates
<1>0. /\ late = {} /\ Honest(r)
      /\ exec \in [RequestIds -> Execution] /\ status \in [RequestIds -> Statuses]
  BY DEF Truthful, Typed, TypeOK
<1>1. CASE GetDetails(r)
  <2>1. /\ \A q \in RequestIds \ {r} : exec'[q] = exec[q]
        /\ exec'[r].state = exec[r].state
        /\ exec'[r].phase = AfterDetails(r)
    BY <1>0, <1>1 DEF GetDetails, Execution
  <2>2. exec[r].state \in OpenStates /\ UNCHANGED <<session, dbVars, sqsVars, late>>
    BY <1>1 DEF GetDetails, Running
  <2>3. /\ AfterDetails(r) \in {"ret", "start", "poll", "report", "work"}
        /\ AfterDetails(r) = "ret" => exec[r].state \in {"step1", "apply"}
    BY DEF AfterDetails
  <2>4. Honest(r)'
    BY <2>1, <2>2, <2>3 DEF Honest, Over, ClosedStates
  <2> QED BY <1>0, <2>1, <2>2, <2>4 DEF Reporting, dbVars, sqsVars
<1>2. CASE GetDetailsFails(r)
  <2>1. ErrorPhase(r) \in {"raised", "fail"}
    BY DEF ErrorPhase
  <2>2. status[r] = "absent" /\ exec[r].state \in OpenStates
    BY <1>2, HeardFaults DEF GetDetailsFails, Running
  <2> QED BY <1>0, <1>2, <2>1, <2>2, ReportingMove DEF GetDetailsFails
<1>3. CASE ReportStarted(r)
  <2>1. exec[r].state \in {"step1", "apply"}
    BY <1>3 DEF ReportStarted, Running
  <2>2. Post(r, "in_progress", "work", "fail") /\ UNCHANGED <<session, sqsVars>>
    BY <1>3 DEF ReportStarted
  <2> QED BY <1>0, <2>1, <2>2, ReportingPost
<1>4. CASE DoWork(r)
  <2>1. exec[r].state \in {"step1", "apply", "extract"}
    BY <1>4 DEF DoWork, Running
  <2>2. CASE exec[r].state = "apply"
    <3>1. Phase(r, "ret") /\ UNCHANGED <<session, dbVars, sqsVars, late>>
      BY <1>4, <2>2 DEF DoWork
    <3> QED BY <1>0, <2>2, <3>1, ReportingMove
  <2>3. CASE exec[r].state # "apply"
    <3>1. Phase(r, "report") /\ UNCHANGED <<session, dbVars, sqsVars, late>>
      BY <1>4, <2>3 DEF DoWork
    <3> QED BY <1>0, <2>1, <3>1, ReportingMove
  <2> QED BY <2>2, <2>3
<1>5. CASE WorkFails(r)
  <2>1. /\ exec[r].state \in {"step1", "apply", "extract"}
        /\ UNCHANGED <<session, dbVars, sqsVars, late>>
    BY <1>5 DEF WorkFails, Running
  <2>2. CASE Phase(r, "fail")
    BY <1>0, <2>1, <2>2, ReportingMove
  <2>3. CASE Phase(r, "partial")
    BY <1>0, <2>1, <2>3, ReportingMove
  <2> QED BY <1>5, <2>2, <2>3 DEF WorkFails
<1>6. CASE Report(r)
  <2>1. exec[r].state \in OpenStates /\ UNCHANGED <<session, sqsVars>>
    BY <1>6 DEF Report, Running
  <2>2. CASE Running(r, {"step1"}, "report") /\ Post(r, "in_progress", "ret", "fail")
    <3>1. exec[r].state = "step1"
      BY <2>2 DEF Running
    <3> QED BY <1>0, <2>1, <2>2, <3>1, ReportingPost
  <2>3. CASE Post(r, "success", "ret", "fail")
    BY <1>0, <2>1, <2>3, ReportingPost
  <2>4. CASE Post(r, "failed", "ret", "fail")
    BY <1>0, <2>1, <2>4, ReportingPost
  <2> QED BY <1>6, <2>2, <2>3, <2>4 DEF Report
<1>7. CASE ReportPartial(r)
  <2>1. /\ exec[r].state \in OpenStates
        /\ Post(r, "failed", "fail", "fail") /\ UNCHANGED <<session, sqsVars>>
    BY <1>7 DEF ReportPartial, Running
  <2> QED BY <1>0, <2>1, ReportingPost
<1>8. CASE ReportFailure(r)
  <2>1. /\ exec[r].state \in OpenStates /\ exec[r].phase = "fail"
        /\ Post(r, "failed", "raised", "raised") /\ UNCHANGED <<session, sqsVars>>
    BY <1>8 DEF ReportFailure, Running
  <2> QED BY <1>0, <2>1, ReportingPost
<1>9. CASE Poll(r)
  <2>1. exec[r].state = "check" /\ UNCHANGED <<session, sqsVars>>
    BY <1>9 DEF Poll, Running
  <2>2. PICK verdict \in {"ready", "pending"} :
          \/ Phase(r, verdict) /\ UNCHANGED <<dbVars, late>>
          \/ Post(r, "in_progress", verdict, verdict)
    BY <1>9 DEF Poll
  <2>3. verdict \in Phases /\ verdict \notin {"raised", "ret"}
    OBVIOUS
  <2>4. CASE Phase(r, verdict) /\ UNCHANGED <<dbVars, late>>
    BY <1>0, <2>1, <2>3, <2>4, ReportingMove
  <2>5. CASE Post(r, "in_progress", verdict, verdict)
    BY <1>0, <2>1, <2>3, <2>5, ReportingPost
  <2> QED BY <2>2, <2>4, <2>5
<1>10. ~PollFails(r)
  BY HeardFaults DEF PollFails
<1> QED BY <1>1, <1>2, <1>3, <1>4, <1>5, <1>6, <1>7, <1>8, <1>9, <1>10 DEF Work

LEMMA ReportingTransition ==
  ASSUME Typed, Truthful, NEW r \in RequestIds, Transition(r)
  PROVE  Reporting(r)
<1>1. /\ late = {} /\ Honest(r)
      /\ exec \in [RequestIds -> Execution]
      /\ exec' = [exec EXCEPT ![r] = Following(r)]
      /\ exec[r].state \in OpenStates
      /\ exec[r].phase \in {"ret", "ready", "pending", "raised"}
      /\ UNCHANGED <<session, dbVars, sqsVars, late>>
  BY DEF Truthful, Typed, TypeOK, Transition
<1>2. exec'[r] = Following(r) /\ \A q \in RequestIds \ {r} : exec'[q] = exec[q]
  BY <1>1
<1>3. exec[r].state # "none"
  BY <1>1 DEF OpenStates
<1>4. \A st : Close(st).state = st /\ Close(st).phase = "get"
  BY DEF Close, NoExecution
<1>5. \A st, n : Enter(st, n).state = st /\ Enter(st, n).phase \in {"get", "report"}
  BY DEF Enter, Entry
<1>6. Following(r).phase \in {"get", "report"}
  BY <1>4, <1>5 DEF Following, AfterPending
<1>7. Following(r).state \in ClosedStates => Over(r)
  <2>1. CASE exec[r].phase = "raised"
    BY <1>1, <2>1 DEF Over
  <2>2. CASE exec[r].phase # "raised" /\ exec[r].state = "step1"
    <3>1. Following(r) = Enter("apply", 0)
      BY <2>2 DEF Following
    <3> QED BY <1>5, <3>1 DEF ClosedStates
  <2>3. CASE exec[r].phase # "raised" /\ exec[r].state = "apply"
    <3>1. Following(r) = Enter("check", 1)
      BY <2>3 DEF Following
    <3> QED BY <1>5, <3>1 DEF ClosedStates
  <2>4. CASE exec[r].phase # "raised" /\ exec[r].state = "check"
    <3>1. \/ Following(r) = Enter("extract", exec[r].attempt)
          \/ Following(r) = AfterPending(exec[r])
      BY <2>4 DEF Following
    <3>2. AfterPending(exec[r]).state \in {"report_failed", "check"}
      BY <1>5 DEF AfterPending
    <3> QED BY <1>5, <3>1, <3>2 DEF ClosedStates
  <2>5. CASE exec[r].phase # "raised" /\ exec[r].state \in {"extract", "report_failed"}
    <3>1. exec[r].phase = "ret"
      BY <1>1, <2>5 DEF Honest
    <3> QED BY <2>5, <3>1 DEF Over
  <2> QED BY <1>1, <2>1, <2>2, <2>3, <2>4, <2>5 DEF OpenStates
<1>8. Honest(r)'
  <2>1. status' = status
    BY <1>1 DEF dbVars
  <2>2. exec'[r].phase \notin {"raised", "ret", "ready", "pending"}
    BY <1>2, <1>6
  <2>3. Over(r)' => Over(r)
    BY <1>2, <1>7, <2>2 DEF Over
  <2> QED BY <1>1, <2>1, <2>2, <2>3 DEF Honest
<1> QED BY <1>1, <1>2, <1>3, <1>8 DEF Reporting, dbVars, sqsVars

LEMMA ReportingSteps ==
  ASSUME Heard, Typed, Truthful, NEW r \in RequestIds,
         \/ Consume(r) \/ Work(r) \/ Transition(r) \/ Crash(r) \/ Retry(r)
         \/ \E st \in Reports : ApplyLate(r, st)
  PROVE  Reporting(r)
<1>1. ~Crash(r) /\ ~Retry(r)
  BY HeardFaults DEF Crash, Retry
<1>2. \A st \in Reports : ~ApplyLate(r, st)
  BY DEF ApplyLate, Truthful
<1> QED BY <1>1, <1>2, ReportingConsume, ReportingWork, ReportingTransition

LEMMA SessionsKeepTruthful ==
  ASSUME Typed, Truthful, NEW s \in Sessions, Receive(s) \/ Finish(s)
  PROVE  Truthful'
<1>1. UNCHANGED <<exec, late>>
  BY DEF Receive, ReceiveCreate, ReceiveUpdate, ReceiveDelete, ReceivePurge, Begin, Finish,
         CommitRequest, CommitPurge, Rollback, Publish, PublishFails, sfnVars
<1>2. ASSUME UNCHANGED <<status, nextId, queue>>,
             \A t \in Sessions : session'[t].pc = "committed" => session'[t] = session[t]
      PROVE  Truthful'
  BY <1>1, <1>2 DEF Truthful, Unstarted, Honest, Over
<1>3. CASE Receive(s)
  <2>1. UNCHANGED <<dbVars, sqsVars>> /\ \E p, present : Begin(s, p, present)
    BY <1>3 DEF Receive, ReceiveCreate, ReceiveUpdate, ReceiveDelete, ReceivePurge, Begin
  <2>2. \A t \in Sessions : session'[t].pc = "committed" => session'[t] = session[t]
    BY <2>1 DEF Begin, Typed, TypeOK
  <2> QED BY <1>2, <2>1, <2>2 DEF dbVars, sqsVars
<1>4. CASE CommitRequest(s)
  <2>1. /\ nextId \in RequestIds /\ nextId' = nextId + 1 /\ UNCHANGED queue
        /\ status' = [status EXCEPT ![nextId] = "pending"]
        /\ session' = [session EXCEPT ![s].pc = "committed", ![s].id = nextId]
    BY <1>4 DEF CommitRequest, sqsVars
  <2>2. \A t \in Sessions : session'[t].pc = "committed" => session'[t].id < nextId + 1
    <3>1. session'[s].id = nextId /\ \A t \in Sessions \ {s} : session'[t] = session[t]
      BY <2>1 DEF Typed, TypeOK, Session
    <3>2. ASSUME NEW t \in Sessions \ {s}, session'[t].pc = "committed"
          PROVE  session'[t].id < nextId + 1
      <4>1. session[t].id < nextId /\ session[t].id \in Creators
        BY <3>1, <3>2 DEF Truthful, Unstarted, Typed, TypeOK, Session
      <4>2. session[t].id \in Nat /\ nextId \in Nat
        BY <2>1, <4>1, ConstantsAssumption DEF Creators, RequestIds
      <4>3. session'[t].id = session[t].id
        BY <3>1
      <4>4. \A m, n \in Nat : m < n => m < n + 1
        OBVIOUS
      <4> QED BY <4>1, <4>2, <4>3, <4>4
    <3>3. nextId < nextId + 1
      BY <2>1, ConstantsAssumption DEF RequestIds
    <3> QED BY <3>1, <3>2, <3>3
  <2>3. \A r \in RequestIds : r < nextId => r < nextId + 1
    BY <2>1, ConstantsAssumption DEF RequestIds
  <2>4. \A r \in queue : r \in RequestIds
    BY DEF Typed, TypeOK
  <2>5. Unstarted'
    BY <1>1, <2>1, <2>2, <2>3, <2>4 DEF Truthful, Unstarted
  <2>6. ASSUME NEW r \in RequestIds PROVE Honest(r)'
    <3>1. CASE r = nextId
      <4>1. exec[r].state = "none"
        BY <3>1, <2>1, ConstantsAssumption DEF Truthful, Unstarted, RequestIds
      <4> QED BY <1>1, <4>1 DEF Truthful, Honest, Over, OpenStates, ClosedStates
    <3>2. CASE r # nextId
      <4>1. status'[r] = status[r]
        BY <2>1, <3>2 DEF Typed, TypeOK
      <4> QED BY <1>1, <4>1 DEF Truthful, Honest, Over
    <3> QED BY <3>1, <3>2
  <2> QED BY <1>1, <2>5, <2>6 DEF Truthful
<1>5. CASE CommitPurge(s)
  <2>1. session' = [session EXCEPT ![s] = IdleSession] /\ UNCHANGED <<nextId, queue>>
    BY <1>5 DEF CommitPurge, sqsVars
  <2>2. \A t \in Sessions : session'[t].pc = "committed" => session'[t] = session[t]
    BY <2>1 DEF Typed, TypeOK, IdleSession
  <2>3. \A r \in RequestIds : status'[r] \in {status[r], "absent"}
    BY <1>5 DEF CommitPurge
  <2> QED BY <1>1, <2>1, <2>2, <2>3 DEF Truthful, Unstarted, Honest, Over
<1>6. CASE Rollback(s) \/ Publish(s) \/ PublishFails(s)
  <2>1. session' = [session EXCEPT ![s] = IdleSession] /\ UNCHANGED dbVars
    BY <1>6 DEF Rollback, Publish, PublishFails
  <2>2. \A t \in Sessions : session'[t].pc = "committed" => session'[t] = session[t]
    BY <2>1 DEF Typed, TypeOK, IdleSession
  <2>3. \A r \in queue' : r < nextId
    BY <1>6 DEF Rollback, Publish, PublishFails, sqsVars, Truthful, Unstarted
  <2> QED BY <1>1, <2>1, <2>2, <2>3 DEF Truthful, Unstarted, Honest, Over, dbVars
<1> QED BY <1>3, <1>4, <1>5, <1>6 DEF Finish

LEMMA AlwaysTruthful ==
  ASSUME Heard
  PROVE  Spec => [](Typed /\ Truthful)
<1>1. Init => Truthful
  BY DEF Init, Truthful, Unstarted, Honest, Over, IdleSession, NoExecution, OpenStates,
         ClosedStates
<1>2. Typed /\ Truthful /\ [Next]_vars => Truthful'
  <2> SUFFICES ASSUME Typed, Truthful, [Next]_vars PROVE Truthful'
    OBVIOUS
  <2>1. CASE UNCHANGED vars
    BY <2>1 DEF vars, Truthful, Unstarted, Honest, Over
  <2>2. ASSUME NEW s \in Sessions, Receive(s) \/ Finish(s)
        PROVE  Truthful'
    BY <2>2, SessionsKeepTruthful
  <2>3. ASSUME NEW r \in RequestIds,
               \/ Consume(r) \/ Work(r) \/ Transition(r) \/ Crash(r) \/ Retry(r)
               \/ \E st \in Reports : ApplyLate(r, st)
        PROVE  Truthful'
    BY <2>3, ReportingSteps, ReportingKeeps
  <2> QED BY <2>1, <2>2, <2>3 DEF Next
<1> QED BY <1>1, <1>2, AlwaysTyped, PTL DEF Spec

\* Whatever work raises, however often a message is delivered and however many
\* calls race: when Step Functions has closed the execution of a request and no
\* report was lost, the request says so.  It is the comment of the state machine
\* with the conditions under which it is true.
THEOREM ClosedReported ==
  ASSUME Heard
  PROVE  Spec => []ClosedIsReported
<1>1. Truthful => ClosedIsReported
  BY DEF Truthful, Honest, Over, ClosedIsReported, Live
<1> QED BY <1>1, AlwaysTruthful, PTL

-----------------------------------------------------------------------------
(* Nobody forgets a request                                                  *)

\* The faults that lose a message: the others cannot exhaust its receives before
\* an execution of the request has started.
Delivered == Faults \cap {"publish", "consumer"} = {}

\* A request the state machine has not heard of is in the hands of the call that
\* committed it or of the queue, and was never received.
Waiting ==
    \A r \in RequestIds : exec[r].state = "none" =>
      /\ receives[r] = 0
      /\ status[r] \in InFlight =>
           \/ r \in queue
           \/ \E s \in Sessions : session[s].pc = "committed" /\ session[s].id = r

\* A Lambda and the state machine never touch the queue, and never go back to
\* before the execution.
LEMMA RunStaysStarted ==
  ASSUME Typed, NEW r \in RequestIds, Work(r) \/ Transition(r)
  PROVE  exec'[r].state # "none" /\ UNCHANGED sqsVars
<1> USE DEF Phases, Reports, InFlight, Terminal
<1>0. exec \in [RequestIds -> Execution]
  BY DEF Typed, TypeOK
<1>1. ASSUME NEW ph \in Phases, Phase(r, ph)
      PROVE  exec'[r].state = exec[r].state
  BY <1>1, PhaseFields
<1>2. ASSUME NEW st \in Reports, NEW ok \in Phases, NEW err \in Phases, Post(r, st, ok, err)
      PROVE  exec'[r].state = exec[r].state
  BY <1>2, PostEffect
<1>3. CASE Work(r)
  <2>1. exec[r].state \in OpenStates /\ UNCHANGED sqsVars
    BY <1>3 DEF Work, GetDetails, GetDetailsFails, ReportStarted, DoWork, WorkFails, Report,
                ReportPartial, ReportFailure, Poll, PollFails, Running, OpenStates
  <2>2. CASE GetDetails(r)
    BY <1>0, <2>1, <2>2 DEF GetDetails, Execution, OpenStates
  <2>3. CASE GetDetailsFails(r) \/ DoWork(r) \/ WorkFails(r) \/ PollFails(r)
    <3>1. exec'[r].state = exec[r].state
      BY <1>1, <2>3 DEF GetDetailsFails, DoWork, WorkFails, PollFails, ErrorPhase
    <3> QED BY <2>1, <3>1 DEF OpenStates
  <2>4. CASE ReportStarted(r) \/ Report(r) \/ ReportPartial(r) \/ ReportFailure(r)
    <3>1. exec'[r].state = exec[r].state
      BY <1>2, <2>4 DEF ReportStarted, Report, ReportPartial, ReportFailure
    <3> QED BY <2>1, <3>1 DEF OpenStates
  <2>5. CASE Poll(r)
    <3>1. exec'[r].state = exec[r].state
      BY <1>1, <1>2, <2>5 DEF Poll
    <3> QED BY <2>1, <3>1 DEF OpenStates
  <2> QED BY <1>3, <2>1, <2>2, <2>3, <2>4, <2>5 DEF Work
<1>4. CASE Transition(r)
  <2>1. exec[r].state \in OpenStates /\ exec'[r] = Following(r) /\ UNCHANGED sqsVars
    BY <1>0, <1>4 DEF Transition
  <2>2. Following(r).state # "none"
    BY <2>1 DEF Following, AfterPending, Enter, Close, NoExecution, OpenStates
  <2> QED BY <2>1, <2>2
<1> QED BY <1>3, <1>4

LEMMA RunsKeepWaiting ==
  ASSUME Heard, Delivered, Typed, Truthful, Waiting, NEW r \in RequestIds,
         \/ Consume(r) \/ Work(r) \/ Transition(r) \/ Crash(r) \/ Retry(r)
         \/ \E st \in Reports : ApplyLate(r, st)
  PROVE  Waiting'
<1>1. /\ \A q \in RequestIds \ {r} : exec'[q] = exec[q] /\ status'[q] = status[q]
      /\ UNCHANGED session
  BY ReportingSteps DEF Reporting
<1>2. ASSUME \A q \in RequestIds \ {r} :
               /\ q \in queue => q \in queue'
               /\ receives'[q] = receives[q],
             exec'[r].state # "none"
      PROVE  Waiting'
  BY <1>1, <1>2 DEF Waiting
<1>3. CASE Work(r) \/ Transition(r)
  BY <1>2, <1>3, RunStaysStarted DEF sqsVars
<1>4. CASE Consume(r)
  <2>1. \A q \in RequestIds \ {r} : /\ q \in queue => q \in queue'
                                    /\ receives'[q] = receives[q]
    BY <1>4 DEF Consume, Deliver, DeliverAgain, DeliverFails, DeadLetter, Acknowledge, Typed,
                TypeOK
  <2>2. exec'[r].state # "none"
    <3>1. CASE Deliver(r)
      BY <3>1 DEF Deliver, Enter, Typed, TypeOK
    <3>2. CASE DeliverAgain(r)
      BY <3>2 DEF DeliverAgain, OpenStates
    <3>3. CASE DeliverFails(r)
      BY <3>3 DEF DeliverFails, Delivered, ClosedStates
    <3>4. CASE DeadLetter(r)
      BY <3>4, ConstantsAssumption DEF DeadLetter, Waiting
    <3> QED BY <1>4, <3>1, <3>2, <3>3, <3>4 DEF Consume
  <2> QED BY <1>2, <2>1, <2>2
<1>5. ~Crash(r) /\ ~Retry(r)
  BY HeardFaults DEF Crash, Retry
<1>6. \A st \in Reports : ~ApplyLate(r, st)
  BY DEF ApplyLate, Truthful
<1> QED BY <1>3, <1>4, <1>5, <1>6

LEMMA SessionsKeepWaiting ==
  ASSUME Delivered, Typed, Truthful, Waiting, NEW s \in Sessions, Receive(s) \/ Finish(s)
  PROVE  Waiting'
<1>1. UNCHANGED <<exec, receives>> /\ queue \subseteq queue'
  BY DEF Receive, ReceiveCreate, ReceiveUpdate, ReceiveDelete, ReceivePurge, Begin, Finish,
         CommitRequest, CommitPurge, Rollback, Publish, PublishFails, sfnVars, sqsVars
<1>2. ASSUME \A t \in Sessions : session[t].pc = "committed" => session'[t] = session[t],
             \A r \in RequestIds : status'[r] \in {status[r], "absent"}
      PROVE  Waiting'
  <2> SUFFICES ASSUME NEW r \in RequestIds, exec[r].state = "none", status'[r] \in InFlight
               PROVE  \/ r \in queue'
                      \/ \E t \in Sessions : session'[t].pc = "committed" /\ session'[t].id = r
    BY <1>1 DEF Waiting
  <2>1. status[r] \in InFlight
    BY <1>2 DEF InFlight
  <2> QED BY <1>1, <1>2, <2>1 DEF Waiting
<1>3. CASE Receive(s)
  <2>1. session[s].pc = "idle" /\ UNCHANGED dbVars /\ \E p, present : Begin(s, p, present)
    BY <1>3 DEF Receive, ReceiveCreate, ReceiveUpdate, ReceiveDelete, ReceivePurge, Begin
  <2>2. \A t \in Sessions : session[t].pc = "committed" => session'[t] = session[t]
    BY <2>1 DEF Begin, Typed, TypeOK
  <2> QED BY <1>2, <2>1, <2>2 DEF dbVars
<1>4. CASE CommitRequest(s)
  <2>1. /\ nextId \in RequestIds
        /\ status' = [status EXCEPT ![nextId] = "pending"]
        /\ session[s].pc = "checked"
        /\ session' = [session EXCEPT ![s].pc = "committed", ![s].id = nextId]
    BY <1>4 DEF CommitRequest
  <2>2. /\ session'[s].pc = "committed" /\ session'[s].id = nextId
        /\ \A t \in Sessions : session[t].pc = "committed" => session'[t] = session[t]
    BY <2>1 DEF Typed, TypeOK, Session
  <2>3. \A r \in RequestIds : r # nextId => status'[r] = status[r]
    BY <2>1 DEF Typed, TypeOK
  <2> SUFFICES ASSUME NEW r \in RequestIds, exec[r].state = "none", status'[r] \in InFlight
               PROVE  \/ r \in queue'
                      \/ \E t \in Sessions : session'[t].pc = "committed" /\ session'[t].id = r
    BY <1>1 DEF Waiting
  <2> QED BY <1>1, <2>2, <2>3 DEF Waiting
<1>5. CASE CommitPurge(s)
  <2>1. session[s].pc = "checked" /\ session' = [session EXCEPT ![s] = IdleSession]
    BY <1>5 DEF CommitPurge
  <2>2. \A r \in RequestIds : status'[r] \in {status[r], "absent"}
    BY <1>5 DEF CommitPurge
  <2> QED BY <1>2, <2>1, <2>2 DEF Typed, TypeOK
<1>6. CASE Rollback(s)
  <2>1. /\ session[s].pc = "checked" /\ session' = [session EXCEPT ![s] = IdleSession]
        /\ UNCHANGED status
    BY <1>6 DEF Rollback, dbVars
  <2> QED BY <1>2, <2>1 DEF Typed, TypeOK
<1>7. CASE Publish(s)
  <2>1. /\ session' = [session EXCEPT ![s] = IdleSession] /\ UNCHANGED status
        /\ queue' = queue \cup {session[s].id}
    BY <1>7 DEF Publish, dbVars
  <2> SUFFICES ASSUME NEW r \in RequestIds, exec[r].state = "none", status[r] \in InFlight,
                      r \notin queue'
               PROVE  \E t \in Sessions : session'[t].pc = "committed" /\ session'[t].id = r
    BY <1>1, <2>1 DEF Waiting
  <2>2. PICK t \in Sessions : session[t].pc = "committed" /\ session[t].id = r
    BY <1>1 DEF Waiting
  <2>3. t # s
    BY <2>1, <2>2
  <2> QED BY <2>1, <2>2, <2>3 DEF Typed, TypeOK
<1>8. ~PublishFails(s)
  BY DEF PublishFails, Delivered
<1> QED BY <1>3, <1>4, <1>5, <1>6, <1>7, <1>8 DEF Finish

\* When every report is heard and no message is lost, a request in flight is
\* always in somebody's hands, through work that fails, redeliveries, execution
\* names used again and calls that race: it can hang only on the faults that
\* Heard and Delivered exclude.
THEOREM Unforgotten ==
  ASSUME Heard, Delivered
  PROVE  Spec => []NobodyForgotten
<1>1. Init => Waiting
  BY DEF Init, Waiting, InFlight
<1>2. Typed /\ Truthful /\ Waiting /\ [Next]_vars => Waiting'
  <2> SUFFICES ASSUME Typed, Truthful, Waiting, [Next]_vars PROVE Waiting'
    OBVIOUS
  <2>1. CASE UNCHANGED vars
    BY <2>1 DEF vars, Waiting
  <2> QED BY <2>1, SessionsKeepWaiting, RunsKeepWaiting DEF Next
<1>3. Typed /\ Truthful /\ Waiting => NobodyForgotten
  <2> SUFFICES ASSUME Typed, Truthful, Waiting, NEW r \in RequestIds, status[r] \in InFlight
               PROVE  InHand(r)
    BY DEF NobodyForgotten, Abandoned
  <2>1. exec[r].state \notin ClosedStates
    BY DEF Truthful, Honest, Over, InFlight, Terminal
  <2>2. CASE exec[r].state = "none"
    BY <2>2, ConstantsAssumption DEF Waiting, InHand, Receivable
  <2>3. CASE exec[r].state # "none"
    BY <2>1, <2>3 DEF Typed, TypeOK, Execution, InHand
  <2> QED BY <2>2, <2>3
<1> QED BY <1>1, <1>2, <1>3, AlwaysTruthful, PTL DEF Spec

-----------------------------------------------------------------------------
(* One callback at a time, and a success only once                           *)

\* A callback for a request that has ended repeats its failure.
Applied(r, st) ==
    /\ r \in Live
    /\ ApplyStatus(r, st)
    /\ status[r] \in Terminal => st = status[r] /\ st # "success"

LEMMA PostApplies ==
  ASSUME NEW r \in RequestIds, NEW st, NEW ok, NEW err, Post(r, st, ok, err)
  PROVE  UNCHANGED dbVars \/ (r \in Live /\ ApplyStatus(r, st))
  BY DEF Post, Acceptable, Live

\* Only Extract reports a success, when the request has not ended.
LEMMA CallbackApplied ==
  ASSUME NothingAfterTheEnd, Typed, EndTold, NEW r \in RequestIds,
         \/ Consume(r) \/ Work(r) \/ Transition(r) \/ Crash(r) \/ Retry(r)
         \/ \E st \in Reports : ApplyLate(r, st)
  PROVE  UNCHANGED session /\ (UNCHANGED dbVars \/ \E st \in Reports : Applied(r, st))
<1>1. /\ UNCHANGED session
      /\ status[r] \in Terminal => status'[r] = status[r]
  BY QuietSteps DEF Quiet
<1>2. ASSUME NEW st \in Reports, r \in Live, ApplyStatus(r, st),
             st = "success" => status[r] \notin Terminal
      PROVE  Applied(r, st)
  <2>1. status'[r] = st
    BY <1>2 DEF ApplyStatus, Typed, TypeOK
  <2> QED BY <1>1, <1>2, <2>1 DEF Applied
<1>3. ASSUME NEW st \in Reports, NEW ok, NEW err, Post(r, st, ok, err),
             st = "success" => status[r] \notin Terminal
      PROVE  UNCHANGED dbVars \/ \E t \in Reports : Applied(r, t)
  BY <1>2, <1>3, PostApplies
<1>4. ASSUME NEW st \in Reports, ApplyLate(r, st)
      PROVE  UNCHANGED dbVars \/ Applied(r, st)
  BY <1>2, <1>4 DEF NothingAfterTheEnd, ApplyLate, Live
<1>5. CASE Consume(r) \/ Transition(r) \/ Crash(r) \/ Retry(r)
  BY <1>1, <1>5 DEF Consume, Deliver, DeliverAgain, DeliverFails, DeadLetter, Transition, Crash,
                    Retry
<1>6. CASE Work(r)
  <2>0. "in_progress" \in Reports /\ "failed" \in Reports /\ "success" \in Reports
    BY DEF Reports, InFlight, Terminal
  <2>1. CASE GetDetails(r) \/ GetDetailsFails(r) \/ DoWork(r) \/ WorkFails(r) \/ PollFails(r)
    BY <1>1, <2>1 DEF GetDetails, GetDetailsFails, DoWork, WorkFails, PollFails
  <2>2. CASE ReportStarted(r)
    BY <1>1, <1>3, <2>0, <2>2 DEF ReportStarted
  <2>3. CASE Report(r)
    <3>1. CASE Running(r, {"step1"}, "report") /\ Post(r, "in_progress", "ret", "fail")
      BY <1>1, <1>3, <2>0, <3>1
    <3>2. CASE Running(r, {"extract"}, "report") /\ Post(r, "success", "ret", "fail")
      <4>1. status[r] \notin Terminal
        BY <3>2 DEF EndTold, Told, Done, Running, OpenStates
      <4> QED BY <1>1, <1>3, <2>0, <3>2, <4>1
    <3>3. CASE Running(r, {"report_failed"}, "report") /\ Post(r, "failed", "ret", "fail")
      BY <1>1, <1>3, <2>0, <3>3
    <3> QED BY <2>3, <3>1, <3>2, <3>3 DEF Report
  <2>4. CASE ReportPartial(r)
    BY <1>1, <1>3, <2>0, <2>4 DEF ReportPartial
  <2>5. CASE ReportFailure(r)
    BY <1>1, <1>3, <2>0, <2>5 DEF ReportFailure
  <2>6. CASE Poll(r)
    BY <1>1, <1>3, <2>0, <2>6 DEF Poll
  <2> QED BY <1>6, <2>1, <2>2, <2>3, <2>4, <2>5, <2>6 DEF Work
<1> QED BY <1>1, <1>4, <1>5, <1>6

\* What a step does to the database.
LEMMA OrderlySteps ==
  ASSUME Typed, Serial, [Next /\ Orderly]_vars
  PROVE  \/ UNCHANGED <<session, dbVars>>
         \/ \E s \in Sessions : Receive(s)
         \/ \E s \in Sessions : Finish(s)
         \/ UNCHANGED session /\ \E r \in RequestIds, st \in Reports : Applied(r, st)
  BY CallbackApplied DEF Next, vars, dbVars, Orderly, Serial

\* A callback changes the status of its request and the rows it removes.
LEMMA AppliedFacts ==
  ASSUME Typed, NEW r \in RequestIds, NEW st \in Reports, Applied(r, st)
  PROVE  /\ Live' = Live
         /\ \A a : RequestsOf(a)' = RequestsOf(a)
         /\ UNCHANGED <<owner, payload, nextId>>
         /\ status'[r] = st
         /\ \A q \in RequestIds \ {r} : status'[q] = status[q]
         /\ st # "success" => rows' = rows
         /\ \A a \in Apps, x \in Services :
              rows'[a][x] = IF st = "success" /\ a = payload[r].app /\ x \in payload[r].remove
                              THEN 0 ELSE rows[a][x]
<1>1. Live' = Live /\ UNCHANGED <<owner, payload, nextId>>
  BY ApplyStatusTyped DEF Applied, ApplyStatus
<1>2. \A a : RequestsOf(a)' = RequestsOf(a)
  BY <1>1 DEF RequestsOf
<1>3. status'[r] = st /\ \A q \in RequestIds \ {r} : status'[q] = status[q]
  BY DEF Applied, ApplyStatus, Typed, TypeOK
<1>4. ASSUME NEW a \in Apps, NEW x \in Services
      PROVE  rows'[a][x] = IF st = "success" /\ a = payload[r].app /\ x \in payload[r].remove
                             THEN 0 ELSE rows[a][x]
  BY DEF Applied, ApplyStatus, PurgeRows, Typed, TypeOK
<1> QED BY <1>1, <1>2, <1>3, <1>4 DEF Applied, ApplyStatus

\* The request a callback ends is the youngest of its app.
LEMMA AppliedIsYoungest ==
  ASSUME Typed, Serial, NEW r \in Live, status[r] \notin Terminal,
         NEW q \in RequestsOf(payload[r].app), q # r
  PROVE  q < r /\ status[q] \in Terminal
<1>1. r \in RequestsOf(payload[r].app) /\ payload[r].app \in Apps
  BY DEF RequestsOf, Typed, Shape, Payload
<1>2. ~(r < q)
  BY <1>1 DEF Serial, OldOnesEnded
<1>3. q < r
  BY <1>2, ConstantsAssumption DEF RequestsOf, Live, RequestIds
<1> QED BY <1>1, <1>3 DEF Serial, OldOnesEnded

-----------------------------------------------------------------------------
(* What the rows say about the requests                                      *)

\* A request does not add what it removes.
Apart ==
    /\ \A r \in Live : payload[r].add \cap payload[r].remove = {}
    /\ \A s \in Sessions : session[s].pc = "checked" /\ session[s].payload.type # "purge" =>
         session[s].payload.add \cap session[s].payload.remove = {}

\* A row was asked for by the request it names.
RowsAsked == \A a \in Apps : \A x \in RowsOf(a) : x \in payload[rows[a][x]].add

\* The rows a call has read are there when it commits.
StillThere ==
    \A s \in Sessions : session[s].pc = "checked" =>
        /\ session[s].present \subseteq RowsOf(session[s].payload.app)
        /\ session[s].payload.type = "create" => session[s].present = {}

\* Until a request has ended, the rows it added wait for it.
InPlace ==
    \A r \in Live : status[r] \notin Terminal =>
        \A x \in payload[r].add : rows[payload[r].app][x] # 0

Footing == Apart /\ RowsAsked /\ StillThere /\ InPlace /\ SuccessIsApplied

LEMMA UnchangedFooting ==
  ASSUME Footing, UNCHANGED dbVars,
         \A s \in Sessions : session'[s].pc = "checked" => session'[s] = session[s]
  PROVE  Footing'
<1>1. /\ Live' = Live /\ UNCHANGED <<status, payload, rows>>
      /\ \A a : RequestsOf(a)' = RequestsOf(a) /\ RowsOf(a)' = RowsOf(a)
  BY DEF dbVars, Live, RequestsOf, RowsOf
<1>2. Apart' /\ StillThere'
  BY <1>1 DEF Footing, Apart, StillThere
<1>3. RowsAsked' /\ InPlace' /\ SuccessIsApplied'
  BY <1>1 DEF Footing, RowsAsked, InPlace, SuccessIsApplied
<1> QED BY <1>2, <1>3 DEF Footing

LEMMA BeginFooting ==
  ASSUME Typed, Footing, NEW s \in Sessions, NEW p, NEW present, Begin(s, p, present),
         p.type # "purge" => p.add \cap p.remove = {},
         present \subseteq RowsOf(p.app),
         p.type = "create" => present = {}
  PROVE  Footing'
<1>1. /\ Live' = Live /\ UNCHANGED <<status, payload, rows>>
      /\ \A a : RequestsOf(a)' = RequestsOf(a) /\ RowsOf(a)' = RowsOf(a)
  BY DEF Begin, dbVars, Live, RequestsOf, RowsOf
<1>2. /\ session'[s].payload = p /\ session'[s].present = present
      /\ \A t \in Sessions \ {s} : session'[t] = session[t]
  BY DEF Begin, Typed, TypeOK
<1>3. Apart'
  BY <1>1, <1>2 DEF Footing, Apart
<1>4. StillThere'
  BY <1>1, <1>2 DEF Footing, StillThere
<1>5. RowsAsked' /\ InPlace' /\ SuccessIsApplied'
  BY <1>1 DEF Footing, RowsAsked, InPlace, SuccessIsApplied
<1> QED BY <1>3, <1>4, <1>5 DEF Footing

LEMMA ReceiveFooting ==
  ASSUME Typed, Footing, NEW s \in Sessions, Receive(s)
  PROVE  Footing'
<1>0. PICK a \in Apps :
        \/ \E k \in Keys, d \in Deltas : ReceiveCreate(s, a, k, d) \/ ReceiveUpdate(s, a, k, d)
        \/ \E k \in Keys, e \in Envs : ReceiveDelete(s, a, k, e)
        \/ ReceivePurge(s, a)
  BY DEF Receive
<1>1. ASSUME NEW k \in Keys, NEW d \in Deltas, ReceiveCreate(s, a, k, d)
      PROVE  Footing'
  <2> DEFINE p == [type |-> "create", app |-> a, key |-> k, add |-> d.add, remove |-> {}]
  <2>1. Begin(s, p, {}) /\ p.add \cap p.remove = {}
    BY <1>1 DEF ReceiveCreate
  <2> QED BY <2>1, BeginFooting
<1>2. ASSUME NEW k \in Keys, NEW d \in Deltas, ReceiveUpdate(s, a, k, d)
      PROVE  Footing'
  <2> DEFINE p == [type |-> "update", app |-> a, key |-> k, add |-> d.add,
                   remove |-> d.remove]
  <2>1. /\ Begin(s, p, RowsOf(a)) /\ p.add \cap p.remove = {}
        /\ p.app = a /\ p.type # "create"
    BY <1>2 DEF ReceiveUpdate
  <2> QED BY <2>1, BeginFooting
<1>3. ASSUME NEW k \in Keys, NEW e \in Envs, ReceiveDelete(s, a, k, e)
      PROVE  Footing'
  <2> DEFINE p == [type |-> "delete", app |-> a, key |-> k, add |-> {},
                   remove |-> {x \in Services : EnvOf[x] = e}]
  <2>1. /\ Begin(s, p, RowsOf(a)) /\ p.add \cap p.remove = {}
        /\ p.app = a /\ p.type # "create"
    BY <1>3 DEF ReceiveDelete
  <2> QED BY <2>1, BeginFooting
<1>4. CASE ReceivePurge(s, a)
  <2> DEFINE p == [type |-> "purge", app |-> a]
  <2>1. Begin(s, p, {}) /\ p.type = "purge"
    BY <1>4 DEF ReceivePurge
  <2> QED BY <2>1, BeginFooting
<1> QED BY <1>0, <1>1, <1>2, <1>3, <1>4

\* A report that is no success moves no row.
LEMMA ReportFooting ==
  ASSUME Typed, Footing, NEW r \in RequestIds, NEW st \in Reports, Applied(r, st),
         st # "success", UNCHANGED session
  PROVE  Footing'
<1>1. /\ Live' = Live /\ UNCHANGED <<payload, rows>>
      /\ \A a : RequestsOf(a)' = RequestsOf(a) /\ RowsOf(a)' = RowsOf(a)
      /\ status'[r] = st /\ \A q \in RequestIds \ {r} : status'[q] = status[q]
  BY AppliedFacts DEF RowsOf
<1>2. \A q \in RequestIds : status'[q] = "success" <=> status[q] = "success"
  BY <1>1 DEF Applied, Terminal
<1>3. \A q \in RequestIds : status'[q] \notin Terminal => status[q] \notin Terminal
  BY <1>1 DEF Applied
<1>4. Apart' /\ StillThere' /\ RowsAsked'
  BY <1>1 DEF Footing, Apart, StillThere, RowsAsked
<1>5. InPlace'
  BY <1>1, <1>3 DEF Footing, InPlace, Live
<1>6. SuccessIsApplied'
  BY <1>1, <1>2 DEF Footing, SuccessIsApplied, RequestsOf, Live
<1> QED BY <1>4, <1>5, <1>6 DEF Footing

\* A success takes the rows its request removes, and those only.
LEMMA SuccessFooting ==
  ASSUME Typed, Serial, Footing, NEW r \in RequestIds, Applied(r, "success"),
         UNCHANGED session
  PROVE  Footing'
<1> DEFINE b == payload[r].app
           Gone(a, x) == a = b /\ x \in payload[r].remove
<1>0. "success" \in Reports /\ r \in Live /\ status[r] \notin Terminal
  BY DEF Applied, Reports, Terminal
<1>1. /\ Live' = Live /\ UNCHANGED payload
      /\ \A a : RequestsOf(a)' = RequestsOf(a)
      /\ status'[r] = "success" /\ \A q \in RequestIds \ {r} : status'[q] = status[q]
      /\ \A a \in Apps, x \in Services :
           rows'[a][x] = IF Gone(a, x) THEN 0 ELSE rows[a][x]
  BY <1>0, AppliedFacts
<1>2. \A q \in Live : payload[q] \in Payload
  BY DEF Typed, Shape
<1>3. \A q \in RequestsOf(b) : q # r => q < r /\ status[q] \in Terminal
  BY <1>0, AppliedIsYoungest
<1>4. r \in RequestsOf(b) /\ b \in Apps
  BY <1>0, <1>2 DEF RequestsOf, Payload
<1>5. \A a \in Apps \ {b} : RowsOf(a)' = RowsOf(a)
  BY <1>1 DEF RowsOf
<1> HIDE DEF Gone, b
<1>6. Apart' /\ RowsAsked'
  <2>1. \A a \in Apps, x \in Services : rows'[a][x] # 0 => rows'[a][x] = rows[a][x]
    BY <1>1
  <2> QED BY <1>1, <2>1 DEF Footing, Apart, RowsAsked, RowsOf
<1>7. StillThere'
  <2> SUFFICES ASSUME NEW s \in Sessions, session[s].pc = "checked"
               PROVE  /\ session[s].present \subseteq RowsOf(session[s].payload.app)'
                      /\ session[s].payload.type = "create" => session[s].present = {}
    BY DEF StillThere
  <2>1. /\ session[s].present \subseteq RowsOf(session[s].payload.app)
        /\ session[s].payload.type = "create" => session[s].present = {}
    BY DEF Footing, StillThere
  <2>2. CASE session[s].payload.type # "create"
    <3>1. session[s].payload.app # b
      BY <1>0, <1>4, <2>2 DEF Serial, StillQuiet
    <3>2. session[s].payload.app \in Apps
      BY CheckedPayload
    <3> QED BY <1>5, <2>1, <3>1, <3>2
  <2> QED BY <2>1, <2>2
<1>8. InPlace'
  <2> SUFFICES ASSUME NEW q \in Live, status'[q] \notin Terminal, NEW x \in payload[q].add
               PROVE  rows'[payload[q].app][x] # 0
    BY <1>1 DEF InPlace
  <2>1. q # r /\ status[q] \notin Terminal
    BY <1>1 DEF Live, Terminal
  <2>2. payload[q].app # b
    BY <1>3, <2>1 DEF RequestsOf
  <2>3. payload[q].app \in Apps /\ x \in Services
    BY <1>2 DEF Payload
  <2>4. rows[payload[q].app][x] # 0
    BY <2>1 DEF Footing, InPlace
  <2> QED BY <1>1, <2>2, <2>3, <2>4 DEF Gone
<1>9. SuccessIsApplied'
  <2> SUFFICES ASSUME NEW a \in Apps, NEW q \in RequestsOf(a), status'[q] = "success"
               PROVE  /\ \A x \in payload[q].remove : rows'[a][x] # 0 => rows'[a][x] > q
                      /\ \A x \in payload[q].add :
                           \/ rows'[a][x] # 0
                           \/ \E t \in RequestsOf(a) :
                                t > q /\ status'[t] = "success" /\ x \in payload[t].remove
    BY <1>1 DEF SuccessIsApplied
  <2>1. q \in Live /\ q \in RequestIds /\ payload[q] \in Payload /\ payload[q].app = a
    BY <1>2 DEF RequestsOf, Live
  <2>2. payload[q].add \subseteq Services /\ payload[q].remove \subseteq Services
    BY <2>1 DEF Payload
  <2>3. CASE q = r
    <3>1. a = b
      BY <2>1, <2>3 DEF b
    <3>2. \A x \in payload[r].remove : rows'[a][x] = 0
      BY <1>1, <2>2, <2>3, <3>1 DEF Gone
    <3>3. \A x \in payload[r].add : rows'[a][x] = rows[a][x] /\ rows[a][x] # 0
      <4>1. payload[r].add \cap payload[r].remove = {}
        BY <1>0 DEF Footing, Apart
      <4>2. \A x \in payload[r].add : rows[a][x] # 0
        BY <1>0, <2>1, <2>3 DEF Footing, InPlace
      <4> QED BY <1>1, <2>2, <2>3, <4>1, <4>2 DEF Gone
    <3> QED BY <2>3, <3>2, <3>3
  <2>4. CASE q # r
    <3>1. status[q] = "success"
      BY <1>1, <2>1, <2>4
    <3>2. /\ \A x \in payload[q].remove : rows[a][x] # 0 => rows[a][x] > q
          /\ \A x \in payload[q].add :
               \/ rows[a][x] # 0
               \/ \E t \in RequestsOf(a) :
                    t > q /\ status[t] = "success" /\ x \in payload[t].remove
      BY <3>1 DEF Footing, SuccessIsApplied
    <3>3. \A x \in payload[q].remove : rows'[a][x] # 0 => rows'[a][x] > q
      BY <1>1, <2>2, <3>2
    <3>4. ASSUME NEW x \in payload[q].add
          PROVE  \/ rows'[a][x] # 0
                 \/ \E t \in RequestsOf(a) :
                      t > q /\ status'[t] = "success" /\ x \in payload[t].remove
      <4>1. CASE rows[a][x] # 0 /\ Gone(a, x)
        <5>1. r \in RequestsOf(a) /\ x \in payload[r].remove /\ q < r
          BY <1>3, <1>4, <2>4, <4>1 DEF Gone
        <5>2. r > q
          BY <2>1, <5>1, ConstantsAssumption DEF RequestIds
        <5> QED BY <1>1, <5>1, <5>2
      <4>2. CASE rows[a][x] # 0 /\ ~Gone(a, x)
        BY <1>1, <2>2, <4>2
      <4>3. CASE rows[a][x] = 0
        <5>1. PICK t \in RequestsOf(a) :
                t > q /\ status[t] = "success" /\ x \in payload[t].remove
          BY <3>2, <4>3
        <5>2. status'[t] = "success"
          BY <1>1, <5>1 DEF RequestsOf, Live
        <5> QED BY <5>1, <5>2
      <4> QED BY <4>1, <4>2, <4>3
    <3> QED BY <3>3, <3>4
  <2> QED BY <2>3, <2>4
<1> QED BY <1>6, <1>7, <1>8, <1>9 DEF Footing

\* What a commit writes.
LEMMA CommitFacts ==
  ASSUME Typed, Integrity, NEW s \in Sessions, CommitRequest(s)
  PROVE  /\ session[s].payload \in Payload /\ session[s].payload.app \in Apps
         /\ nextId \in RequestIds /\ nextId \in Nat \ {0}
         /\ Live' = Live \cup {nextId} /\ nextId \notin Live
         /\ \A r \in Live : /\ r \in Nat /\ r < nextId
                            /\ payload'[r] = payload[r] /\ status'[r] = status[r]
         /\ payload'[nextId] = session[s].payload /\ status'[nextId] = "pending"
         /\ \A a \in Apps, x \in Services :
              rows'[a][x] = IF /\ a = session[s].payload.app
                               /\ x \in session[s].payload.add \ session[s].present
                              THEN nextId ELSE rows[a][x]
<1>1. /\ session[s].payload \in Payload /\ session[s].payload.app \in Apps
      /\ nextId \in RequestIds /\ nextId \in Nat \ {0}
      /\ Live' = Live \cup {nextId}
      /\ \A r \in RequestIds : r # nextId => payload'[r] = payload[r]
      /\ payload'[nextId] = session[s].payload
  BY CommitKeeps, ConstantsAssumption DEF Payload, RequestIds
<1>2. \A r \in Live : r \in RequestIds /\ r \in Nat /\ r < nextId
  BY ConstantsAssumption DEF Integrity, IdsIssued, Live, RequestIds
<1>3. \A r \in Live : r # nextId
  BY <1>1, <1>2
<1>4. /\ \A r \in RequestIds : r # nextId => status'[r] = status[r]
      /\ status'[nextId] = "pending"
  BY <1>1 DEF CommitRequest, Typed, TypeOK
<1>5. \A a \in Apps, x \in Services :
        rows'[a][x] = IF /\ a = session[s].payload.app
                         /\ x \in session[s].payload.add \ session[s].present
                        THEN nextId ELSE rows[a][x]
  BY <1>1 DEF CommitRequest, AddRows, Typed, TypeOK
<1> QED BY <1>1, <1>2, <1>3, <1>4, <1>5

LEMMA CommitFooting ==
  ASSUME Typed, Integrity, Footing, NEW s \in Sessions, CommitRequest(s)
  PROVE  Footing'
<1> DEFINE p == session[s].payload
           new == p.add \ session[s].present
<1>1. /\ p \in Payload /\ p.app \in Apps
      /\ nextId \in RequestIds /\ nextId \in Nat \ {0}
      /\ Live' = Live \cup {nextId} /\ nextId \notin Live
      /\ \A r \in Live : /\ r \in Nat /\ r < nextId
                         /\ payload'[r] = payload[r] /\ status'[r] = status[r]
      /\ payload'[nextId] = p /\ status'[nextId] = "pending"
      /\ \A a \in Apps, x \in Services :
           rows'[a][x] = IF a = p.app /\ x \in new THEN nextId ELSE rows[a][x]
  BY CommitFacts
<1>2. /\ session[s].pc = "checked" /\ p.type # "purge"
      /\ p.add \cap p.remove = {} /\ session[s].present \subseteq RowsOf(p.app)
  BY DEF CommitRequest, Footing, Apart, StillThere
<1>3. /\ session'[s].pc = "committed"
      /\ \A t \in Sessions \ {s} : session'[t] = session[t]
  BY DEF CommitRequest, Typed, TypeOK, Session
<1>4. \A a \in Apps, x \in Services : rows[a][x] # 0 => rows'[a][x] # 0
  BY <1>1
<1>5. p.add \subseteq Services /\ \A r \in Live : payload[r] \in Payload
  BY <1>1 DEF Payload, Typed, Shape
<1> HIDE DEF p, new
<1>6. Apart'
  <2>1. \A r \in Live' : payload'[r].add \cap payload'[r].remove = {}
    BY <1>1, <1>2 DEF Footing, Apart
  <2>2. \A t \in Sessions : session'[t].pc = "checked" => session'[t] = session[t]
    BY <1>3
  <2> QED BY <2>1, <2>2 DEF Footing, Apart
<1>7. StillThere'
  <2>1. \A a \in Apps : RowsOf(a) \subseteq {x \in Services : rows'[a][x] # 0}
    BY <1>4 DEF RowsOf
  <2>2. \A t \in Sessions : session'[t].pc = "checked" =>
            session'[t] = session[t] /\ session[t].payload.app \in Apps
    BY <1>3, CheckedPayload
  <2> QED BY <2>1, <2>2 DEF Footing, StillThere, RowsOf
<1>8. RowsAsked'
  <2> SUFFICES ASSUME NEW a \in Apps, NEW x \in Services, rows'[a][x] # 0
               PROVE  x \in payload'[rows'[a][x]].add
    BY DEF RowsAsked, RowsOf
  <2>1. CASE a = p.app /\ x \in new
    BY <1>1, <2>1 DEF new
  <2>2. CASE ~(a = p.app /\ x \in new)
    <3>1. rows'[a][x] = rows[a][x] /\ x \in RowsOf(a)
      BY <1>1, <2>2 DEF RowsOf
    <3>2. rows[a][x] \in Live
      BY <3>1 DEF Integrity, ReferentialIntegrity, Anchored, RequestsOf
    <3> QED BY <1>1, <3>1, <3>2 DEF Footing, RowsAsked
  <2> QED BY <2>1, <2>2
<1>9. InPlace'
  <2> SUFFICES ASSUME NEW r \in Live', status'[r] \notin Terminal, NEW x \in payload'[r].add
               PROVE  rows'[payload'[r].app][x] # 0
    BY DEF InPlace
  <2>1. CASE r = nextId
    <3>1. CASE x \in new
      BY <1>1, <1>5, <2>1, <3>1
    <3>2. CASE x \notin new
      <4>1. x \in RowsOf(p.app)
        BY <1>1, <1>2, <2>1, <3>2 DEF new
      <4> QED BY <1>1, <1>4, <2>1, <4>1 DEF RowsOf
    <3> QED BY <3>1, <3>2
  <2>2. CASE r # nextId
    <3>1. r \in Live /\ payload'[r] = payload[r] /\ status'[r] = status[r]
      BY <1>1, <2>2
    <3>2. rows[payload[r].app][x] # 0
      BY <3>1 DEF Footing, InPlace
    <3>3. payload[r].app \in Apps /\ x \in Services
      BY <1>5, <3>1 DEF Payload
    <3> QED BY <1>4, <3>1, <3>2, <3>3
  <2> QED BY <2>1, <2>2
<1>10. SuccessIsApplied'
  <2> SUFFICES ASSUME NEW a \in Apps, NEW q \in RequestsOf(a)', status'[q] = "success"
               PROVE  /\ \A x \in payload'[q].remove : rows'[a][x] # 0 => rows'[a][x] > q
                      /\ \A x \in payload'[q].add :
                           \/ rows'[a][x] # 0
                           \/ \E t \in RequestsOf(a)' :
                                t > q /\ status'[t] = "success" /\ x \in payload'[t].remove
    BY DEF SuccessIsApplied
  <2>1. q \in Live /\ payload'[q] = payload[q] /\ status[q] = "success"
    BY <1>1 DEF RequestsOf
  <2>2. q \in RequestsOf(a) /\ \A t \in RequestsOf(a) : t \in RequestsOf(a)'
    BY <1>1, <2>1 DEF RequestsOf
  <2>3. payload[q].add \subseteq Services /\ payload[q].remove \subseteq Services
    BY <1>5, <2>1 DEF Payload
  <2>4. /\ \A x \in payload[q].remove : rows[a][x] # 0 => rows[a][x] > q
        /\ \A x \in payload[q].add :
             \/ rows[a][x] # 0
             \/ \E t \in RequestsOf(a) :
                  t > q /\ status[t] = "success" /\ x \in payload[t].remove
    BY <2>1, <2>2 DEF Footing, SuccessIsApplied
  <2>5. nextId > q
    BY <1>1, <2>1
  <2>6. \A x \in payload[q].remove : rows'[a][x] # 0 => rows'[a][x] > q
    BY <1>1, <2>3, <2>4, <2>5
  <2>7. ASSUME NEW x \in payload[q].add, rows'[a][x] = 0
        PROVE  \E t \in RequestsOf(a)' :
                 t > q /\ status'[t] = "success" /\ x \in payload'[t].remove
    <3>1. rows[a][x] = 0
      BY <1>4, <2>3, <2>7
    <3>2. PICK t \in RequestsOf(a) : t > q /\ status[t] = "success" /\ x \in payload[t].remove
      BY <2>4, <3>1
    <3>3. t \in Live
      BY DEF RequestsOf
    <3> QED BY <1>1, <2>2, <3>2, <3>3
  <2> QED BY <2>1, <2>6, <2>7
<1> QED BY <1>6, <1>7, <1>8, <1>9, <1>10 DEF Footing

LEMMA PurgeFooting ==
  ASSUME Typed, Integrity, Footing, NEW s \in Sessions, CommitPurge(s)
  PROVE  Footing'
<1> DEFINE b == session[s].payload.app
<1>1. /\ b \in Apps
      /\ Live' = Live \ RequestsOf(b)
      /\ \A r \in Live' : payload'[r] = payload[r]
      /\ \A a \in Apps \ {b} : RequestsOf(a)' = RequestsOf(a)
      /\ \A a \in Apps : a = b => RequestsOf(a)' = {}
  BY PurgeKeeps
<1>2. rows' = rows /\ RowsOf(b) = {} /\ \A a : RowsOf(a)' = RowsOf(a)
  BY DEF CommitPurge, CanPurge, RowsOf
<1>3. \A r \in Live' : r \in Live /\ status'[r] = status[r]
  BY <1>1 DEF CommitPurge, Live
<1>4. \A t \in Sessions : session'[t].pc = "checked" => session'[t] = session[t]
  BY DEF CommitPurge, Typed, TypeOK, IdleSession
<1>5. Apart' /\ StillThere'
  BY <1>1, <1>2, <1>3, <1>4 DEF Footing, Apart, StillThere
<1> HIDE DEF b
<1>6. RowsAsked'
  <2> SUFFICES ASSUME NEW a \in Apps, NEW x \in RowsOf(a)
               PROVE  x \in payload'[rows[a][x]].add
    BY <1>2 DEF RowsAsked
  <2>1. a # b
    BY <1>2
  <2>2. rows[a][x] \in RequestsOf(a)
    BY DEF Integrity, ReferentialIntegrity, Anchored
  <2>3. rows[a][x] \in Live'
    BY <1>1, <2>1, <2>2 DEF RequestsOf
  <2> QED BY <1>1, <2>3 DEF Footing, RowsAsked
<1>7. InPlace'
  BY <1>1, <1>2, <1>3 DEF Footing, InPlace
<1>8. SuccessIsApplied'
  <2> SUFFICES ASSUME NEW a \in Apps, NEW q \in RequestsOf(a)', status'[q] = "success"
               PROVE  /\ \A x \in payload'[q].remove : rows'[a][x] # 0 => rows'[a][x] > q
                      /\ \A x \in payload'[q].add :
                           \/ rows'[a][x] # 0
                           \/ \E t \in RequestsOf(a)' :
                                t > q /\ status'[t] = "success" /\ x \in payload'[t].remove
    BY DEF SuccessIsApplied
  <2>1. a # b /\ RequestsOf(a)' = RequestsOf(a)
    BY <1>1
  <2>2. \A t \in RequestsOf(a) : payload'[t] = payload[t] /\ status'[t] = status[t]
    BY <1>1, <1>3, <2>1 DEF RequestsOf
  <2>3. q \in RequestsOf(a) /\ status[q] = "success" /\ payload'[q] = payload[q]
    BY <2>1, <2>2
  <2>4. /\ \A x \in payload[q].remove : rows[a][x] # 0 => rows[a][x] > q
        /\ \A x \in payload[q].add :
             \/ rows[a][x] # 0
             \/ \E t \in RequestsOf(a) :
                  t > q /\ status[t] = "success" /\ x \in payload[t].remove
    BY <2>3 DEF Footing, SuccessIsApplied
  <2> QED BY <1>2, <2>1, <2>2, <2>3, <2>4
<1> QED BY <1>5, <1>6, <1>7, <1>8 DEF Footing

LEMMA FinishFooting ==
  ASSUME Typed, Integrity, Footing, NEW s \in Sessions, Finish(s)
  PROVE  Footing'
<1>1. CASE Rollback(s) \/ Publish(s) \/ PublishFails(s)
  <2>1. session' = [session EXCEPT ![s] = IdleSession] /\ UNCHANGED dbVars
    BY <1>1 DEF Rollback, Publish, PublishFails
  <2>2. \A t \in Sessions : session'[t].pc = "checked" => session'[t] = session[t]
    BY <2>1 DEF Typed, TypeOK, IdleSession
  <2> QED BY <2>1, <2>2, UnchangedFooting
<1> QED BY <1>1, CommitFooting, PurgeFooting DEF Finish

LEMMA InitFooting == Init => Footing
  BY DEF Init, Footing, Apart, RowsAsked, StillThere, InPlace, SuccessIsApplied, RequestsOf,
         RowsOf, Live, IdleSession, NoRows

LEMMA NextFooting ==
  Typed /\ Integrity /\ Serial /\ Footing /\ [Next /\ Orderly]_vars => Footing'
<1> SUFFICES ASSUME Typed, Integrity, Serial, Footing, [Next /\ Orderly]_vars PROVE Footing'
  OBVIOUS
<1>1. CASE UNCHANGED <<session, dbVars>>
  BY <1>1, UnchangedFooting
<1>2. ASSUME NEW s \in Sessions, Receive(s) \/ Finish(s)
      PROVE  Footing'
  BY <1>2, ReceiveFooting, FinishFooting
<1>3. ASSUME NEW r \in RequestIds, NEW st \in Reports, Applied(r, st), UNCHANGED session
      PROVE  Footing'
  BY <1>3, ReportFooting, SuccessFooting
<1> QED BY <1>1, <1>2, <1>3, OrderlySteps

LEMMA AlwaysFooting == OrderlySpec => []Footing
  BY InitFooting, NextFooting, AlwaysSerial, PTL DEF OrderlySpec

\* A SUCCESS keeps its promise: what the request removed is gone and what it
\* added is there, until a later request says otherwise.  Under every order of
\* redeliveries, crashes, retries, refused and late callbacks, for any number of
\* calls that take turns app by app.
THEOREM SuccessApplied == OrderlySpec => []SuccessIsApplied
<1>1. Footing => SuccessIsApplied
  BY DEF Footing
<1> QED BY <1>1, AlwaysFooting, PTL

\* The purge of a callback never reaches a row that a younger request added:
\* the request it runs for is the youngest of the app, and did not add what it
\* removes.
THEOREM PurgesAreYounger == OrderlySpec => OnlyYoungerRequestsPurge
<1> DEFINE Younger ==
             \A a \in Apps, x \in Services :
               rows[a][x] # 0 /\ rows'[a][x] = 0 =>
                 \E r \in RequestIds :
                   /\ r > rows[a][x] /\ status'[r] = "success"
                   /\ payload[r].app = a /\ x \in payload[r].remove
<1>1. Typed /\ Integrity /\ Serial /\ Footing /\ [Next /\ Orderly]_vars => [Younger]_vars
  <2> SUFFICES ASSUME Typed, Integrity, Serial, Footing, [Next /\ Orderly]_vars,
                      NEW a \in Apps, NEW x \in Services, rows[a][x] # 0, rows'[a][x] = 0
               PROVE  \E r \in RequestIds :
                        /\ r > rows[a][x] /\ status'[r] = "success"
                        /\ payload[r].app = a /\ x \in payload[r].remove
    OBVIOUS
  <2>1. ~UNCHANGED dbVars
    BY DEF dbVars
  <2>2. ASSUME NEW s \in Sessions PROVE ~Receive(s)
    BY <2>1 DEF Receive, ReceiveCreate, ReceiveUpdate, ReceiveDelete, ReceivePurge, Begin
  <2>3. ASSUME NEW s \in Sessions PROVE ~Finish(s)
    <3>1. ~CommitRequest(s)
      BY CommitFacts
    <3>2. ~CommitPurge(s) /\ ~Rollback(s) /\ ~Publish(s) /\ ~PublishFails(s)
      BY <2>1 DEF CommitPurge, Rollback, Publish, PublishFails
    <3> QED BY <3>1, <3>2 DEF Finish
  <2>4. PICK r \in RequestIds, st \in Reports : Applied(r, st)
    BY <2>1, <2>2, <2>3, OrderlySteps
  <2>5. /\ st = "success" /\ payload[r].app = a /\ x \in payload[r].remove
        /\ status'[r] = st
    BY <2>4, AppliedFacts
  <2>6. r \in Live /\ status[r] \notin Terminal
    BY <2>4, <2>5 DEF Applied
  <2>7. rows[a][x] \in RequestsOf(a) /\ x \in RowsOf(a)
    BY DEF Integrity, ReferentialIntegrity, Anchored, RowsOf
  <2>8. rows[a][x] # r
    BY <2>5, <2>6, <2>7 DEF Footing, Apart, RowsAsked
  <2>9. rows[a][x] < r
    BY <2>5, <2>6, <2>7, <2>8, AppliedIsYoungest
  <2>10. r > rows[a][x]
    BY <2>7, <2>9, ConstantsAssumption DEF RequestsOf, Live, RequestIds
  <2> QED BY <2>5, <2>10
<1> QED BY <1>1, AlwaysSerial, AlwaysFooting, PTL DEF OrderlySpec, OnlyYoungerRequestsPurge

-----------------------------------------------------------------------------
(* A request nobody acts for                                                 *)

\* Nobody new takes r up.
NobodyNew(r) ==
    /\ exec'[r] = exec[r] /\ receives'[r] = receives[r]
    /\ r \in queue' => r \in queue
    /\ \A st : <<r, st>> \in late' => <<r, st>> \in late
    /\ \A t \in Sessions : session'[t].pc = "committed" /\ session'[t].id = r
                             => session[t].pc = "committed" /\ session[t].id = r

\* Nothing happens to the desired state of the app of r.
AppStands(r) ==
    LET a == payload[r].app
    IN  /\ payload'[r] = payload[r]
        /\ RequestsOf(a)' = RequestsOf(a)
        /\ owner'[a] = owner[a] /\ rows'[a] = rows[a]

LEMMA StaysAbandoned ==
  ASSUME NEW r \in RequestIds, Abandoned(r), NobodyNew(r), status'[r] = status[r]
  PROVE  Abandoned(r)'
<1> DEFINE committed == \E s \in Sessions : session[s].pc = "committed" /\ session[s].id = r
           underway  == \E st \in Reports : <<r, st>> \in late
<1>1. status[r] \in InFlight /\ exec[r].state \notin OpenStates /\ ~committed
      /\ ~underway /\ ~Receivable(r)
  BY DEF Abandoned, InHand
<1>2. ~committed' /\ ~underway' /\ ~Receivable(r)'
  BY <1>1 DEF NobodyNew, Receivable
<1> QED BY <1>1, <1>2 DEF Abandoned, InHand, NobodyNew

\* Commits and purges are for other applications: the call that would touch this
\* one has seen the request in flight, or would see it.
LEMMA SessionsLeaveAbandoned ==
  ASSUME Typed, Integrity, Serial, Typed', NEW r \in RequestIds, Abandoned(r),
         NEW s \in Sessions, Receive(s) \/ Finish(s)
  PROVE  NobodyNew(r) /\ status'[r] = status[r] /\ AppStands(r)
<1>0. /\ r \in Live /\ payload[r].app \in Apps /\ status[r] \notin Terminal
      /\ \A t \in Sessions : ~(session[t].pc = "committed" /\ session[t].id = r)
  BY DEF Abandoned, InHand, InFlight, Terminal, Live, Typed, Shape, Payload
<1> PICK a \in Apps : a = payload[r].app
  BY <1>0
<1>1. r \in RequestsOf(a)
  BY <1>0 DEF RequestsOf
<1>2. owner[a] # 0
  BY <1>1 DEF Integrity, ReferentialIntegrity, Anchored
<1>3. UNCHANGED <<exec, late, receives>>
  BY DEF Receive, ReceiveCreate, ReceiveUpdate, ReceiveDelete, ReceivePurge, Begin, Finish,
         CommitRequest, CommitPurge, Rollback, Publish, PublishFails, sfnVars, sqsVars
<1>4. ASSUME UNCHANGED dbVars
      PROVE  status'[r] = status[r] /\ AppStands(r)
  BY <1>4 DEF dbVars, AppStands, RequestsOf, Live
<1>5. CASE Receive(s)
  <2>1. UNCHANGED <<dbVars, queue>> /\ \E p, present : Begin(s, p, present)
    BY <1>5 DEF Receive, ReceiveCreate, ReceiveUpdate, ReceiveDelete, ReceivePurge, Begin,
                sqsVars
  <2>2. \A t \in Sessions : session'[t].pc = "committed" => session'[t] = session[t]
    BY <2>1 DEF Begin, Typed, TypeOK
  <2> QED BY <1>3, <1>4, <2>1, <2>2 DEF NobodyNew
<1>6. CASE Rollback(s) \/ Publish(s) \/ PublishFails(s)
  <2>1. session' = [session EXCEPT ![s] = IdleSession] /\ UNCHANGED dbVars
    BY <1>6 DEF Rollback, Publish, PublishFails
  <2>2. \A t \in Sessions : session'[t].pc = "committed" => session'[t] = session[t]
    BY <2>1 DEF Typed, TypeOK, IdleSession
  <2>3. r \in queue' => r \in queue
    BY <1>0, <1>6 DEF Rollback, Publish, PublishFails, sqsVars
  <2> QED BY <1>3, <1>4, <2>1, <2>2, <2>3 DEF NobodyNew
<1>7. CASE CommitRequest(s)
  <2> DEFINE p == session[s].payload
  <2>1. /\ p \in Payload /\ p.app \in Apps /\ nextId # r
        /\ Live' = Live \cup {nextId} /\ nextId \notin Live
        /\ \A q \in Live : payload'[q] = payload[q] /\ status'[q] = status[q]
        /\ payload'[nextId] = p
        /\ \A b \in Apps, x \in Services :
             rows'[b][x] = IF b = p.app /\ x \in p.add \ session[s].present
                             THEN nextId ELSE rows[b][x]
    BY <1>0, <1>7, CommitFacts
  <2>2. p.app # a
    <3>1. CASE p.type = "create"
      BY <1>2, <1>7, <3>1 DEF CommitRequest, ConstraintsHold
    <3>2. CASE p.type # "create"
      BY <1>0, <1>1, <1>7, <3>2 DEF Serial, StillQuiet, CommitRequest
    <3> QED BY <3>1, <3>2
  <2>3. RequestsOf(a)' = RequestsOf(a)
    BY <2>1, <2>2 DEF RequestsOf
  <2>4. rows'[a] = rows[a]
    <3>1. \A x \in Services : rows'[a][x] = rows[a][x]
      BY <1>1, <2>1, <2>2
    <3>2. rows[a] \in [Services -> Creators] /\ rows'[a] \in [Services -> Creators]
      BY <1>1 DEF Typed, TypeOK
    <3> QED BY <3>1, <3>2
  <2>5. owner'[a] = owner[a]
    BY <1>1, <1>7, <2>1, <2>2 DEF CommitRequest, Typed, TypeOK
  <2>6. queue' = queue /\ session'[s].id = nextId
        /\ \A t \in Sessions \ {s} : session'[t] = session[t]
    BY <1>7 DEF CommitRequest, sqsVars, Typed, TypeOK, Session
  <2> QED BY <1>0, <1>3, <2>1, <2>3, <2>4, <2>5, <2>6 DEF NobodyNew, AppStands
<1>8. CASE CommitPurge(s)
  <2> DEFINE b == session[s].payload.app
  <2>1. b \in Apps /\ \A c \in Apps \ {b} : RequestsOf(c)' = RequestsOf(c)
    BY <1>8, PurgeKeeps
  <2>2. b # a
    BY <1>0, <1>1, <1>8 DEF Serial, StillQuiet, CommitPurge
  <2>3. /\ session' = [session EXCEPT ![s] = IdleSession] /\ UNCHANGED <<rows, queue>>
        /\ owner' = [owner EXCEPT ![b] = 0]
    BY <1>8 DEF CommitPurge, sqsVars
  <2>4. \A t \in Sessions : session'[t].pc = "committed" => session'[t] = session[t]
    BY <2>3 DEF Typed, TypeOK, IdleSession
  <2>5. status'[r] = status[r]
    <3>1. r \notin RequestsOf(b)
      BY <2>2 DEF RequestsOf
    <3> QED BY <1>8, <3>1 DEF CommitPurge
  <2>6. owner'[a] = owner[a]
    BY <1>1, <2>2, <2>3 DEF Typed, TypeOK
  <2>7. payload'[r] = payload[r]
    <3>1. r \in Live'
      BY <1>0, <2>5 DEF Live
    <3> QED BY <1>8, <3>1, PurgeKeeps
  <2> QED BY <1>3, <2>1, <2>2, <2>3, <2>4, <2>5, <2>6, <2>7 DEF NobodyNew, AppStands
<1> QED BY <1>5, <1>6, <1>7, <1>8 DEF Finish

\* A callback for another request of the app repeats an end: the one nobody acts
\* for is the only one that has not ended.
LEMMA CallbacksLeaveAbandoned ==
  ASSUME Typed, Serial, Typed', NEW r \in RequestIds, status[r] \in InFlight,
         NEW q \in RequestIds \ {r}, NEW st \in Reports, Applied(q, st)
  PROVE  AppStands(r)
<1>0. payload[r].app \in Apps /\ r \in Live /\ status[r] \notin Terminal
  BY DEF InFlight, Terminal, Live, Typed, Shape, Payload
<1> PICK a \in Apps : a = payload[r].app
  BY <1>0
<1>1. r \in RequestsOf(a)
  BY <1>0 DEF RequestsOf
<1>2. /\ RequestsOf(a)' = RequestsOf(a) /\ UNCHANGED <<owner, payload>>
      /\ \A x \in Services :
           rows'[a][x] = IF st = "success" /\ a = payload[q].app /\ x \in payload[q].remove
                           THEN 0 ELSE rows[a][x]
  BY AppliedFacts
<1>3. a = payload[q].app => st # "success"
  BY <1>0, <1>1, AppliedIsYoungest DEF Applied
<1>4. \A x \in Services : rows'[a][x] = rows[a][x]
  BY <1>2, <1>3
<1>5. rows[a] \in [Services -> Creators] /\ rows'[a] \in [Services -> Creators]
  BY DEF Typed, TypeOK
<1>6. rows'[a] = rows[a]
  BY <1>4, <1>5
<1> QED BY <1>2, <1>6 DEF AppStands

LEMMA RunsLeaveAbandoned ==
  ASSUME Typed, Serial, Typed', NothingAfterTheEnd, NEW r \in RequestIds, Abandoned(r),
         NEW q \in RequestIds,
         \/ Consume(q) \/ Work(q) \/ Transition(q) \/ Crash(q) \/ Retry(q)
         \/ \E st \in Reports : ApplyLate(q, st)
  PROVE  NobodyNew(r) /\ status'[r] = status[r] /\ AppStands(r)
<1>1. /\ status[r] \in InFlight /\ exec[r].state \notin OpenStates /\ ~Receivable(r)
      /\ \A st \in Reports : <<r, st>> \notin late
  BY DEF Abandoned, InHand
<1>2. CASE q = r
  <2>1. ~Work(r) /\ ~Transition(r) /\ ~Crash(r) /\ ~Retry(r)
    BY <1>1 DEF Work, GetDetails, GetDetailsFails, ReportStarted, DoWork, WorkFails, Report,
                ReportPartial, ReportFailure, Poll, PollFails, Running, OpenStates, Transition,
                Crash, Retry
  <2>2. \A st \in Reports : ~ApplyLate(r, st)
    BY <1>1 DEF ApplyLate
  <2>3. DeadLetter(r)
    BY <1>1, <1>2, <2>1, <2>2 DEF Consume, Deliver, DeliverAgain, DeliverFails
  <2> QED BY <2>3 DEF DeadLetter, NobodyNew, AppStands, RequestsOf, Live, dbVars
<1>3. CASE q # r
  <2>1. /\ exec'[r] = exec[r] /\ status'[r] = status[r]
        /\ queue' \subseteq queue /\ UNCHANGED session
        /\ \A m \in late' : m \in late \/ m[1] = q
    BY <1>3, QuietSteps DEF Quiet, Serial
  <2>2. receives'[r] = receives[r]
    <3>1. CASE Consume(q)
      BY <1>3, <3>1 DEF Consume, Deliver, DeliverAgain, DeliverFails, DeadLetter, Typed, TypeOK
    <3>2. CASE Work(q) \/ Transition(q)
      BY <3>2, RunStaysStarted DEF sqsVars
    <3>3. CASE Crash(q) \/ Retry(q) \/ \E st \in Reports : ApplyLate(q, st)
      BY <3>3 DEF Crash, Retry, ApplyLate, sqsVars
    <3> QED BY <3>1, <3>2, <3>3
  <2>3. NobodyNew(r)
    BY <1>3, <2>1, <2>2 DEF NobodyNew
  <2>4. CASE UNCHANGED dbVars
    BY <2>1, <2>3, <2>4 DEF AppStands, RequestsOf, Live, dbVars
  <2>5. ASSUME NEW st \in Reports, Applied(q, st)
        PROVE  AppStands(r)
    BY <1>1, <1>3, <2>5, CallbacksLeaveAbandoned
  <2> QED BY <2>1, <2>3, <2>4, <2>5, CallbackApplied DEF Serial
<1> QED BY <1>2, <1>3

\* A request that nobody acts for any more (its publish failed, its message went
\* to the dead-letter queue, its execution ended unheard) blocks its application
\* for good: no update, delete or purge is accepted, no callback of an earlier
\* request reaches its rows, and nothing in the code would take the request up
\* again.
THEOREM AbandonedForGood == OrderlySpec => AbandonedBlocks
<1> DEFINE Blocked == \A r \in RequestIds :
                        Abandoned(r) =>
                          LET a == payload[r].app
                          IN  /\ Abandoned(r)' /\ status'[r] = status[r]
                              /\ RequestsOf(a)' = RequestsOf(a)
                              /\ owner'[a] = owner[a] /\ rows'[a] = rows[a]
<1>1. Typed /\ Integrity /\ Serial /\ Typed' /\ [Next /\ Orderly]_vars => [Blocked]_vars
  <2> SUFFICES ASSUME Typed, Integrity, Serial, Typed', Next, Orderly,
                      NEW r \in RequestIds, Abandoned(r)
               PROVE  /\ Abandoned(r)' /\ status'[r] = status[r] /\ AppStands(r)
    BY DEF AppStands
  <2>1. NobodyNew(r) /\ status'[r] = status[r] /\ AppStands(r)
    BY SessionsLeaveAbandoned, RunsLeaveAbandoned DEF Next, Orderly
  <2> QED BY <2>1, StaysAbandoned
<1> QED BY <1>1, AlwaysSerial, PTL DEF OrderlySpec, AbandonedBlocks

-----------------------------------------------------------------------------
(* The refinement of AppReconciliation                                       *)

\* The request an app is busy with: CHOOSE has at most one to choose from.
BusyWith(a, r) == InFlightOf(a) = {r} /\ Busy[a] = r /\ Plan[a] = payload[r].remove
Idle(a)        == InFlightOf(a) = {} /\ Busy[a] = 0 /\ Plan[a] = {}

LEMMA BusyOrIdle ==
  Typed /\ Serial => \A a \in Apps : /\ InFlightOf(a) = {} => Idle(a)
                                     /\ \A r \in InFlightOf(a) : BusyWith(a, r)
<1> SUFFICES ASSUME Typed, Serial, NEW a \in Apps
             PROVE  /\ InFlightOf(a) = {} => Idle(a)
                    /\ \A r \in InFlightOf(a) : BusyWith(a, r)
  OBVIOUS
<1>1. InFlightOf(a) = {} => Idle(a)
  BY DEF Idle, Busy, Plan
<1>2. ASSUME NEW r \in InFlightOf(a)
      PROVE  BusyWith(a, r)
  <2>1. r \in Live /\ status[r] \notin Terminal /\ payload[r].app = a
    BY DEF InFlightOf, RequestsOf, InFlight, Terminal
  <2>2. \A q \in RequestsOf(a) : q # r => status[q] \in Terminal
    BY <2>1, AppliedIsYoungest
  <2>3. InFlightOf(a) = {r}
    BY <2>2 DEF InFlightOf, InFlight, Terminal
  <2>4. Busy[a] = r
    BY <2>3 DEF Busy
  <2>5. r # 0
    BY <2>1, ConstantsAssumption DEF Live, RequestIds
  <2> QED BY <2>3, <2>4, <2>5 DEF BusyWith, Plan
<1> QED BY <1>1, <1>2

LEMMA BusyOrIdleNext ==
  (Typed /\ Serial => \A a \in Apps : /\ InFlightOf(a) = {} => Idle(a)
                                      /\ \A r \in InFlightOf(a) : BusyWith(a, r))'
  BY BusyOrIdle, PTL

\* Busy and Plan are functions on the apps.
LEMMA OnApps ==
  /\ Busy = [a \in Apps |-> Busy[a]] /\ Plan = [a \in Apps |-> Plan[a]]
  /\ Busy' = [a \in Apps |-> Busy'[a]] /\ Plan' = [a \in Apps |-> Plan'[a]]
  BY DEF Busy, Plan

\* What an app is busy with depends on its requests in flight alone.
LEMMA SameBusy ==
  ASSUME Typed, Serial, Typed', Serial', NEW a \in Apps,
         InFlightOf(a)' = InFlightOf(a),
         \A r \in InFlightOf(a) : payload'[r] = payload[r]
  PROVE  Busy'[a] = Busy[a] /\ Plan'[a] = Plan[a]
<1>1. CASE InFlightOf(a) = {}
  <2>1. Idle(a) /\ Idle(a)'
    BY <1>1, BusyOrIdle, BusyOrIdleNext
  <2> QED BY <2>1 DEF Idle
<1>2. ASSUME NEW r \in InFlightOf(a)
      PROVE  Busy'[a] = Busy[a] /\ Plan'[a] = Plan[a]
  <2>1. BusyWith(a, r) /\ BusyWith(a, r)'
    BY <1>2, BusyOrIdle, BusyOrIdleNext
  <2> QED BY <1>2, <2>1 DEF BusyWith
<1> QED BY <1>1, <1>2

\* A step that moves no request in or out of flight is invisible above.
LEMMA InvisibleStep ==
  ASSUME Typed, Serial, Typed', Serial', UNCHANGED <<owner, rows, payload, nextId>>,
         \A a \in Apps : InFlightOf(a)' = InFlightOf(a)
  PROVE  UNCHANGED Reconciliation!vars
<1>1. \A a \in Apps : Busy'[a] = Busy[a] /\ Plan'[a] = Plan[a]
  BY SameBusy
<1>2. Busy' = Busy /\ Plan' = Plan
  BY <1>1, OnApps
<1> QED BY <1>2 DEF Reconciliation!vars

\* A callback that ends a request is the abstract end of it.
LEMMA AppliedRefines ==
  ASSUME Typed, Serial, Typed', Serial', NEW r \in RequestIds, NEW st \in Reports, Applied(r, st)
  PROVE  [Reconciliation!Next]_Reconciliation!vars
<1> DEFINE b == payload[r].app
<1>1. /\ Live' = Live
      /\ \A a : RequestsOf(a)' = RequestsOf(a)
      /\ UNCHANGED <<owner, payload, nextId>>
      /\ status'[r] = st
      /\ \A q \in RequestIds \ {r} : status'[q] = status[q]
      /\ st # "success" => rows' = rows
  BY AppliedFacts
<1>2. r \in Live /\ r \in RequestsOf(b) /\ b \in Apps
  BY DEF Applied, RequestsOf, Typed, Shape, Payload
<1>3. \A a \in Apps : InFlightOf(a) \subseteq RequestIds
  BY DEF InFlightOf, RequestsOf, Live
<1>4. \A a \in Apps : a # b => r \notin RequestsOf(a)
  BY DEF RequestsOf
<1> HIDE DEF b
<1>5. \A a \in Apps : a # b => InFlightOf(a)' = InFlightOf(a)
  BY <1>1, <1>4 DEF InFlightOf, RequestsOf, Live
<1>6. CASE status[r] \in InFlight <=> st \in InFlight
  <2>1. \A a \in Apps : InFlightOf(a)' = InFlightOf(a)
    BY <1>1, <1>6 DEF InFlightOf, RequestsOf, Live
  <2>2. st # "success"
    BY <1>2, <1>6 DEF Applied, Typed, TypeOK, Live, Statuses, Reports, InFlight, Terminal
  <2> QED BY <1>1, <2>1, <2>2, InvisibleStep
<1>7. CASE status[r] \in InFlight /\ st \in Terminal
  <2>1. r \in InFlightOf(b)
    BY <1>2, <1>7 DEF InFlightOf
  <2>2. BusyWith(b, r)
    BY <1>2, <2>1, BusyOrIdle
  <2>3. \A a \in Apps : a = b => InFlightOf(a)' = {}
    BY <1>1, <1>3, <1>7, <2>2 DEF BusyWith, InFlightOf, RequestsOf, Live, InFlight, Terminal
  <2>4. \A a \in Apps : a = b => Busy'[a] = 0 /\ Plan'[a] = {}
    BY <2>3, BusyOrIdleNext DEF Idle
  <2>5. \A a \in Apps : a # b => Busy'[a] = Busy[a] /\ Plan'[a] = Plan[a]
    BY <1>1, <1>5, SameBusy
  <2>6. Busy' = [Busy EXCEPT ![b] = 0]
    BY <2>4, <2>5, OnApps
  <2>7. Plan' = [Plan EXCEPT ![b] = {}]
    BY <2>4, <2>5, OnApps
  <2>8. Reconciliation!Leave(b)
    <3>1. Busy[b] # 0
      BY <1>2, <2>2, ConstantsAssumption DEF BusyWith, Live, RequestIds
    <3> QED BY <1>1, <2>6, <2>7, <3>1 DEF Reconciliation!Leave
  <2>9. CASE st = "success"
    <3>1. rows' = PurgeRows(r) /\ Plan[b] = payload[r].remove
      BY <2>2, <2>9 DEF Applied, ApplyStatus, BusyWith
    <3>2. Reconciliation!Succeed(b)
      BY <2>8, <3>1 DEF Reconciliation!Succeed, PurgeRows, b
    <3> QED BY <1>2, <3>2 DEF Reconciliation!Next
  <2>10. CASE st # "success"
    <3>1. Reconciliation!Fail(b)
      BY <1>1, <2>8, <2>10 DEF Reconciliation!Fail
    <3> QED BY <1>2, <3>1 DEF Reconciliation!Next
  <2> QED BY <2>9, <2>10
<1>8. status[r] \notin InFlight => status[r] = st
  BY <1>2 DEF Applied, Typed, TypeOK, Live, Statuses, Reports
<1> QED BY <1>6, <1>7, <1>8 DEF Reports

LEMMA CommitRefines ==
  ASSUME Typed, Integrity, Serial, Typed', Serial', NEW s \in Sessions, CommitRequest(s)
  PROVE  [Reconciliation!Next]_Reconciliation!vars
<1> DEFINE p == session[s].payload
           b == p.app
           new == p.add \ session[s].present
<1>1. /\ p \in Payload /\ b \in Apps
      /\ nextId \in RequestIds /\ nextId \in Nat \ {0}
      /\ Live' = Live \cup {nextId} /\ nextId \notin Live
      /\ \A r \in Live : payload'[r] = payload[r] /\ status'[r] = status[r]
      /\ payload'[nextId] = p /\ status'[nextId] = "pending"
  BY CommitFacts
<1>2. InFlightOf(b) = {}
  <2>1. CASE p.type = "create"
    <3>1. owner[b] = 0
      BY <2>1 DEF CommitRequest, ConstraintsHold
    <3> QED BY <1>1, <3>1 DEF Integrity, ReferentialIntegrity, Anchored, InFlightOf
  <2>2. CASE p.type # "create"
    <3>1. \A r \in RequestsOf(b) : status[r] \in Terminal
      BY <2>2 DEF Serial, StillQuiet, CommitRequest
    <3> QED BY <3>1 DEF InFlightOf, InFlight, Terminal
  <2> QED BY <2>1, <2>2
<1>3. /\ nextId' = nextId + 1 /\ nextId <= MaxRequests
      /\ \A x \in new : rows[b][x] = 0
      /\ rows' = [rows EXCEPT ![b] = [x \in Services |-> IF x \in new THEN nextId ELSE rows[b][x]]]
  BY <1>1, ConstantsAssumption DEF CommitRequest, ConstraintsHold, AddRows, RequestIds
<1>4. owner' = [owner EXCEPT ![b] = IF @ = 0 THEN nextId ELSE @]
  <2>1. CASE p.type = "create"
    BY <2>1 DEF CommitRequest, ConstraintsHold
  <2>2. CASE p.type # "create"
    <3>1. owner[b] # 0
      BY <1>1, <2>2 DEF CommitRequest, ConstraintsHold, Integrity, AppKnown, Payload
    <3>2. owner' = owner /\ owner \in [Apps -> Creators]
      BY <2>2 DEF CommitRequest, Typed, TypeOK
    <3> QED BY <3>1, <3>2
  <2> QED BY <2>1, <2>2
<1>5. new \in SUBSET Services /\ p.remove \in SUBSET Services
  BY <1>1 DEF Payload
<1> HIDE DEF p, b, new
<1>6. b = p.app
  BY DEF b
<1>7. \A a \in Apps : a # b => InFlightOf(a)' = InFlightOf(a)
  BY <1>1, <1>6 DEF InFlightOf, RequestsOf
<1>8. \A a \in Apps : a = b => nextId \in InFlightOf(a)'
  BY <1>1, <1>6 DEF InFlightOf, RequestsOf, InFlight
<1>9. \A a \in Apps : a = b => Busy'[a] = nextId /\ Plan'[a] = p.remove
  BY <1>1, <1>8, BusyOrIdleNext DEF BusyWith
<1>10. \A a \in Apps : a # b => Busy'[a] = Busy[a] /\ Plan'[a] = Plan[a]
  <2> SUFFICES ASSUME NEW a \in Apps, a # b PROVE Busy'[a] = Busy[a] /\ Plan'[a] = Plan[a]
    OBVIOUS
  <2>1. \A r \in InFlightOf(a) : payload'[r] = payload[r]
    BY <1>1 DEF InFlightOf, RequestsOf
  <2> QED BY <1>7, <2>1, SameBusy
<1>11. Busy' = [Busy EXCEPT ![b] = nextId]
  BY <1>9, <1>10, OnApps
<1>12. Plan' = [Plan EXCEPT ![b] = p.remove]
  BY <1>9, <1>10, OnApps
<1>13. Busy[b] = 0
  BY <1>1, <1>2, BusyOrIdle DEF Idle
<1>14. Reconciliation!Submit(b, new, p.remove)
  BY <1>3, <1>4, <1>11, <1>12, <1>13 DEF Reconciliation!Submit
<1> QED BY <1>1, <1>5, <1>14 DEF Reconciliation!Next

LEMMA PurgeRefines ==
  ASSUME Typed, Serial, Typed', Serial', NEW s \in Sessions, CommitPurge(s)
  PROVE  [Reconciliation!Next]_Reconciliation!vars
<1> DEFINE b == session[s].payload.app
<1>1. /\ b \in Apps
      /\ \A r \in Live' : r \in Live /\ payload'[r] = payload[r] /\ status'[r] = status[r]
      /\ \A a \in Apps \ {b} : RequestsOf(a)' = RequestsOf(a)
      /\ \A a \in Apps : a = b => RequestsOf(a)' = {}
  BY PurgeKeeps DEF CommitPurge, Live
<1>2. \A r \in RequestsOf(b) : status[r] \in Terminal
  BY DEF Serial, StillQuiet, CommitPurge
<1>3. /\ owner' = [owner EXCEPT ![b] = 0] /\ UNCHANGED <<rows, nextId>>
      /\ \A x \in Services : rows[b][x] = 0
  BY DEF CommitPurge, CanPurge, RowsOf
<1> HIDE DEF b
<1>4. \A a \in Apps : InFlightOf(a)' = InFlightOf(a)
  <2> SUFFICES ASSUME NEW a \in Apps PROVE InFlightOf(a)' = InFlightOf(a)
    OBVIOUS
  <2>1. CASE a = b
    BY <1>1, <1>2, <2>1 DEF InFlightOf, InFlight, Terminal
  <2>2. CASE a # b
    BY <1>1, <2>2 DEF InFlightOf, RequestsOf
  <2> QED BY <2>1, <2>2
<1>5. InFlightOf(b) = {}
  BY <1>2 DEF InFlightOf, InFlight, Terminal
<1>6. \A a \in Apps : Busy'[a] = Busy[a] /\ Plan'[a] = Plan[a]
  <2> SUFFICES ASSUME NEW a \in Apps PROVE Busy'[a] = Busy[a] /\ Plan'[a] = Plan[a]
    OBVIOUS
  <2>1. \A r \in InFlightOf(a) : payload'[r] = payload[r]
    BY <1>1, <1>4 DEF InFlightOf, RequestsOf
  <2> QED BY <1>4, <2>1, SameBusy
<1>7. Busy' = Busy /\ Plan' = Plan /\ Busy[b] = 0
  BY <1>1, <1>5, <1>6, OnApps, BusyOrIdle DEF Idle
<1>8. Reconciliation!Forget(b)
  BY <1>3, <1>7 DEF Reconciliation!Forget
<1> QED BY <1>1, <1>8 DEF Reconciliation!Next

\* Queue, state machine, workers and callbacks keep the promise of
\* AppReconciliation: one request at a time changes the desired state of an app,
\* a success takes the rows it removes with it, a failure leaves every row.
THEOREM Implements == OrderlySpec => OneAtATime
<1>1. Init => Reconciliation!Init
  <2> SUFFICES ASSUME Init PROVE Reconciliation!Init
    OBVIOUS
  <2>1. \A a \in Apps : InFlightOf(a) = {}
    BY DEF Init, InFlightOf, RequestsOf, Live
  <2>2. Busy = [a \in Apps |-> 0]
    BY <2>1 DEF Busy
  <2>3. Plan = [a \in Apps |-> {}]
    BY <2>2 DEF Plan
  <2> QED BY <2>2, <2>3 DEF Init, Reconciliation!Init, NoRows
<1>2. /\ Typed /\ Integrity /\ Serial /\ Typed' /\ Serial' /\ [Next /\ Orderly]_vars
      => [Reconciliation!Next]_Reconciliation!vars
  <2> SUFFICES ASSUME Typed, Integrity, Serial, Typed', Serial', [Next /\ Orderly]_vars
               PROVE  [Reconciliation!Next]_Reconciliation!vars
    OBVIOUS
  <2>1. CASE UNCHANGED dbVars
    BY <2>1, InvisibleStep DEF dbVars, InFlightOf, RequestsOf, Live
  <2>2. ASSUME NEW s \in Sessions, Receive(s)
        PROVE  UNCHANGED dbVars
    BY <2>2 DEF Receive, ReceiveCreate, ReceiveUpdate, ReceiveDelete, ReceivePurge, Begin
  <2>3. ASSUME NEW s \in Sessions, Rollback(s) \/ Publish(s) \/ PublishFails(s)
        PROVE  UNCHANGED dbVars
    BY <2>3 DEF Rollback, Publish, PublishFails
  <2> QED BY <2>1, <2>2, <2>3, OrderlySteps, AppliedRefines, CommitRefines, PurgeRefines DEF Finish
<1> QED BY <1>1, <1>2, AlwaysSerial, PTL DEF OrderlySpec, OneAtATime, Reconciliation!Spec
=============================================================================
