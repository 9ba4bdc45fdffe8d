-------------------------- MODULE RequestLifecycle --------------------------
(***************************************************************************)
(* The path of one Makeway request, from the HTTP call that asks for it to *)
(* the callback that closes it:                                            *)
(*                                                                         *)
(*   control plane   app_creation_service / app_update_service /           *)
(*                   app_delete_service: one database session per HTTP     *)
(*                   call, reads first, ONE commit, then queue.publish;    *)
(*   SQS + consumer  at-least-once delivery, a redrive limit, and one      *)
(*                   Step Functions execution per deterministic name;      *)
(*   state machine   Step1 -> Apply -> (Wait, Check)* -> Extract, with its *)
(*                   Retry and Catch clauses and its attempt budget;       *)
(*   workers         the Lambda handlers of Step 1 and Step 2 and the      *)
(*                   status callbacks they POST to the control plane;      *)
(*   callbacks       internal_api_service.update_request_status, with the  *)
(*                   purge of desired-state rows a SUCCESS triggers.       *)
(*                                                                         *)
(* A `service' here is a Service row of one environment (svcName carries   *)
(* the environment suffix).  A Job row is created, closed and deleted with *)
(* its Request and its status is written by the same callback, so one      *)
(* `status' stands for Job.status and Request.requestStatus.               *)
(***************************************************************************)
EXTENDS Naturals, FiniteSets

CONSTANTS
    Apps,         \* appName values
    Services,     \* svcName values, each of one environment
    Envs,         \* environments
    EnvOf,        \* the environment of a service
    Deltas,       \* bound: the service lists callers send, [add, remove]
    Keys,         \* Idempotency-Key header values
    Sessions,     \* HTTP calls the control plane serves at the same time
    MaxRequests,  \* bound: requests ever committed
    MaxAttempts,  \* step2_max_attempts
    TaskRetries,  \* MaxAttempts of the Retry clauses, Check's apart
    CheckRetries, \* MaxAttempts of Step2 Check's Retry clause
    MaxReceives,  \* maxReceiveCount of the queue's redrive policy
    MaxLate,      \* bound: callbacks in transit at a time
    Faults,       \* which of FaultKinds the environment may inflict
    NoPayload     \* the payload of a request that does not exist

FaultKinds == {
    "publish",   \* send_message fails after the commit
    "duplicate", \* SQS delivers a message again that was consumed
    "consumer",  \* the consumer Lambda raises before it starts an execution
    "reuse",     \* Step Functions accepts the name of a closed execution
    "work",      \* GitHub / Kubernetes / AWS work of a worker raises
    "check",     \* the check action raises
    "refuse",    \* a control-plane call fails and has no effect
    "late",      \* a callback times out at the worker and is applied later
    "sdk",       \* an error of the Retry clauses: the Lambda is invoked anew
    "crash"      \* the Lambda times out or dies: its handler reports nothing
    }

ASSUME ConstantsAssumption ==
    /\ EnvOf \in [Services -> Envs]
    /\ Deltas \subseteq [add : SUBSET Services, remove : SUBSET Services]
    /\ MaxRequests \in Nat
    /\ MaxAttempts \in Nat \ {0}
    /\ TaskRetries \in Nat
    /\ CheckRetries \in Nat
    /\ MaxReceives \in Nat \ {0}
    /\ MaxLate \in Nat
    /\ Faults \subseteq FaultKinds

VARIABLES
    session,   \* per HTTP call: what it has read and decided so far
    owner,     \* the App row of a name: the request that created it, or 0
    rows,      \* the Service rows of an app: the request that added each, or 0
    status,    \* Request.requestStatus (and Job.status)
    payload,   \* Request.rawRequest, requestType, appId, idempotencyKey
    nextId,    \* the next value of the requestId sequence
    queue,     \* SQS messages, by the request they name
    receives,  \* how often the message of a request was received
    exec,      \* the Step Functions execution of a request, and its Lambda
    late       \* callbacks sent, given up by the worker, not yet applied

dbVars   == <<owner, rows, status, payload, nextId>>
apiVars  == <<session>>
sqsVars  == <<queue, receives>>
sfnVars  == <<exec, late>>
vars     == <<session, owner, rows, status, payload, nextId,
              queue, receives, exec, late>>

RequestIds == 1 .. MaxRequests
Creators   == 0 .. MaxRequests
NoRows     == [x \in Services |-> 0]

InFlight == {"pending", "in_progress"}
Terminal == {"success", "failed"}
Reports  == InFlight \cup Terminal
Statuses == {"absent"} \cup Reports

\* What a request asks for.  Removing an environment removes every service of
\* it, so a delete names the same kind of set as an update's removal lists.
Payload == [type   : {"create", "update", "delete"},
            app    : Apps,
            key    : Keys,
            add    : SUBSET Services,
            remove : SUBSET Services]

\* purge_app registers no request: it only names the app.
PurgeOrder == [type : {"purge"}, app : Apps]

IdleSession == [pc |-> "idle", payload |-> NoPayload,
                owner |-> 0, present |-> {}, id |-> 0]

OpenStates   == {"step1", "apply", "check", "extract", "report_failed"}
ClosedStates == {"succeeded", "failed", "timed_out"}
Phases       == {"get", "start", "work", "report", "partial", "poll",
                 "fail", "ret", "ready", "pending", "raised"}

NoExecution == [state |-> "none", phase |-> "get", attempt |-> 0,
                retries |-> 0, seen |-> NoRows]

-----------------------------------------------------------------------------
(* Reads of the control plane *)

Live          == {r \in RequestIds : status[r] # "absent"}
RequestsOf(a) == {r \in Live : payload[r].app = a}
RowsOf(a)     == {x \in Services : rows[a][x] # 0}

\* RequestRepository.get_by_idempotency_key finds nothing.
FreshKey(k) == \A r \in Live : payload[r].key # k

\* Variant: a check that forgets PENDING requests.
NoneInFlightStarted(a) ==
    \A r \in RequestsOf(a) :
        (\A q \in RequestsOf(a) : q <= r) => status[r] # "in_progress"

\* _reject_in_flight lets the call through: it looks at the LATEST request only.
NoneInFlight(a) ==
    \A r \in RequestsOf(a) :
        (\A q \in RequestsOf(a) : q <= r) => status[r] \notin InFlight

-----------------------------------------------------------------------------
(* submit: the reads of one HTTP call *)

Begin(s, p, present) ==
    /\ session' = [session EXCEPT ![s] =
                     [pc |-> "checked", payload |-> p, owner |-> owner[p.app],
                      present |-> present, id |-> 0]]
    /\ UNCHANGED <<dbVars, sqsVars, sfnVars>>

\* AppCreationService.submit up to its first write: the name is not looked up.
\* validateRequest refuses removal lists.
ReceiveCreate(s, a, k, d) ==
    /\ session[s].pc = "idle"
    /\ FreshKey(k)
    /\ d.remove = {}
    /\ Begin(s, [type |-> "create", app |-> a, key |-> k,
                 add |-> d.add, remove |-> {}], {})

\* AppUpdateService.submit up to its merge.
ReceiveUpdate(s, a, k, d) ==
    /\ session[s].pc = "idle"
    /\ FreshKey(k)
    /\ owner[a] # 0
    /\ NoneInFlight(a)
    /\ d.add \cap d.remove = {}
    /\ d.remove \subseteq RowsOf(a)
    /\ Begin(s, [type |-> "update", app |-> a, key |-> k,
                 add |-> d.add, remove |-> d.remove], RowsOf(a))

\* AppDeleteService.submit up to its first write.
ReceiveDelete(s, a, k, e) ==
    /\ session[s].pc = "idle"
    /\ FreshKey(k)
    /\ owner[a] # 0
    /\ NoneInFlight(a)
    /\ \E x \in RowsOf(a) : EnvOf[x] = e
    /\ Begin(s, [type |-> "delete", app |-> a, key |-> k, add |-> {},
                 remove |-> {x \in Services : EnvOf[x] = e}], RowsOf(a))

\* AppDeleteService.purge_app up to its deletes.
ReceivePurge(s, a) ==
    /\ session[s].pc = "idle"
    /\ owner[a] # 0
    /\ NoneInFlight(a)
    /\ RowsOf(a) = {}
    /\ Begin(s, [type |-> "purge", app |-> a], {})

-----------------------------------------------------------------------------
(* submit: the single commit, and the publish that follows it *)

\* Variant: no unique constraint on idempotencyKey.
ConstraintsWithoutKey(s) ==
    LET p == session[s].payload
    IN  IF p.type = "create"
          THEN owner[p.app] = 0
          ELSE owner[p.app] = session[s].owner

\* Variant: no foreign key from Request to App.
ConstraintsWithoutApp(s) ==
    LET p == session[s].payload
    IN  FreshKey(p.key) /\ (p.type = "create" => owner[p.app] = 0)

\* What the database checks when the session flushes and commits: unique
\* idempotencyKey and appName, the appId foreign keys, unique service names.
ConstraintsHold(s) ==
    LET p == session[s].payload
    IN  /\ FreshKey(p.key)
        /\ IF p.type = "create"
             THEN owner[p.app] = 0
             ELSE owner[p.app] = session[s].owner
        /\ \A x \in p.add \ session[s].present : rows[p.app][x] = 0

\* Service rows the delta adds; a service that had a row when it was read is
\* reused and not written again.
AddRows(s) ==
    LET p == session[s].payload
    IN  [rows EXCEPT ![p.app] =
           [x \in Services |-> IF x \in p.add \ session[s].present
                                 THEN nextId ELSE rows[p.app][x]]]

CommitRequest(s) ==
    /\ session[s].pc = "checked"
    /\ session[s].payload.type # "purge"
    /\ nextId \in RequestIds
    /\ ConstraintsHold(s)
    /\ status'  = [status EXCEPT ![nextId] = "pending"]
    /\ payload' = [payload EXCEPT ![nextId] = session[s].payload]
    /\ owner'   = IF session[s].payload.type = "create"
                    THEN [owner EXCEPT ![session[s].payload.app] = nextId]
                    ELSE owner
    /\ rows'    = AddRows(s)
    /\ nextId'  = nextId + 1
    /\ session' = [session EXCEPT ![s].pc = "committed", ![s].id = nextId]
    /\ UNCHANGED <<sqsVars, sfnVars>>

\* _purge_app_rows: jobs, requests and the app; the foreign keys of Service
\* refuse it while a row of the app exists.
CanPurge(s) ==
    LET a == session[s].payload.app
    IN  owner[a] = session[s].owner /\ RowsOf(a) = {}

CommitPurge(s) ==
    /\ session[s].pc = "checked"
    /\ session[s].payload.type = "purge"
    /\ CanPurge(s)
    /\ LET a == session[s].payload.app
       IN  /\ status' = [r \in RequestIds |->
                           IF r \in RequestsOf(a) THEN "absent" ELSE status[r]]
           /\ payload' = [r \in RequestIds |->
                            IF r \in RequestsOf(a) THEN NoPayload ELSE payload[r]]
           /\ owner' = [owner EXCEPT ![a] = 0]
    /\ session' = [session EXCEPT ![s] = IdleSession]
    /\ UNCHANGED <<rows, nextId, sqsVars, sfnVars>>

\* A constraint refuses the commit: 409 and rollback.
Rollback(s) ==
    /\ session[s].pc = "checked"
    /\ IF session[s].payload.type = "purge" THEN ~CanPurge(s) ELSE ~ConstraintsHold(s)
    /\ session' = [session EXCEPT ![s] = IdleSession]
    /\ UNCHANGED <<dbVars, sqsVars, sfnVars>>

Publish(s) ==
    /\ session[s].pc = "committed"
    /\ queue' = queue \cup {session[s].id}
    /\ session' = [session EXCEPT ![s] = IdleSession]
    /\ UNCHANGED <<dbVars, receives, sfnVars>>

\* The exception of send_message is logged and swallowed.
PublishFails(s) ==
    /\ "publish" \in Faults
    /\ session[s].pc = "committed"
    /\ session' = [session EXCEPT ![s] = IdleSession]
    /\ UNCHANGED <<dbVars, sqsVars, sfnVars>>

-----------------------------------------------------------------------------
(* SQS and its consumer *)

\* The first phase of the Lambda a state invokes.
Entry(st) == IF st = "report_failed" THEN "report" ELSE "get"

Enter(st, attempt) == [state |-> st, phase |-> Entry(st), attempt |-> attempt,
                       retries |-> 0, seen |-> NoRows]

Receivable(r) == r \in queue /\ receives[r] < MaxReceives

Acknowledge(r) == \/ queue' = queue \ {r}
                  \/ "duplicate" \in Faults /\ queue' = queue

\* start_execution under the name of the request starts an execution...
Deliver(r) ==
    /\ Receivable(r)
    /\ receives' = [receives EXCEPT ![r] = @ + 1]
    /\ \/ exec[r].state = "none"
       \/ exec[r].state \in ClosedStates /\ "reuse" \in Faults
    /\ exec' = [exec EXCEPT ![r] = Enter("step1", 0)]
    /\ Acknowledge(r)
    /\ UNCHANGED <<session, dbVars, late>>

\* ... or returns the one that runs under that name.
DeliverAgain(r) ==
    /\ Receivable(r)
    /\ exec[r].state \in OpenStates
    /\ receives' = [receives EXCEPT ![r] = @ + 1]
    /\ Acknowledge(r)
    /\ UNCHANGED <<session, dbVars, exec, late>>

\* The consumer raises: the name belongs to a closed execution, or the Lambda
\* dies first.  The message becomes visible again.
DeliverFails(r) ==
    /\ Receivable(r)
    /\ \/ exec[r].state \in ClosedStates /\ "reuse" \notin Faults
       \/ "consumer" \in Faults
    /\ receives' = [receives EXCEPT ![r] = @ + 1]
    /\ UNCHANGED <<session, dbVars, queue, exec, late>>

\* The redrive policy moves the message to the dead-letter queue.
DeadLetter(r) ==
    /\ r \in queue
    /\ receives[r] = MaxReceives
    /\ queue' = queue \ {r}
    /\ UNCHANGED <<session, dbVars, receives, exec, late>>

-----------------------------------------------------------------------------
(* update_request_status *)

\* Variant: the purge is forgotten.
PurgeNothing(r) == rows

\* Variant: the purge takes every row of the app.
PurgeWholeApp(r) == [rows EXCEPT ![payload[r].app] = NoRows]

\* The rows a SUCCESS deletes: _purge_env, _purge_removed_items.
PurgeRows(r) ==
    [rows EXCEPT ![payload[r].app] =
       [x \in Services |-> IF x \in payload[r].remove THEN 0
                            ELSE rows[payload[r].app][x]]]

\* Variant: a failure takes back the rows its request added.
ApplyStatusTakesBack(r, st) ==
    /\ status' = [status EXCEPT ![r] = st]
    /\ rows' = CASE st = "success" -> PurgeRows(r)
                 [] st = "failed"  -> [rows EXCEPT ![payload[r].app] =
                                         [x \in Services |-> IF @[x] = r THEN 0 ELSE @[x]]]
                 [] OTHER          -> rows
    /\ UNCHANGED <<owner, payload, nextId>>

\* The database side of update_request_status, one commit.  Nothing looks at the
\* status the request already has.
ApplyStatus(r, st) ==
    /\ status' = [status EXCEPT ![r] = st]
    /\ rows' = IF st = "success" THEN PurgeRows(r) ELSE rows
    /\ UNCHANGED <<owner, payload, nextId>>

\* 404: the request is gone, or a service the report names is.
Acceptable(r) ==
    /\ status[r] # "absent"
    /\ exec[r].state = "step1" /\ exec[r].phase = "report" =>
         \A x \in Services : exec[r].seen[x] # 0 =>
             rows[payload[r].app][x] = exec[r].seen[x]

\* One step of a Lambda: the phase it goes on to.  The details it read are
\* forgotten with the last phase that uses them.
Phase(r, ph) ==
    exec' = [exec EXCEPT ![r].phase = ph,
                         ![r].seen = IF ph \in {"work", "report"} THEN @ ELSE NoRows]

\* A worker POSTs a status and goes on to phase `ok', or, when the call raises,
\* to phase `err'.
Post(r, st, ok, err) ==
    \/ /\ Acceptable(r)
       /\ ApplyStatus(r, st)
       /\ Phase(r, ok)
       /\ UNCHANGED late
    \/ /\ ~Acceptable(r) \/ "refuse" \in Faults
       /\ Phase(r, err)
       /\ UNCHANGED <<dbVars, late>>
    \/ /\ "late" \in Faults
       /\ Cardinality(late) < MaxLate
       /\ Acceptable(r)
       /\ late' = late \cup {<<r, st>>}
       /\ Phase(r, err)
       /\ UNCHANGED dbVars

\* The control plane gets to a callback whose worker no longer waits for it.
ApplyLate(r, st) ==
    /\ <<r, st>> \in late
    /\ late' = late \ {<<r, st>>}
    /\ IF status[r] = "absent" THEN UNCHANGED dbVars ELSE ApplyStatus(r, st)
    /\ UNCHANGED <<session, sqsVars, exec>>

-----------------------------------------------------------------------------
(* The Lambda handlers *)

Running(r, st, ph) == exec[r].state \in st /\ exec[r].phase = ph

\* `except Exception': every handler reports the failure, the check apart.
ErrorPhase(r) == IF exec[r].state = "check" THEN "raised" ELSE "fail"

\* The services Step 1 will report a path for: all of them, unless the run
\* tears down an environment or leaves no service.
Reported(r) ==
    LET p == payload[r]
    IN  IF p.type = "delete" \/ RowsOf(p.app) \subseteq p.remove
          THEN NoRows ELSE rows[p.app]

\* What the details say to do next.  Step 1 and Apply skip a job that succeeded.
AfterDetails(r) ==
    LET st == exec[r].state
    IN  IF st \in {"step1", "apply"}
          THEN IF status[r] = "success" THEN "ret" ELSE "start"
          ELSE IF st = "check" THEN "poll"
                               ELSE IF payload[r].type = "delete" THEN "report" ELSE "work"

\* GET /internal/requests/{id}.
GetDetails(r) ==
    /\ Running(r, OpenStates, "get")
    /\ status[r] # "absent"
    /\ exec' = [exec EXCEPT ![r].phase = AfterDetails(r),
                            ![r].seen = IF exec[r].state = "step1" /\ status[r] # "success"
                                          THEN Reported(r) ELSE NoRows]
    /\ UNCHANGED <<session, dbVars, sqsVars, late>>

GetDetailsFails(r) ==
    /\ Running(r, OpenStates, "get")
    /\ status[r] = "absent" \/ "refuse" \in Faults
    /\ Phase(r, ErrorPhase(r))
    /\ UNCHANGED <<session, dbVars, sqsVars, late>>

\* The first report of Step 1 and of Apply.
ReportStarted(r) ==
    /\ Running(r, {"step1", "apply"}, "start")
    /\ Post(r, "in_progress", "work", "fail")
    /\ UNCHANGED <<session, sqsVars>>

\* Step 1's pushes to GitHub, Apply's Crossplane objects, Extract's secrets.
DoWork(r) ==
    /\ Running(r, {"step1", "apply", "extract"}, "work")
    /\ Phase(r, IF exec[r].state = "apply" THEN "ret" ELSE "report")
    /\ UNCHANGED <<session, dbVars, sqsVars, late>>

\* The work raises.  Extract catches the exception of one capability and goes
\* on with the others, then reports them all as failed.
WorkFails(r) ==
    /\ "work" \in Faults
    /\ \/ Running(r, {"step1", "apply"}, "work") /\ Phase(r, "fail")
       \/ Running(r, {"extract"}, "work") /\ Phase(r, "partial")
    /\ UNCHANGED <<session, dbVars, sqsVars, late>>

\* Variant: Step 1 closes the request itself.
ReportEarly(r) ==
    /\ \/ Running(r, {"step1", "extract"}, "report") /\ Post(r, "success", "ret", "fail")
       \/ Running(r, {"report_failed"}, "report") /\ Post(r, "failed", "ret", "fail")
    /\ UNCHANGED <<session, sqsVars>>

\* The last report of Step 1 (never `success'), Extract and report_failed.
Report(r) ==
    /\ \/ Running(r, {"step1"}, "report") /\ Post(r, "in_progress", "ret", "fail")
       \/ Running(r, {"extract"}, "report") /\ Post(r, "success", "ret", "fail")
       \/ Running(r, {"report_failed"}, "report") /\ Post(r, "failed", "ret", "fail")
    /\ UNCHANGED <<session, sqsVars>>

\* Extract reports the failures itself, then raises into its own handler.
ReportPartial(r) ==
    /\ Running(r, {"extract"}, "partial")
    /\ Post(r, "failed", "fail", "fail")
    /\ UNCHANGED <<session, sqsVars>>

\* The handler's best-effort failure report, and the re-raise.
ReportFailure(r) ==
    /\ Running(r, OpenStates, "fail")
    /\ Post(r, "failed", "raised", "raised")
    /\ UNCHANGED <<session, sqsVars>>

\* The check: the objects of the request are ready or not, and a capability
\* that changed is reported, best effort.
Poll(r) ==
    /\ Running(r, {"check"}, "poll")
    /\ \E verdict \in {"ready", "pending"} :
         \/ Phase(r, verdict) /\ UNCHANGED <<dbVars, late>>
         \/ Post(r, "in_progress", verdict, verdict)
    /\ UNCHANGED <<session, sqsVars>>

\* The check raises: nothing is reported.
PollFails(r) ==
    /\ "check" \in Faults
    /\ Running(r, {"check"}, "poll")
    /\ Phase(r, "raised")
    /\ UNCHANGED <<session, dbVars, sqsVars, late>>

\* The Lambda times out or dies.
Crash(r) ==
    /\ "crash" \in Faults
    /\ exec[r].state \in OpenStates /\ exec[r].phase # "raised"
    /\ Phase(r, "raised")
    /\ UNCHANGED <<session, dbVars, sqsVars, late>>

-----------------------------------------------------------------------------
(* The state machine *)

Close(st) == [NoExecution EXCEPT !.state = st]

\* Variant: one attempt too many.
AfterPendingLate(e) ==
    IF e.attempt > MaxAttempts THEN Enter("report_failed", e.attempt)
                               ELSE Enter("check", e.attempt + 1)

\* Variant: the attempts are not counted.
AfterPendingUncounted(e) == Enter("check", e.attempt)

\* Variant: the budget ends the flow without telling the control plane.
AfterPendingSilent(e) ==
    IF e.attempt >= MaxAttempts THEN Close("timed_out")
                                ELSE Enter("check", e.attempt + 1)

\* Step2 Attempt? and Step2 Retry.
AfterPending(e) ==
    IF e.attempt >= MaxAttempts THEN Enter("report_failed", e.attempt)
                                ELSE Enter("check", e.attempt + 1)

\* Where the state machine goes when the Lambda of r returned or raised.
Following(r) ==
    LET e == exec[r]
    IN  IF e.phase = "raised"
          THEN Close(IF e.state = "report_failed" THEN "timed_out" ELSE "failed")
          ELSE CASE e.state = "step1"   -> Enter("apply", 0)
                 [] e.state = "apply"   -> Enter("check", 1)
                 [] e.state = "check"   -> IF e.phase = "ready" THEN Enter("extract", e.attempt)
                                                                ELSE AfterPending(e)
                 [] e.state = "extract" -> Close("succeeded")
                 [] OTHER               -> Close("timed_out")

Transition(r) ==
    /\ exec[r].state \in OpenStates
    /\ exec[r].phase \in {"ret", "ready", "pending", "raised"}
    /\ exec' = [exec EXCEPT ![r] = Following(r)]
    /\ UNCHANGED <<session, dbVars, sqsVars, late>>

RetryBudget(st) == IF st = "check" THEN CheckRetries ELSE TaskRetries

\* The invocation ends in an error of the Retry clause, whatever the Lambda has
\* done by then: it is invoked again, until the budget sends it to Catch.
Retry(r) ==
    /\ "sdk" \in Faults
    /\ exec[r].state \in OpenStates
    /\ LET st == exec[r].state
       IN  exec' = [exec EXCEPT ![r] =
                      IF exec[r].retries < RetryBudget(st)
                        THEN [Enter(st, @.attempt) EXCEPT !.retries = exec[r].retries + 1]
                        ELSE Close(IF st = "report_failed" THEN "timed_out" ELSE "failed")]
    /\ UNCHANGED <<session, dbVars, sqsVars, late>>

-----------------------------------------------------------------------------
Init ==
    /\ session  = [s \in Sessions |-> IdleSession]
    /\ owner    = [a \in Apps |-> 0]
    /\ rows     = [a \in Apps |-> NoRows]
    /\ status   = [r \in RequestIds |-> "absent"]
    /\ payload  = [r \in RequestIds |-> NoPayload]
    /\ nextId   = 1
    /\ queue    = {}
    /\ receives = [r \in RequestIds |-> 0]
    /\ exec     = [r \in RequestIds |-> NoExecution]
    /\ late     = {}

Receive(s) ==
    \E a \in Apps :
        \/ \E k \in Keys, d \in Deltas : ReceiveCreate(s, a, k, d) \/ ReceiveUpdate(s, a, k, d)
        \/ \E k \in Keys, e \in Envs : ReceiveDelete(s, a, k, e)
        \/ ReceivePurge(s, a)

Finish(s) == CommitRequest(s) \/ CommitPurge(s) \/ Rollback(s)
             \/ Publish(s) \/ PublishFails(s)

Consume(r) == Deliver(r) \/ DeliverAgain(r) \/ DeliverFails(r) \/ DeadLetter(r)

Work(r) == \/ GetDetails(r) \/ GetDetailsFails(r) \/ ReportStarted(r)
           \/ DoWork(r) \/ WorkFails(r) \/ Report(r) \/ ReportPartial(r)
           \/ ReportFailure(r) \/ Poll(r) \/ PollFails(r)

Next ==
    \/ \E s \in Sessions : Receive(s) \/ Finish(s)
    \/ \E r \in RequestIds :
          \/ Consume(r) \/ Work(r) \/ Transition(r) \/ Crash(r) \/ Retry(r)
          \/ \E st \in Reports : ApplyLate(r, st)

Spec == Init /\ [][Next]_vars

\* A session runs to its end, Lambda polls the queue, Step Functions and the
\* Lambdas it invokes run on; nobody has to send a request.
Fairness ==
    /\ \A s \in Sessions : WF_vars(Finish(s))
    /\ \A r \in RequestIds :
         WF_vars(Consume(r)) /\ WF_vars(Work(r)) /\ WF_vars(Transition(r))

FairSpec == Spec /\ Fairness

\* No two calls on one application are both between their reads and their commit.
TakingTurns ==
    \A s, t \in Sessions :
        /\ session[s].pc = "checked" /\ session[t].pc = "checked"
        /\ session[s].payload.app = session[t].payload.app
        => s = t

\* For a request that has ended no execution is started again, no Lambda invoked
\* again and no late callback applied; and a callback that reports the end, when
\* it is late, is applied after the execution has closed.  That leaves work on an
\* ended request out of what OrderlySpec promises; it is not found harmless.
NothingAfterTheEnd ==
    \A r \in RequestIds :
        /\ exec[r].state # "none" /\ Deliver(r) => status[r] \notin Terminal
        /\ Retry(r) => status[r] \notin Terminal
        /\ \A st \in Reports : ApplyLate(r, st) =>
             /\ status[r] \notin Terminal
             /\ st \in Terminal => exec[r].state \in ClosedStates

\* Nobody enforces either in the code.  The promises made about the pipeline hold
\* as long as they are kept, whatever else fails, repeats or overlaps.
Orderly == TakingTurns /\ NothingAfterTheEnd

OrderlySpec == Init /\ [][Next /\ Orderly]_vars

-----------------------------------------------------------------------------
Execution == [state   : {"none"} \cup OpenStates \cup ClosedStates,
              phase   : Phases,
              attempt : 0 .. MaxAttempts,
              retries : Nat,
              seen    : [Services -> Creators]]

Session == [pc      : {"idle", "checked", "committed"},
            payload : Payload \cup PurgeOrder \cup {NoPayload},
            owner   : Creators,
            present : SUBSET Services,
            id      : Creators]

\* The type of every variable.
TypeOK ==
    /\ session  \in [Sessions -> Session]
    /\ owner    \in [Apps -> Creators]
    /\ rows     \in [Apps -> [Services -> Creators]]
    /\ status   \in [RequestIds -> Statuses]
    /\ payload  \in [RequestIds -> Payload \cup {NoPayload}]
    /\ nextId   \in 1 .. MaxRequests + 1
    /\ queue    \subseteq RequestIds
    /\ receives \in [RequestIds -> 0 .. MaxReceives]
    /\ exec     \in [RequestIds -> Execution]
    /\ late     \subseteq RequestIds \X Reports

\* No two requests of one app are in flight at a time: what _reject_in_flight
\* is for ("the desired-state tables are shared rows").
AtMostOneInFlight ==
    \A a \in Apps : \A r, q \in RequestsOf(a) :
        status[r] \in InFlight /\ status[q] \in InFlight => r = q

\* A request that succeeded or failed keeps that status until purge_app deletes
\* it: no callback its run still has to send takes the end back, although
\* update_request_status would apply it.  What is invoked again, redelivered or
\* applied AFTER the end (NothingAfterTheEnd) is excluded: it does reopen requests.
TerminalIsFinal ==
    [][\A r \in RequestIds :
         status[r] \in Terminal => status'[r] \in {status[r], "absent"}]_vars

\* A Service row is deleted only on behalf of a request that is younger than
\* the row: no purge reaches a row that a later request added again.
OnlyYoungerRequestsPurge ==
    [][\A a \in Apps, x \in Services :
         rows[a][x] # 0 /\ rows'[a][x] = 0 =>
           \E r \in RequestIds :
             /\ r > rows[a][x] /\ status'[r] = "success"
             /\ payload[r].app = a /\ x \in payload[r].remove]_vars

\* SUCCESS means the delta is in place: what the request removed is gone unless
\* a later request added it again, what it added is there unless a later
\* successful request removed it.
SuccessIsApplied ==
    \A a \in Apps : \A r \in RequestsOf(a) :
      status[r] = "success" =>
        /\ \A x \in payload[r].remove : rows[a][x] # 0 => rows[a][x] > r
        /\ \A x \in payload[r].add :
             \/ rows[a][x] # 0
             \/ \E q \in RequestsOf(a) :
                  q > r /\ status[q] = "success" /\ x \in payload[q].remove

\* An Idempotency-Key names at most one request, however many copies of the
\* call are served at the same time.
UniqueKeys == \A r, q \in Live : payload[r].key = payload[q].key => r = q

Anchored(a) ==
    IF owner[a] = 0
      THEN RequestsOf(a) = {} /\ RowsOf(a) = {}
      ELSE /\ owner[a] \in RequestsOf(a)
           /\ \A r \in RequestsOf(a) : r >= owner[a]
           /\ \A x \in RowsOf(a) : rows[a][x] \in RequestsOf(a)

\* purge_app leaves nothing behind: requests and Service rows always hang off
\* an App row, whose creating request is still on record, and none is older.
ReferentialIntegrity == \A a \in Apps : Anchored(a)

\* When the state machine has ended, the request says so: "Workers report
\* FAILED themselves then raise" (the state machine's Comment).
ClosedIsReported ==
    \A r \in Live : exec[r].state \in ClosedStates => status[r] \in Terminal

\* Somebody has yet to act for r: the call that publishes it, the consumer, its
\* execution, or the control plane on a callback nobody waits for any more.
InHand(r) ==
    \/ \E s \in Sessions : session[s].pc = "committed" /\ session[s].id = r
    \/ Receivable(r)
    \/ exec[r].state \in OpenStates
    \/ \E st \in Reports : <<r, st>> \in late

Abandoned(r) == status[r] \in InFlight /\ ~InHand(r)

\* From commit to publish, queue, execution and report no request falls between
\* two of them: while it is PENDING or IN_PROGRESS, somebody has yet to act.
NobodyForgotten == \A r \in RequestIds : ~Abandoned(r)

\* A request everybody is through with stays as it is for good, and nothing
\* changes its application again: _reject_in_flight refuses every later update,
\* delete and purge, and no job looks for requests that hang.
AbandonedBlocks ==
    [][\A r \in RequestIds :
         Abandoned(r) =>
           LET a == payload[r].app
           IN  /\ Abandoned(r)' /\ status'[r] = status[r]
               /\ RequestsOf(a)' = RequestsOf(a)
               /\ owner'[a] = owner[a] /\ rows'[a] = rows[a]]_vars

\* A committed request does not stay PENDING or IN_PROGRESS forever.
Resolved ==
    \A r \in RequestIds : status[r] \in InFlight ~> status[r] \notin InFlight

-----------------------------------------------------------------------------
(* The promise these components keep together: see AppReconciliation *)

InFlightOf(a) == {r \in RequestsOf(a) : status[r] \in InFlight}
Busy == [a \in Apps |-> IF InFlightOf(a) = {} THEN 0
                        ELSE CHOOSE r \in InFlightOf(a) : TRUE]
Plan == [a \in Apps |-> IF Busy[a] = 0 THEN {} ELSE payload[Busy[a]].remove]

Reconciliation == INSTANCE AppReconciliation WITH busy <- Busy, plan <- Plan

\* Queue, state machine, workers and callbacks implement "one request at a time
\* changes an app's desired state, and it ends once".
OneAtATime == Reconciliation!Spec
=============================================================================
