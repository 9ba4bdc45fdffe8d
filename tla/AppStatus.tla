----------------------------- MODULE AppStatus -----------------------------
(***************************************************************************)
(* GET /app/{name}/status beside everything that changes what it reads.    *)
(*                                                                         *)
(* The response is put together from some ten queries.  Each sees what is  *)
(* committed when it runs; requests succeed and purge their rows, and      *)
(* clusters are deregistered, between two of them.  Nothing holds the      *)
(* answer together but the order of the reads: the request before its job  *)
(* and before the services, the services before their clusters.            *)
(*                                                                         *)
(* Of a block only its cluster and its services: how a service's health is *)
(* derived from its setup is HealthReporter's HealthOf, and capabilities   *)
(* and their access edges are DesiredState's.                              *)
(***************************************************************************)
EXTENDS ClusterRegistry

CONSTANTS Readers

VARIABLES
    view \* what a reader has read: the request and its status, the job's
         \* status, the services, the clusters of those that are still to be
         \* read, and the blocks of those that were

statusVars == <<vars, view>>

NoView == [pc |-> "idle", app |-> None, request |-> NoId, status |-> "none", job |-> "none",
           services |-> {}, todo |-> {}, blocks |-> {}]

StatusInit == Init /\ view = [r \in Readers |-> NoView]

RequestsOf(a) == {n \in DOMAIN requests : requests[n].app = a}
Owned(a) == {s \in services : s.app = a}

\* The application, and the caller's membership in its team.
Open(r, a) ==
    /\ view[r].pc = "idle"
    /\ RequestsOf(a) # {}
    /\ view' = [view EXCEPT ![r] = [NoView EXCEPT !.app = a, !.pc = "request"]]
    /\ UNCHANGED vars

\* requestRepository.get_by_app: the latest.
ReadRequest(r) ==
    /\ view[r].pc = "request"
    /\ \E n \in RequestsOf(view[r].app) :
          /\ \A m \in RequestsOf(view[r].app) : m <= n
          /\ view' = [view EXCEPT ![r].request = n, ![r].status = requests[n].status,
                                   ![r].pc = "job"]
    /\ UNCHANGED vars

\* Variant: the job is read before the request.
ReadJobFirst(r) ==
    /\ view[r].pc = "job"
    /\ view' = [view EXCEPT ![r].job = view[r].status, ![r].pc = "services",
                            ![r].status = requests[view[r].request].status]
    /\ UNCHANGED vars

\* jobRepository.get_by_request_id: a job has its request's status.
ReadJob(r) ==
    /\ view[r].pc = "job"
    /\ view' = [view EXCEPT ![r].job = requests[view[r].request].status, ![r].pc = "services"]
    /\ UNCHANGED vars

\* serviceRepository.get_by_app, grouped by clusterId.
ReadServices(r) ==
    /\ view[r].pc = "services"
    /\ LET found == Owned(view[r].app)
       IN  view' = [view EXCEPT ![r].services = found, ![r].pc = "blocks",
                                   ![r].todo = {s.cluster : s \in found}]
    /\ UNCHANGED vars

\* _status_for_env of one group: its cluster, `None' if that is gone.
ReadCluster(r, id) ==
    /\ view[r].pc = "blocks"
    /\ id \in view[r].todo
    /\ LET env == IF \E c \in clusters : c.id = id
                    THEN (CHOOSE c \in clusters : c.id = id).env ELSE None
       IN  view' = [view EXCEPT ![r].todo = @ \ {id},
                                   ![r].blocks = @ \cup {[cluster |-> id, env |-> env]}]
    /\ UNCHANGED vars

\* A response is complete when every group has its block.
Answer(r) ==
    /\ view[r].pc = "blocks"
    /\ view[r].todo = {}
    /\ view' = [view EXCEPT ![r] = NoView]
    /\ UNCHANGED vars

Read(r) ==
    \/ \E a \in Apps : Open(r, a)
    \/ ReadRequest(r) \/ ReadJob(r) \/ ReadServices(r)
    \/ \E id \in 1..MaxClusters : ReadCluster(r, id)
    \/ Answer(r)

StatusNext ==
    \/ Next /\ UNCHANGED view
    \/ \E r \in Readers : Read(r)

StatusSpec == StatusInit /\ [][StatusNext]_statusVars

-----------------------------------------------------------------------------
(* Properties *)

\* A response that shows a request as successful shows a job that is, and
\* nothing of what the request deleted: a service listed in that environment was
\* added by a later request.
SuccessIsWhole ==
    \A r \in Readers : view[r].status = "success" =>
        LET deleted == requests[view[r].request].env
        IN  /\ view[r].pc # "job" => view[r].job = "success"
            /\ deleted \notin contested =>
                 \A s \in view[r].services : s.env = deleted => s.id > view[r].request

\* A block without its cluster ("unknown-cluster") is one of services that are
\* gone, and no two blocks of a response are of one environment.
BlocksNamed ==
    \A r \in Readers : \A b \in view[r].blocks :
        /\ b.env = None => \A s \in view[r].services : s.cluster = b.cluster => s \notin services
        /\ \A d \in view[r].blocks :
              b.env = d.env /\ b # d => b.env \in contested \cup {None}
=============================================================================
