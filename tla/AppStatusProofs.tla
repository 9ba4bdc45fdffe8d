--------------------------- MODULE AppStatusProofs ---------------------------
(***************************************************************************)
(* What is proved of the status endpoint's torn reads, for any number of   *)
(* readers and whatever goes on beside them.                               *)
(*                                                                         *)
(* A reader changes nothing, so all that ClusterRegistryProofs proves of   *)
(* the tables holds here.  What a reader has in hand is a snapshot: the    *)
(* invariant says of it only what no later step can take back.             *)
(***************************************************************************)
EXTENDS AppStatus, ClusterRegistryProofs

ReaderPCs == {"idle", "request", "job", "services", "blocks"}
Statuses  == {"none", "open", "success", "failed"}
ViewState == [pc : ReaderPCs, app : Apps \cup {None}, request : Nat, status : Statuses,
              job : Statuses, services : SUBSET Service, todo : SUBSET Nat,
              blocks : SUBSET [cluster : Nat, env : Envs \cup {None}]]

\* What succeeded has deleted its environment: services there are younger.
Deleted ==
    \A n \in DOMAIN requests :
        requests[n].status = "success" /\ requests[n].env \notin contested =>
            \A s \in services : s.app = requests[n].app /\ s.env = requests[n].env => s.id > n

\* The request a reader holds is one of its application's, and success is for
\* good.
Held(v) ==
    /\ v.pc \in {"idle", "request"} => v.status = "none"
    /\ v.pc \notin {"idle", "request"} =>
         /\ v.request \in DOMAIN requests
         /\ requests[v.request].app = v.app
         /\ v.status = "success" => requests[v.request].status = "success"
    /\ v.status = "success" /\ v.pc # "job" => v.job = "success"

\* The services it holds: none of what its request deleted; and their clusters,
\* where these are still there, are those of their environment.
Snapshot(v) ==
    /\ v.pc # "blocks" => v.services = {} /\ v.todo = {} /\ v.blocks = {}
    /\ \A s \in v.services :
         /\ v.status = "success" /\ requests[v.request].env \notin contested
              /\ s.env = requests[v.request].env => s.id > v.request
         /\ s.cluster < nextId
         /\ \A c \in clusters : c.id = s.cluster => c.env = s.env
    /\ \A s, t \in v.services : s.env = t.env /\ s.env \notin contested => s.cluster = t.cluster

\* The groups it has been through: one block each, named if the cluster was
\* there; one that was gone does not come back.
Blocks(v) ==
    /\ \A id \in v.todo : \E s \in v.services : s.cluster = id
    /\ \A b \in v.blocks :
         /\ b.cluster \notin v.todo
         /\ \E s \in v.services : s.cluster = b.cluster
         /\ b.env # None => \A s \in v.services : s.cluster = b.cluster => s.env = b.env
         /\ b.env = None => \A c \in clusters : c.id # b.cluster
         /\ \A d \in v.blocks : b.cluster = d.cluster => b = d

Reader(v) == v \in ViewState /\ Held(v) /\ Snapshot(v) /\ Blocks(v)

Views == view \in [Readers -> ViewState] /\ \A r \in Readers : Reader(view[r])

Tables == TypeOK /\ Asked /\ Inv

\* A reader that is idle.
LEMMA IdleReader == Reader(NoView)
  BY DEF Reader, NoView, NoId, ViewState, ReaderPCs, Statuses, Held, Snapshot, Blocks

\* The tables do not notice readers.
LEMMA TablesHold == StatusSpec => []Tables
  <1>1. StatusInit => TypeOK /\ Asked /\ Inv
    BY InitTyped, InitInv, Idle DEF StatusInit, Init, Asked
  <1>2. [StatusNext]_statusVars => [Next]_vars
    BY DEF StatusNext, statusVars, Read, Open, ReadRequest, ReadJob, ReadServices, ReadCluster, Answer
  <1>3. TypeOK /\ Asked /\ Inv /\ [Next]_vars => (TypeOK /\ Asked /\ Inv)'
    BY StepTyped, StepAsked, StepInv
  <1> QED
    BY <1>1, <1>2, <1>3, PTL DEF StatusSpec, Tables

-----------------------------------------------------------------------------
(* What no step takes back *)

\* Clusters keep their environment, new ones have new ids.
LEMMA ClustersStay ==
  ASSUME TypeOK, [Next]_vars
  PROVE  /\ nextId' \in Nat /\ nextId <= nextId' /\ contested \subseteq contested'
         /\ \A d \in clusters' : (\E c \in clusters : c.id = d.id /\ c.env = d.env) \/ d.id = nextId
  <1>1. CASE UNCHANGED <<clusters, nextId, contested>>
    BY <1>1 DEF TypeOK
  <1>2. ASSUME NEW k \in Callers, Save(k)
        PROVE  UNCHANGED <<nextId, contested>> /\ Kept(clusters, clusters')
    BY <1>2, SaveKeeps DEF Save
  <1>3. ASSUME NEW k \in Callers, Insert(k)
        PROVE  /\ nextId' \in {nextId, nextId + 1} /\ contested \subseteq contested'
               /\ \A d \in clusters' : d \in clusters \/ d.id = nextId
    BY <1>3 DEF Insert
  <1>4. ASSUME NEW k \in Callers, Remove(k)
        PROVE  UNCHANGED <<nextId, contested>> /\ clusters' \subseteq clusters
    BY <1>4 DEF Remove
  <1>5. ASSUME NEW k \in Callers,
               \/ \E i \in Inputs : Call(k, i)
               \/ FindByName(k) \/ FindOccupant(k) \/ FindById(k) \/ FindNamesake(k)
               \/ FindServices(k)
        PROVE  UNCHANGED <<clusters, nextId, contested>>
    BY <1>5 DEF Call, FindByName, FindOccupant, FindById, FindNamesake, FindServices
  <1>6. CASE \/ \E a \in Apps : Resolve(a) \/ Commit(a) \/ \E e \in Envs : Delete(a, e)
             \/ \E n \in DOMAIN requests : Succeed(n) \/ Fail(n)
             \/ UNCHANGED vars
    BY <1>1, <1>6 DEF Resolve, Commit, Delete, Succeed, Fail, registryVars, vars
  <1>7. nextId \in Nat
    BY DEF TypeOK
  <1> QED
    BY <1>1, <1>2, <1>3, <1>4, <1>5, <1>6, <1>7 DEF Next, Kept

\* Requests stay what they are about, and success is final.
LEMMA RequestsStay ==
  ASSUME TypeOK, [Next]_vars, NEW n \in DOMAIN requests
  PROVE  /\ n \in DOMAIN requests'
         /\ requests'[n].app = requests[n].app /\ requests'[n].env = requests[n].env
         /\ requests[n].status = "success" => requests'[n].status = "success"
  <1>0. requests \in Seq(RequestRow) /\ DOMAIN requests = 1 .. Len(requests)
    BY DEF TypeOK, RequestRow
  <1>1. CASE requests' = requests
    BY <1>1
  <1>2. ASSUME NEW a \in Apps, NEW e \in Envs \cup {None},
               requests' = Append(requests, OpenRequest(a, e))
        PROVE  n \in DOMAIN requests' /\ requests'[n] = requests[n]
    <2>1. OpenRequest(a, e) \in RequestRow
      BY DEF OpenRequest, RequestRow
    <2> QED
      BY <1>0, <1>2, <2>1, AppendProperties
  <1>3. ASSUME NEW m \in DOMAIN requests, Succeed(m) \/ Fail(m)
        PROVE  /\ n \in DOMAIN requests'
               /\ requests'[n].app = requests[n].app /\ requests'[n].env = requests[n].env
               /\ requests[n].status = "success" => requests'[n].status = "success"
    <2>1. requests[m].status = "open"
      BY <1>3 DEF Succeed, Fail
    <2>2. PICK status \in {"success", "failed"} :
            requests' = [requests EXCEPT ![m].status = status]
      BY <1>3 DEF Succeed, Fail
    <2>3. requests' \in Seq(RequestRow) /\ Len(requests') = Len(requests)
      BY <1>0, <2>2, RequestEnds
    <2> QED
      BY <1>0, <2>1, <2>2, <2>3, RequestEnds
  <1>4. ASSUME NEW k \in Callers,
               \/ \E i \in Inputs : Call(k, i)
               \/ FindByName(k) \/ FindOccupant(k) \/ FindById(k) \/ FindNamesake(k)
               \/ FindServices(k) \/ Save(k) \/ Insert(k) \/ Remove(k)
        PROVE  requests' = requests
    BY <1>4 DEF Call, FindByName, FindOccupant, FindById, FindNamesake, FindServices, Save, Insert,
                Remove
  <1>5. ASSUME NEW a \in Apps, Resolve(a) \/ Commit(a) \/ \E e \in Envs : Delete(a, e)
        PROVE  \/ requests' = requests
               \/ \E e \in Envs \cup {None} : requests' = Append(requests, OpenRequest(a, e))
    BY <1>5 DEF Resolve, Commit, Delete
  <1>6. CASE UNCHANGED vars
    BY <1>1, <1>6 DEF vars
  <1> QED
    BY <1>1, <1>2, <1>3, <1>4, <1>5, <1>6 DEF Next

\* Every step keeps Deleted: what is added is younger than every request, and the
\* success of a delete leaves nothing of its environment.
LEMMA StepDeleted == Tables /\ Deleted /\ [Next]_vars => Deleted'
  <1> SUFFICES ASSUME TypeOK, Inv, Deleted, [Next]_vars,
                      NEW n \in DOMAIN requests', requests'[n].status = "success",
                      requests'[n].env \notin contested',
                      NEW s \in services', s.app = requests'[n].app, s.env = requests'[n].env
               PROVE  s.id > n
    BY DEF Deleted, Tables
  <1>0. /\ requests \in Seq(RequestRow) /\ DOMAIN requests = 1 .. Len(requests)
        /\ contested \subseteq contested'
    BY ClustersStay DEF TypeOK, RequestRow
  <1>1. CASE requests' = requests /\ services' \subseteq services
    BY <1>0, <1>1 DEF Deleted
  <1>2. ASSUME NEW a \in Apps, NEW e \in Envs \cup {None},
               requests' = Append(requests, OpenRequest(a, e))
        PROVE  /\ DOMAIN requests' = 1 .. Len(requests) + 1
               /\ n \in DOMAIN requests /\ requests'[n] = requests[n]
    <2>1. OpenRequest(a, e) \in RequestRow /\ OpenRequest(a, e).status = "open"
      BY DEF OpenRequest, RequestRow
    <2> QED
      BY <1>0, <1>2, <2>1, AppendProperties
  <1>3. ASSUME NEW a \in Apps, Commit(a)
        PROVE  s.id > n
    <2>1. CASE UNCHANGED <<services, requests>>
      BY <1>1, <2>1
    <2>2. CASE /\ requests' = Append(requests, OpenRequest(a, None))
               /\ services' = services \cup {[id |-> Len(requests) + 1, app |-> a,
                                              env |-> deploys[a].env,
                                              cluster |-> deploys[a].cluster]}
      <3>1. n \in DOMAIN requests /\ requests'[n] = requests[n]
        BY <1>2, <2>2
      <3>2. CASE s \in services
        BY <1>0, <3>1, <3>2 DEF Deleted
      <3>3. CASE s.id = Len(requests) + 1
        BY <1>0, <3>1, <3>3
      <3> QED
        BY <2>2, <3>2, <3>3
    <2> QED
      BY <1>3, <2>1, <2>2 DEF Commit
  <1>4. ASSUME NEW a \in Apps, NEW e \in Envs, Delete(a, e)
        PROVE  s.id > n
    BY <1>0, <1>2, <1>4 DEF Delete, Deleted
  <1>5. ASSUME NEW m \in DOMAIN requests, Succeed(m)
        PROVE  s.id > n
    <2>1. /\ n \in DOMAIN requests /\ s \in services
          /\ requests'[n].app = requests[n].app /\ requests'[n].env = requests[n].env
          /\ n # m => requests'[n] = requests[n]
      BY <1>0, <1>5, RequestEnds DEF Succeed
    <2>2. CASE n # m
      BY <1>0, <2>1, <2>2 DEF Deleted
    <2>3. CASE n = m
      <3>1. s.env \in Envs /\ s.app \in Apps /\ requests[m].env # None
        BY <2>1, <2>3, RegistryAssumption DEF TypeOK, Service
      <3>2. PICK found \in Found(requests[m].app, requests[m].env) : services' = services \ found
        BY <1>5, <3>1 DEF Succeed
      <3>3. s \in found
        BY <1>0, <2>1, <2>3, <3>1, <3>2, FindsAll
      <3> QED
        BY <3>2, <3>3
    <2> QED
      BY <2>2, <2>3
  <1>6. ASSUME NEW m \in DOMAIN requests, Fail(m)
        PROVE  s.id > n
    <2>1. /\ n \in DOMAIN requests /\ services' = services
          /\ requests'[n].app = requests[n].app /\ requests'[n].env = requests[n].env
          /\ n # m => requests'[n] = requests[n]
      BY <1>0, <1>6, RequestEnds DEF Fail
    <2>2. requests'[m].status = "failed"
      <3>1. requests[m] \in RequestRow
        BY <1>0, ElementOfSeq
      <3> QED
        BY <1>0, <1>6, <3>1 DEF Fail, RequestRow
    <2> QED
      BY <1>0, <2>1, <2>2 DEF Deleted
  <1>7. CASE \/ \E k \in Callers :
                   \/ \E i \in Inputs : Call(k, i)
                   \/ FindByName(k) \/ FindOccupant(k) \/ FindById(k) \/ FindNamesake(k)
                   \/ FindServices(k) \/ Save(k) \/ Insert(k) \/ Remove(k)
             \/ \E a \in Apps : Resolve(a)
             \/ UNCHANGED vars
    BY <1>1, <1>7 DEF Call, FindByName, FindOccupant, FindById, FindNamesake, FindServices, Save,
                      Insert, Remove, Resolve, registryVars, vars
  <1> QED
    BY <1>3, <1>4, <1>5, <1>6, <1>7 DEF Next

-----------------------------------------------------------------------------
(* Readers *)

\* A step beside a reader leaves it what it holds.
LEMMA Beside ==
  ASSUME Tables, Inv', [Next]_vars, NEW v, Reader(v)
  PROVE  Reader(v)'
  <1>0. TypeOK /\ nextId \in Nat /\ v \in ViewState
    BY DEF Tables, TypeOK, Reader
  <1>1. /\ nextId' \in Nat /\ nextId <= nextId' /\ contested \subseteq contested'
        /\ \A d \in clusters' : (\E c \in clusters : c.id = d.id /\ c.env = d.env) \/ d.id = nextId
    BY <1>0, ClustersStay
  <1>2. \A n \in DOMAIN requests :
           /\ n \in DOMAIN requests'
           /\ requests'[n].app = requests[n].app /\ requests'[n].env = requests[n].env
           /\ requests[n].status = "success" => requests'[n].status = "success"
    BY <1>0, RequestsStay
  <1>3. \A s \in v.services : s.cluster \in Nat
    BY <1>0 DEF ViewState, Service
  <1>4. v.status = "success" => v.request \in DOMAIN requests
    BY DEF Reader, Held
  <1>5. Held(v)'
    BY <1>2 DEF Reader, Held
  <1>6. Snapshot(v)'
    <2>1. ASSUME NEW s \in v.services, NEW c \in clusters', c.id = s.cluster
          PROVE  c.env = s.env
      BY <1>0, <1>1, <1>3, <2>1 DEF Reader, Snapshot
    <2>2. \A s \in v.services : s.cluster < nextId'
      BY <1>0, <1>1, <1>3 DEF Reader, Snapshot
    <2>3. \A s \in v.services : v.status = "success" /\ requests'[v.request].env \notin contested'
              /\ s.env = requests'[v.request].env => s.id > v.request
      BY <1>1, <1>2, <1>4 DEF Reader, Snapshot
    <2>4. \A s, t \in v.services : s.env = t.env /\ s.env \notin contested' => s.cluster = t.cluster
      BY <1>1 DEF Reader, Snapshot
    <2>5. v.pc # "blocks" => v.services = {} /\ v.todo = {} /\ v.blocks = {}
      BY DEF Reader, Snapshot
    <2> QED
      BY <2>1, <2>2, <2>3, <2>4, <2>5 DEF Snapshot
  <1>7. Blocks(v)'
    <2>1. ASSUME NEW b \in v.blocks, b.env = None, NEW c \in clusters', c.id = b.cluster
          PROVE  FALSE
      <3>1. PICK s \in v.services : s.cluster = b.cluster
        BY DEF Reader, Blocks
      <3>2. c.id < nextId
        BY <2>1, <3>1 DEF Reader, Snapshot
      <3> QED
        BY <1>0, <1>1, <1>3, <2>1, <3>1, <3>2 DEF Reader, Blocks
    <2> QED
      BY <2>1 DEF Reader, Blocks
  <1> QED
    BY <1>0, <1>5, <1>6, <1>7 DEF Reader

\* A read gives a reader what the tables hold.
LEMMA Reading ==
  ASSUME Tables, Deleted, Views, NEW r \in Readers, Read(r)
  PROVE  Views'
  <1> DEFINE v == view[r]
  <1>0. /\ view \in [Readers -> ViewState] /\ Reader(v) /\ v \in ViewState
        /\ requests \in Seq(RequestRow) /\ DOMAIN requests = 1 .. Len(requests)
    BY DEF Views, Tables, TypeOK, RequestRow
  <1>1. v = [pc |-> v.pc, app |-> v.app, request |-> v.request, status |-> v.status, job |-> v.job,
             services |-> v.services, todo |-> v.todo, blocks |-> v.blocks]
    BY <1>0 DEF ViewState
  <1>2. UNCHANGED vars
    BY DEF Read, Open, ReadRequest, ReadJob, ReadServices, ReadCluster, Answer
  <1>3. ASSUME NEW w, view' = [view EXCEPT ![r] = w], Reader(w)
        PROVE  Views'
    <2>1. w \in ViewState
      BY <1>3 DEF Reader
    <2>2. view' \in [Readers -> ViewState]
      BY <1>0, <1>3, <2>1
    <2>3. \A q \in Readers : Reader(view'[q])
      BY <1>0, <1>3 DEF Views
    <2>4. \A q \in Readers : Reader(view[q])'
      BY <1>2, <2>3 DEF Reader, Held, Snapshot, Blocks, vars
    <2> QED
      BY <2>2, <2>4 DEF Views
  <1>4. ASSUME NEW a \in Apps, Open(r, a) PROVE Views'
    <2> DEFINE w == [NoView EXCEPT !.app = a, !.pc = "request"]
    <2>0. NoView = [pc |-> "idle", app |-> None, request |-> NoId, status |-> "none",
                    job |-> "none", services |-> {}, todo |-> {}, blocks |-> {}]
      BY DEF NoView
    <2>1. view' = [view EXCEPT ![r] = w]
      BY <1>4 DEF Open
    <2>2. w = [NoView EXCEPT !.app = a, !.pc = "request"]
      OBVIOUS
    <2> HIDE DEF w
    <2>3. w = [pc |-> "request", app |-> a, request |-> NoId, status |-> "none", job |-> "none",
               services |-> {}, todo |-> {}, blocks |-> {}]
      BY <2>0, <2>2
    <2>4. Reader(w)
      BY <2>3 DEF NoId, Reader, ViewState, ReaderPCs, Statuses, Held, Snapshot, Blocks
    <2> QED
      BY <1>3, <2>1, <2>4
  <1>5. CASE ReadRequest(r)
    <2>1. PICK n \in RequestsOf(v.app) :
            view' = [view EXCEPT ![r].request = n, ![r].status = requests[n].status, ![r].pc = "job"]
      BY <1>5 DEF ReadRequest
    <2> DEFINE w == [v EXCEPT !.request = n, !.status = requests[n].status, !.pc = "job"]
    <2>2. view' = [view EXCEPT ![r] = w]
      BY <1>0, <2>1
    <2>3. w = [v EXCEPT !.request = n, !.status = requests[n].status, !.pc = "job"]
      OBVIOUS
    <2> HIDE DEF w, v
    <2>4. w = [pc |-> "job", app |-> v.app, request |-> n, status |-> requests[n].status,
               job |-> v.job, services |-> v.services, todo |-> v.todo, blocks |-> v.blocks]
      BY <1>1, <2>3
    <2>5. n \in DOMAIN requests /\ requests[n].app = v.app /\ n \in Nat
      BY <1>0, <2>1 DEF RequestsOf
    <2>6. requests[n].status \in Statuses
      <3>1. requests[n] \in RequestRow
        BY <1>0, <2>5, ElementOfSeq
      <3> QED
        BY <3>1 DEF RequestRow, Statuses
    <2>7. v.pc = "request"
      BY <1>5 DEF ReadRequest, v
    <2>8. v.services = {} /\ v.todo = {} /\ v.blocks = {}
      BY <1>0, <2>7 DEF Reader, Snapshot
    <2>9. Reader(w)
      BY <1>0, <2>4, <2>5, <2>6, <2>8 DEF Reader, ViewState, ReaderPCs, Held, Snapshot, Blocks
    <2> QED
      BY <1>3, <2>2, <2>9
  <1>6. CASE ReadJob(r)
    <2> DEFINE w == [v EXCEPT !.job = requests[v.request].status, !.pc = "services"]
    <2>1. view' = [view EXCEPT ![r] = w]
      BY <1>0, <1>6 DEF ReadJob
    <2>2. w = [v EXCEPT !.job = requests[v.request].status, !.pc = "services"]
      OBVIOUS
    <2>3. v.pc = "job"
      BY <1>6 DEF ReadJob
    <2> HIDE DEF w, v
    <2>4. w = [pc |-> "services", app |-> v.app, request |-> v.request, status |-> v.status,
               job |-> requests[v.request].status, services |-> v.services, todo |-> v.todo,
               blocks |-> v.blocks]
      BY <1>1, <2>2
    <2>5. v.request \in DOMAIN requests
      BY <1>0, <2>3 DEF Reader, Held
    <2>6. requests[v.request].status \in Statuses
      <3>1. requests[v.request] \in RequestRow
        BY <1>0, <2>5, ElementOfSeq
      <3> QED
        BY <3>1 DEF RequestRow, Statuses
    <2>7. v.services = {} /\ v.todo = {} /\ v.blocks = {}
      BY <1>0, <2>3 DEF Reader, Snapshot
    <2>8. Reader(w)
      BY <1>0, <2>3, <2>4, <2>5, <2>6, <2>7
         DEF Reader, ViewState, ReaderPCs, Held, Snapshot, Blocks
    <2> QED
      BY <1>3, <2>1, <2>8
  <1>7. CASE ReadServices(r)
    <2> DEFINE w == [v EXCEPT !.services = Owned(v.app), !.pc = "blocks",
                              !.todo = {s.cluster : s \in Owned(v.app)}]
    <2>1. view' = [view EXCEPT ![r] = w]
      BY <1>0, <1>7 DEF ReadServices
    <2>2. w = [v EXCEPT !.services = Owned(v.app), !.pc = "blocks",
                        !.todo = {s.cluster : s \in Owned(v.app)}]
      OBVIOUS
    <2>3. v.pc = "services"
      BY <1>7 DEF ReadServices
    <2> HIDE DEF w, v
    <2>4. w = [pc |-> "blocks", app |-> v.app, request |-> v.request, status |-> v.status,
               job |-> v.job, services |-> Owned(v.app),
               todo |-> {s.cluster : s \in Owned(v.app)}, blocks |-> v.blocks]
      BY <1>1, <2>2
    <2>5. v.blocks = {}
      BY <1>0, <2>3 DEF Reader, Snapshot
    <2>6. Owned(v.app) \subseteq Service /\ Owned(v.app) \subseteq services
          /\ \A s \in Owned(v.app) : s.app = v.app /\ s.cluster \in Nat
      BY DEF Owned, Tables, TypeOK, Service
    <2>7. w \in ViewState /\ Held(w)
      BY <1>0, <2>3, <2>4, <2>5, <2>6 DEF Reader, ViewState, ReaderPCs, Held
    <2>8. Snapshot(w)
      <3>1. ASSUME NEW s \in Owned(v.app)
            PROVE  /\ s.cluster < nextId
                   /\ \A c \in clusters : c.id = s.cluster => c.env = s.env
        <4>1. PICK c \in clusters : c.id = s.cluster /\ c.env = s.env
          BY <2>6, <3>1 DEF Tables, Inv, ServicesRouted
        <4> QED
          BY <4>1 DEF Tables, TypeOK
      <3>2. \A s, t \in Owned(v.app) : s.env = t.env /\ s.env \notin contested
                                         => s.cluster = t.cluster
        <4>1. EnvironmentOnOneCluster
          BY DEF Tables, Inv, ServicesRouted, OnePerEnvironment, EnvironmentOnOneCluster
        <4> QED
          BY <2>6, <4>1 DEF EnvironmentOnOneCluster
      <3>3. \A s \in Owned(v.app) :
               v.status = "success" /\ requests[v.request].env \notin contested
                 /\ s.env = requests[v.request].env => s.id > v.request
        <4>1. v.request \in DOMAIN requests /\ requests[v.request].app = v.app
              /\ (v.status = "success" => requests[v.request].status = "success")
          BY <1>0, <2>3 DEF Reader, Held
        <4> QED
          BY <2>6, <4>1 DEF Deleted
      <3> QED
        BY <2>4, <3>1, <3>2, <3>3 DEF Snapshot
    <2>9. Blocks(w)
      BY <2>4, <2>5 DEF Blocks
    <2> QED
      BY <1>3, <2>1, <2>7, <2>8, <2>9 DEF Reader
  <1>8. ASSUME NEW id \in 1..MaxClusters, ReadCluster(r, id) PROVE Views'
    <2>1. PICK env : /\ env = IF \E c \in clusters : c.id = id
                                THEN (CHOOSE c \in clusters : c.id = id).env ELSE None
      OBVIOUS
    <2> DEFINE b == [cluster |-> id, env |-> env]
    <2> DEFINE w == [v EXCEPT !.todo = @ \ {id}, !.blocks = @ \cup {b}]
    <2>2. view' = [view EXCEPT ![r] = w]
      BY <1>0, <1>8, <2>1 DEF ReadCluster
    <2>3. w = [v EXCEPT !.todo = v.todo \ {id}, !.blocks = v.blocks \cup {b}]
      BY <1>1
    <2>4. v.pc = "blocks" /\ id \in v.todo
      BY <1>8 DEF ReadCluster
    <2> HIDE DEF w, v
    <2>5. w = [pc |-> v.pc, app |-> v.app, request |-> v.request, status |-> v.status,
               job |-> v.job, services |-> v.services, todo |-> v.todo \ {id},
               blocks |-> v.blocks \cup {b}]
      <3> HIDE DEF b
      <3> QED
        BY <1>1, <2>3
    <2>6. \/ env = None /\ \A c \in clusters : c.id # id
          \/ \E c \in clusters : c.id = id /\ env = c.env /\ c.env \in Envs /\ env # None
      <3>1. \A c \in clusters : c.env \in Envs /\ c.env # None
        BY RegistryAssumption DEF Tables, TypeOK, Cluster
      <3> QED
        BY <2>1, <3>1
    <2>7. b.cluster = id /\ b.env = env /\ b \in [cluster : Nat, env : Envs \cup {None}]
      BY <1>0, <2>4, <2>6 DEF ViewState
    <2> HIDE DEF b
    <2>8. w \in ViewState
      BY <1>0, <2>5, <2>7 DEF ViewState
    <2>9. Held(w)
      BY <1>0, <2>5 DEF Reader, Held
    <2>10. Snapshot(w)
      BY <1>0, <2>4, <2>5 DEF Reader, Snapshot
    <2>11. Blocks(w)
      <3>1. PICK s \in v.services : s.cluster = id
        BY <1>0, <2>4 DEF Reader, Blocks
      <3>2. env # None => \A t \in v.services : t.cluster = id => t.env = env
        BY <1>0, <2>6 DEF Reader, Snapshot
      <3>3. \A d \in v.blocks : d.cluster # id
        BY <1>0, <2>4 DEF Reader, Blocks
      <3>4. \A d \in v.blocks \cup {b} :
              /\ d.cluster \notin v.todo \ {id}
              /\ \E t \in v.services : t.cluster = d.cluster
              /\ d.env # None => \A t \in v.services : t.cluster = d.cluster => t.env = d.env
              /\ d.env = None => \A c \in clusters : c.id # d.cluster
        <4>1. CASE env = None
          BY <1>0, <2>6, <2>7, <3>1, <4>1 DEF Reader, Blocks
        <4>2. CASE env # None
          BY <1>0, <2>7, <3>1, <3>2, <4>2 DEF Reader, Blocks
        <4> QED
          BY <4>1, <4>2
      <3>5. \A d, f \in v.blocks \cup {b} : d.cluster = f.cluster => d = f
        BY <1>0, <2>7, <3>3 DEF Reader, Blocks
      <3>6. \A i \in v.todo \ {id} : \E t \in v.services : t.cluster = i
        BY <1>0 DEF Reader, Blocks
      <3> QED
        BY <2>5, <3>4, <3>5, <3>6 DEF Blocks
    <2> QED
      BY <1>3, <2>2, <2>8, <2>9, <2>10, <2>11 DEF Reader
  <1>9. CASE Answer(r)
    BY <1>3, <1>9, IdleReader DEF Answer
  <1> QED
    BY <1>4, <1>5, <1>6, <1>7, <1>8, <1>9 DEF Read

\* The tables and what every reader holds, at every moment.
LEMMA ReadersHold == StatusSpec => [](Tables /\ Deleted /\ Views)
  <1>1. StatusInit => Deleted /\ Views
    BY IdleReader DEF StatusInit, Init, Deleted, Views, Reader
  <1>2. Tables /\ Tables' /\ Deleted /\ Views /\ [StatusNext]_statusVars => Deleted' /\ Views'
    <2> SUFFICES ASSUME Tables, Tables', Deleted, Views, [StatusNext]_statusVars
                 PROVE  Deleted' /\ Views'
      OBVIOUS
    <2>1. CASE [Next]_vars /\ UNCHANGED view
      <3>1. \A r \in Readers : Reader(view[r])'
        BY <2>1, Beside DEF Tables, Views, Reader
      <3> QED
        BY <2>1, <3>1, StepDeleted DEF Views
    <2>2. ASSUME NEW r \in Readers, Read(r)
          PROVE  Deleted' /\ Views'
      <3>1. UNCHANGED vars
        BY <2>2 DEF Read, Open, ReadRequest, ReadJob, ReadServices, ReadCluster, Answer
      <3> QED
        BY <2>2, <3>1, Reading, StepDeleted
    <2> QED
      BY <2>1, <2>2 DEF StatusNext, statusVars
  <1> QED
    BY <1>1, <1>2, TablesHold, PTL DEF StatusSpec

\* A response that shows success shows a job that succeeded and nothing of the
\* environment the request deleted, though ten queries read it.
THEOREM Whole == StatusSpec => []SuccessIsWhole
  <1>1. Tables /\ Views => SuccessIsWhole
    BY DEF Views, Reader, Held, Snapshot, SuccessIsWhole
  <1> QED
    BY <1>1, ReadersHold, PTL

\* A block without a cluster is one of services that are gone, and an
\* environment has one block.
THEOREM Named == StatusSpec => []BlocksNamed
  <1>1. ASSUME Tables, Views, NEW r \in Readers, NEW b \in view[r].blocks
        PROVE  /\ b.env = None => \A s \in view[r].services : s.cluster = b.cluster => s \notin services
               /\ \A d \in view[r].blocks :
                     b.env = d.env /\ b # d => b.env \in contested \cup {None}
    <2>0. Snapshot(view[r]) /\ Blocks(view[r])
      BY <1>1 DEF Views, Reader
    <2>1. b.env = None => \A s \in view[r].services : s.cluster = b.cluster => s \notin services
      BY <1>1, <2>0 DEF Blocks, Tables, Inv, ServicesRouted
    <2>2. ASSUME NEW d \in view[r].blocks, b.env = d.env, b # d, b.env # None
          PROVE  b.env \in contested
      <3>1. PICK s \in view[r].services, t \in view[r].services :
              s.cluster = b.cluster /\ t.cluster = d.cluster
        BY <2>0 DEF Blocks
      <3>2. s.env = b.env /\ t.env = b.env /\ s.cluster # t.cluster
        BY <2>0, <2>2, <3>1 DEF Blocks
      <3> QED
        BY <2>0, <3>2 DEF Snapshot
    <2> QED
      BY <2>1, <2>2
  <1>2. Tables /\ Views => BlocksNamed
    BY <1>1 DEF BlocksNamed
  <1> QED
    BY <1>2, ReadersHold, PTL
=============================================================================
