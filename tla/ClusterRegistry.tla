--------------------------- MODULE ClusterRegistry ---------------------------
(***************************************************************************)
(* The cluster table and the rows that depend on it.                       *)
(*                                                                         *)
(* Administrators register, refresh, rename and deregister clusters.  The  *)
(* environment is the key by which everything finds a cluster (get_by_env):*)
(* create and update place services on it, a delete and its purge look for *)
(* the environment's services on it.  Yet the schema knows nothing of the  *)
(* key: unique is the NAME, and a service has a foreign key to a cluster.  *)
(*                                                                         *)
(* Each HTTP call is a sequence of reads and one commit, in a transaction  *)
(* of its own under READ COMMITTED; others commit in between.              *)
(*                                                                         *)
(* Of the applications only what meets the table: one call and one request *)
(* per application at a time (RequestLifecycle).  A create or update adds  *)
(* one service; the delete of an environment removes what it finds there.  *)
(***************************************************************************)
EXTENDS Naturals, Sequences

CONSTANTS
    Callers,     \* HTTP calls on the registry that may overlap
    Inputs,      \* what they ask for
    Apps, Envs, Names, Endpoints, Tokens,
    MaxClusters, \* bound: cluster rows ever inserted
    MaxCalls,    \* bound: calls on the registry
    MaxRequests, \* bound: requests of all applications together
    None         \* an optional field that is not given, a row that is not there

\* A request body.  kubeToken stands for kubeCaCert too.
Input == [op : {"register", "update", "delete"}, name : Names \cup {None}, env : Envs \cup {None},
          endpoint : Endpoints \cup {None}, token : Tokens \cup {None}]

ASSUME RegistryAssumption ==
    /\ Inputs \subseteq Input
    /\ \A i \in Inputs : i.op = "register" => None \notin {i.name, i.env, i.endpoint}
    /\ MaxClusters \in Nat /\ MaxCalls \in Nat /\ MaxRequests \in Nat
    /\ None \notin Names \cup Envs \cup Endpoints \cup Tokens

VARIABLES
    clusters,  \* the cluster table
    nextId,    \* its next clusterId: ids are not used again
    calls,     \* the registry's calls: [input, id, seen, pc, overtaken]
    made,      \* how many there were
    contested, \* history: environments a registration entered although another
               \* one had entered it since it was found free
    services,  \* the service table
    requests,  \* the request table (with the request's job): by id
    deploys    \* its create or update call: the environment and the cluster found

vars == <<clusters, nextId, calls, made, contested, services, requests, deploys>>
registryVars == <<clusters, nextId, calls, made, contested>>

Cluster == [id : Nat, name : Names, env : Envs, endpoint : Endpoints, token : Tokens \cup {None}]
Service == [id : Nat, app : Apps, env : Envs, cluster : Nat]

\* An identity no row has.
NoId == 0
NoInput  == [op |-> "delete", name |-> None, env |-> None, endpoint |-> None, token |-> None]
NoCall   == [input |-> NoInput, id |-> NoId, seen |-> None, pc |-> "idle", overtaken |-> FALSE]
NoDeploy == [env |-> None, cluster |-> NoId]

Init ==
    /\ clusters = {}
    /\ nextId = 1
    /\ calls = [k \in Callers |-> NoCall]
    /\ made = 0
    /\ contested = {}
    /\ services = {}
    /\ requests = <<>>
    /\ deploys = [a \in Apps |-> NoDeploy]

-----------------------------------------------------------------------------
(* Calls on the registry *)

\* The foreign key.
Serves(id) == \E s \in services : s.cluster = id

\* Variant: names need not be unique.
NeverTaken(name, id) == FALSE

\* The unique constraint, for a row of the given id.
Taken(name, id) == \E c \in clusters : c.name = name /\ c.id # id

Goto(k, pc) == calls' = [calls EXCEPT ![k].pc = pc]
End(k)      == calls' = [calls EXCEPT ![k] = NoCall]

\* A path parameter names any row there ever was.
Call(k, i) ==
    /\ calls[k].pc = "idle"
    /\ made < MaxCalls
    /\ made' = made + 1
    /\ \E id \in IF i.op = "register" THEN {NoId} ELSE 1..(nextId - 1) :
          calls' = [calls EXCEPT ![k] = [NoCall EXCEPT !.input = i, !.id = id, !.pc = "find"]]
    /\ UNCHANGED <<clusters, nextId, contested, services, requests, deploys>>

\* get_by_name of a registration.  The same name elsewhere is refused, the same
\* name here is a refresh.
FindByName(k) ==
    LET i == calls[k].input
    IN  /\ calls[k].pc = "find"
        /\ i.op = "register"
        /\ \/ \E c \in clusters :
                /\ c.name = i.name
                /\ \/ c.env # i.env /\ End(k)
                   \/ /\ c.env = i.env
                      /\ calls' = [calls EXCEPT ![k].id = c.id, ![k].seen = c, ![k].pc = "save"]
           \/ (\A c \in clusters : c.name # i.name) /\ Goto(k, "occupant")
        /\ UNCHANGED <<clusters, nextId, made, contested, services, requests, deploys>>

\* Variant: a registration by a new name does not ask who serves the environment.
FindOccupantUnasked(k) ==
    /\ calls[k].pc = "occupant"
    /\ Goto(k, "insert")
    /\ UNCHANGED <<clusters, nextId, made, contested, services, requests, deploys>>

\* get_by_env of a registration: one cluster per environment.
FindOccupant(k) ==
    /\ calls[k].pc = "occupant"
    /\ IF \E c \in clusters : c.env = calls[k].input.env THEN End(k) ELSE Goto(k, "insert")
    /\ UNCHANGED <<clusters, nextId, made, contested, services, requests, deploys>>

\* get_by_id of an update and of a delete.
FindById(k) ==
    LET i == calls[k].input
    IN  /\ calls[k].pc = "find"
        /\ i.op \in {"update", "delete"}
        /\ \/ \E c \in clusters :
                /\ c.id = calls[k].id
                /\ calls' = [calls EXCEPT ![k].seen = c,
                      ![k].pc = IF i.op = "delete" THEN "services"
                                ELSE IF i.name \in {None, c.name} THEN "save" ELSE "name"]
           \/ (\A c \in clusters : c.id # calls[k].id) /\ End(k)
        /\ UNCHANGED <<clusters, nextId, made, contested, services, requests, deploys>>

\* An update to a new name: its occupant.
FindNamesake(k) ==
    /\ calls[k].pc = "name"
    /\ IF Taken(calls[k].input.name, calls[k].id) THEN End(k) ELSE Goto(k, "save")
    /\ UNCHANGED <<clusters, nextId, made, contested, services, requests, deploys>>

\* A delete is refused while services are deployed to the cluster.
FindServices(k) ==
    /\ calls[k].pc = "services"
    /\ IF Serves(calls[k].id) THEN End(k) ELSE Goto(k, "remove")
    /\ UNCHANGED <<clusters, nextId, made, contested, services, requests, deploys>>

\* Variant: the whole row is written as it was read.
WrittenWhole(given, seen, stored) == IF given = None THEN seen ELSE given

\* The UPDATE statement sets what the call gives, if it differs from what the
\* call read.
Written(given, seen, stored) == IF given \in {None, seen} THEN stored ELSE given

Updated(c, i, seen) ==
    [c EXCEPT !.name = Written(i.name, seen.name, @),
              !.endpoint = Written(i.endpoint, seen.endpoint, @),
              !.token = Written(i.token, seen.token, @)]

\* The commit of a refresh or an update: it fails if the row is gone or its new
\* name taken.
Save(k) ==
    /\ calls[k].pc = "save"
    /\ \/ \E c \in clusters :
            /\ c.id = calls[k].id
            /\ LET d == Updated(c, calls[k].input, calls[k].seen)
               IN  clusters' = IF Taken(d.name, d.id) THEN clusters
                               ELSE (clusters \ {c}) \cup {d}
       \/ (\A c \in clusters : c.id # calls[k].id) /\ UNCHANGED clusters
    /\ End(k)
    /\ UNCHANGED <<nextId, made, contested, services, requests, deploys>>

\* The commit of a registration: refused only for its name.
Insert(k) ==
    LET i == calls[k].input
        Rivals == {l \in Callers \ {k} : calls[l].pc = "insert" /\ calls[l].input.env = i.env}
    IN  /\ calls[k].pc = "insert"
        /\ nextId <= MaxClusters
        /\ IF Taken(i.name, NoId)
             THEN UNCHANGED <<clusters, nextId, contested>> /\ End(k)
             ELSE /\ clusters' = clusters \cup {[id |-> nextId, name |-> i.name, env |-> i.env,
                                                 endpoint |-> i.endpoint, token |-> i.token]}
                  /\ nextId' = nextId + 1
                  /\ contested' = IF calls[k].overtaken THEN contested \cup {i.env} ELSE contested
                  /\ calls' = [l \in Callers |->
                        IF l = k THEN NoCall
                        ELSE IF l \in Rivals THEN [calls[l] EXCEPT !.overtaken = TRUE]
                        ELSE calls[l]]
        /\ UNCHANGED <<made, services, requests, deploys>>

\* Variant: services do not refer to their cluster by a foreign key.
RemoveUnreferenced(k) ==
    /\ calls[k].pc = "remove"
    /\ clusters' = {c \in clusters : c.id # calls[k].id}
    /\ End(k)
    /\ UNCHANGED <<nextId, made, contested, services, requests, deploys>>

\* The commit of a delete, refused by the foreign key; a row that is gone
\* already is no error.
Remove(k) ==
    /\ calls[k].pc = "remove"
    /\ clusters' = IF Serves(calls[k].id) THEN clusters
                   ELSE {c \in clusters : c.id # calls[k].id}
    /\ End(k)
    /\ UNCHANGED <<nextId, made, contested, services, requests, deploys>>

-----------------------------------------------------------------------------
(* Applications *)

OpenRequest(a, e) == [app |-> a, env |-> e, status |-> "open"]

\* _reject_in_flight
Free(a) ==
    /\ deploys[a] = NoDeploy
    /\ \A n \in DOMAIN requests : requests[n].app = a => requests[n].status # "open"

\* A create or update resolves the cluster of its environment ...
Resolve(a) ==
    /\ Free(a)
    /\ Len(requests) < MaxRequests
    /\ \E c \in clusters : deploys' = [deploys EXCEPT ![a] = [env |-> c.env, cluster |-> c.id]]
    /\ UNCHANGED <<registryVars, services, requests>>

\* ... and commits its service and its request, unless the cluster is gone by
\* then.  The service has the id of the request that added it.
Commit(a) ==
    /\ deploys[a] # NoDeploy
    /\ Len(requests) < MaxRequests
    /\ deploys' = [deploys EXCEPT ![a] = NoDeploy]
    /\ IF \A c \in clusters : c.id # deploys[a].cluster
         THEN UNCHANGED <<services, requests>>
         ELSE /\ requests' = Append(requests, OpenRequest(a, None))
              /\ services' = services \cup {[id |-> Len(requests) + 1, app |-> a,
                                             env |-> deploys[a].env,
                                             cluster |-> deploys[a].cluster]}
    /\ UNCHANGED registryVars

\* Variant: the lookup is by application only.
FoundAnywhere(a, e) == {{s \in services : s.app = a}}

\* What get_by_app(app, cluster of the environment) may find: get_by_env takes
\* any of several clusters.
Found(a, e) ==
    IF \E c \in clusters : c.env = e
      THEN {{s \in services : s.app = a /\ s.cluster = c.id} : c \in {d \in clusters : d.env = e}}
      ELSE {{}}

\* The delete of an environment is accepted.
Delete(a, e) ==
    /\ Free(a)
    /\ Len(requests) < MaxRequests
    /\ Found(a, e) # {{}}
    /\ requests' = Append(requests, OpenRequest(a, e))
    /\ UNCHANGED <<registryVars, services, deploys>>

\* SUCCESS: _purge_env removes the rows of a delete in the same commit.
Succeed(n) ==
    /\ requests[n].status = "open"
    /\ requests' = [requests EXCEPT ![n].status = "success"]
    /\ \E found \in IF requests[n].env = None THEN {{}}
                    ELSE Found(requests[n].app, requests[n].env) :
          services' = services \ found
    /\ UNCHANGED <<registryVars, deploys>>

\* FAILED changes nothing.
Fail(n) ==
    /\ requests[n].status = "open"
    /\ requests' = [requests EXCEPT ![n].status = "failed"]
    /\ UNCHANGED <<registryVars, services, deploys>>

Next ==
    \/ \E k \in Callers :
          \/ \E i \in Inputs : Call(k, i)
          \/ FindByName(k) \/ FindOccupant(k) \/ FindById(k) \/ FindNamesake(k)
          \/ FindServices(k) \/ Save(k) \/ Insert(k) \/ Remove(k)
    \/ \E a \in Apps :
          \/ Resolve(a) \/ Commit(a)
          \/ \E e \in Envs : Delete(a, e)
    \/ \E n \in DOMAIN requests : Succeed(n) \/ Fail(n)

Spec == Init /\ [][Next]_vars

-----------------------------------------------------------------------------
(* Properties *)

PCs == {"idle", "find", "occupant", "name", "services", "save", "insert", "remove"}
CallState == [input : Input, id : Nat, seen : Cluster \cup {None}, pc : PCs, overtaken : BOOLEAN]

\* Types; and the keys of the cluster table.
TypeOK ==
    /\ clusters \subseteq Cluster
    /\ \A c, d \in clusters : c.id = d.id \/ c.name = d.name => c = d
    /\ \A c \in clusters : c.id \in 1..(nextId - 1)
    /\ nextId \in Nat \ {NoId}
    /\ calls \in [Callers -> CallState]
    /\ made \in Nat
    /\ contested \subseteq Envs
    /\ services \subseteq Service
    /\ requests \in Seq([app : Apps, env : Envs \cup {None},
                         status : {"open", "success", "failed"}])
    /\ deploys \in [Apps -> {NoDeploy} \cup [env : Envs, cluster : Nat]]

\* Every service is on a cluster that is registered, and on one of its own
\* environment: a create that resolved a cluster does not commit after its
\* deregistration, and no deregistration leaves a service behind.
ServicesRouted == \A s \in services : \E c \in clusters : c.id = s.cluster /\ c.env = s.env

\* get_by_env is unambiguous, but for environments where registrations
\* overlapped: each found the environment free, and the second was inserted.
OnePerEnvironment ==
    \A c, d \in clusters : c.env = d.env /\ c # d => c.env \in contested

\* An application's services of one environment are on one cluster, however
\* clusters were replaced between the calls that added them: the status page
\* and every lookup by get_by_env then see all of them or none.
EnvironmentOnOneCluster ==
    \A s, t \in services : s.app = t.app /\ s.env = t.env /\ s.env \notin contested
                             => s.cluster = t.cluster

\* A delete that succeeded has removed every service of its environment, though
\* the purge looks only on the cluster it finds.
DeletedIsGone ==
    [][\A n \in DOMAIN requests :
         /\ requests[n].status = "open" /\ requests'[n].status = "success"
         /\ requests[n].env \notin contested
         => \A s \in services' : s.app = requests[n].app => s.env # requests[n].env]_vars

\* A cluster's endpoint and token change only to what the call that ends gives,
\* and its environment never: a refresh without a token keeps the stored one,
\* the one another call stored meanwhile included.
Gives(k, field, value) ==
    calls[k].pc = "save" /\ value # None /\ calls[k].input[field] = value

CredentialSurvives ==
    [][\A c \in clusters, d \in clusters' : c.id = d.id =>
         /\ d.env = c.env
         /\ \A field \in {"endpoint", "token"} :
              d[field] # c[field] => \E k \in Callers : Gives(k, field, d[field])]_vars

-----------------------------------------------------------------------------
(* The promise of the registry: see EnvironmentRouting *)

\* Where get_by_env leads, and what is placed there.
Routes == {[env |-> c.env, cluster |-> c.id] : c \in {d \in clusters : d.env \notin contested}}
Placed == {s \in services : s.env \notin contested}

Routing == INSTANCE EnvironmentRouting WITH
    Clusters <- 1..MaxClusters, Services <- 1..MaxRequests, routes <- Routes, placed <- Placed

\* Reads and commits of overlapping calls, the foreign key and the purge by
\* environment implement "an environment leads to one cluster, that everything
\* placed there stands on and that is not replaced under it".
RoutesEnvironments == Routing!Spec
=============================================================================
