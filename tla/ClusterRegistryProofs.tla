------------------------ MODULE ClusterRegistryProofs ------------------------
(***************************************************************************)
(* What is proved of the cluster registry, for any number of callers,      *)
(* applications, clusters and requests.                                    *)
(*                                                                         *)
(* Types and keys come first.  The inductive invariant then adds what the  *)
(* commits rely on: clusterIds are not used again, so a create that found  *)
(* a cluster commits on that one or not at all; and a registration that    *)
(* found its environment free knows of every other that entered it since.  *)
(***************************************************************************)
EXTENDS ClusterRegistry, SequenceTheorems, TLAPS

RequestRow == [app : Apps, env : Envs \cup {None}, status : {"open", "success", "failed"}]

\* A caller without a call.
LEMMA Idle == NoCall \in CallState /\ NoCall.pc = "idle"
  BY DEF NoCall, NoInput, NoId, CallState, Input, PCs

\* A written field is what was stored or what was given.
LEMMA WrittenIs ==
  ASSUME NEW given, NEW seen, NEW stored
  PROVE  \/ Written(given, seen, stored) = stored
         \/ (given # None /\ Written(given, seen, stored) = given)
  BY DEF Written

-----------------------------------------------------------------------------
(* Types and keys *)

\* Before any call, everything is empty.
LEMMA InitTyped == Init => TypeOK
  <1> SUFFICES ASSUME Init PROVE TypeOK
    OBVIOUS
  <1>1. calls \in [Callers -> CallState]
    BY Idle DEF Init
  <1>2. deploys \in [Apps -> {NoDeploy} \cup [env : Envs, cluster : Nat]]
    BY DEF Init
  <1>3. requests \in Seq(RequestRow)
    BY DEF Init
  <1> QED
    BY <1>1, <1>2, <1>3 DEF Init, TypeOK, RequestRow, NoId

\* The state of one call after a step that moves or ends it.
LEMMA CallMoves ==
  ASSUME TypeOK, NEW k \in Callers, NEW pc \in PCs,
         calls' = [calls EXCEPT ![k].pc = pc] \/ calls' = [calls EXCEPT ![k] = NoCall]
  PROVE  calls' \in [Callers -> CallState]
  <1>1. calls[k] \in CallState
    BY DEF TypeOK
  <1>2. [calls[k] EXCEPT !.pc = pc] \in CallState
    BY <1>1 DEF CallState
  <1> QED
    BY <1>1, <1>2, Idle DEF TypeOK

\* The row a refresh or an update commits.
LEMMA UpdatedRow ==
  ASSUME NEW c \in Cluster, NEW i \in Input, NEW seen
  PROVE  LET d == Updated(c, i, seen)
         IN  /\ d \in Cluster
             /\ d.id = c.id /\ d.env = c.env
             /\ d.endpoint = c.endpoint \/ (d.endpoint = i.endpoint /\ d.endpoint # None)
             /\ d.token = c.token \/ (d.token = i.token /\ d.token # None)
  <1> DEFINE n == Written(i.name, seen.name, c.name)
             p == Written(i.endpoint, seen.endpoint, c.endpoint)
             t == Written(i.token, seen.token, c.token)
  <1> DEFINE d == Updated(c, i, seen)
  <1>1. d = [id |-> c.id, name |-> n, env |-> c.env, endpoint |-> p, token |-> t]
    <2>1. DOMAIN c = {"id", "name", "env", "endpoint", "token"} /\ c = [f \in DOMAIN c |-> c[f]]
      BY DEF Cluster
    <2>2. d = [c EXCEPT !["name"] = n, !["endpoint"] = p, !["token"] = t]
      BY DEF Updated
    <2> HIDE DEF n, p, t, d
    <2> QED
      BY <2>1, <2>2
  <1>2. n \in Names
    BY WrittenIs DEF Cluster, Input
  <1>3. p \in Endpoints /\ (p = c.endpoint \/ (p = i.endpoint /\ p # None))
    BY WrittenIs DEF Cluster, Input
  <1>4. t \in Tokens \cup {None} /\ (t = c.token \/ (t = i.token /\ t # None))
    BY WrittenIs DEF Cluster, Input
  <1> HIDE DEF n, p, t
  <1>5. d.id = c.id /\ d.env = c.env /\ d.endpoint = p /\ d.token = t
    <2> HIDE DEF d
    <2> QED
      BY <1>1
  <1>6. d \in Cluster
    <2> HIDE DEF d
    <2> QED
      BY <1>1, <1>2, <1>3, <1>4 DEF Cluster
  <1> HIDE DEF d
  <1>7. /\ d.endpoint = c.endpoint \/ (d.endpoint = i.endpoint /\ d.endpoint # None)
        /\ d.token = c.token \/ (d.token = i.token /\ d.token # None)
    BY <1>3, <1>4, <1>5
  <1> QED
    BY <1>5, <1>6, <1>7 DEF d

\* Requests are appended and end.
LEMMA RequestAdded ==
  ASSUME requests \in Seq(RequestRow), NEW a \in Apps, NEW e \in Envs \cup {None}
  PROVE  Append(requests, OpenRequest(a, e)) \in Seq(RequestRow)
  <1>1. OpenRequest(a, e) \in RequestRow
    BY DEF OpenRequest, RequestRow
  <1> QED
    BY <1>1, AppendProperties

\* A request keeps what it is about.
LEMMA RequestEnds ==
  ASSUME requests \in Seq(RequestRow), NEW n \in DOMAIN requests,
         NEW status \in {"success", "failed"},
         requests' = [requests EXCEPT ![n].status = status]
  PROVE  /\ requests' \in Seq(RequestRow)
         /\ Len(requests') = Len(requests)
         /\ \A m \in DOMAIN requests :
               /\ requests'[m].app = requests[m].app /\ requests'[m].env = requests[m].env
               /\ m # n => requests'[m] = requests[m]
  <1> DEFINE row == [requests[n] EXCEPT !.status = status]
  <1>1. DOMAIN requests = 1 .. Len(requests)
    OBVIOUS
  <1>2. requests[n] \in RequestRow
    BY <1>1, ElementOfSeq
  <1>3. /\ row \in RequestRow
        /\ row.app = requests[n].app /\ row.env = requests[n].env
    BY <1>2 DEF RequestRow
  <1>4. requests' = [requests EXCEPT ![n] = row]
    OBVIOUS
  <1> HIDE DEF row
  <1> QED
    BY <1>1, <1>3, <1>4, ExceptSeq

\* A call under way is one a caller may make, and what inserts registers.
Asked ==
    \A k \in Callers :
        /\ calls[k].pc # "idle" => calls[k].input \in Inputs
        /\ calls[k].pc \in {"occupant", "insert"} => calls[k].input.op = "register"

\* One call moves, the others keep what they ask for.
LEMMA StepAsked == TypeOK /\ Asked /\ [Next]_vars => Asked'
  <1> SUFFICES ASSUME TypeOK, Asked, [Next]_vars, NEW k \in Callers
               PROVE  /\ calls'[k].pc # "idle" => calls'[k].input \in Inputs
                      /\ calls'[k].pc \in {"occupant", "insert"} => calls'[k].input.op = "register"
    BY DEF Asked
  <1> DEFINE Same == /\ calls'[k].input = calls[k].input
                     /\ calls[k].pc # "idle"
                     /\ calls'[k].pc \in {"occupant", "insert"} =>
                          calls[k].pc \in {"occupant", "insert"} \/ calls[k].input.op = "register"
  <1>0. calls \in [Callers -> CallState] /\ NoCall.pc = "idle"
    BY Idle DEF TypeOK
  <1>1. ASSUME NEW l \in Callers, NEW i \in Inputs, Call(l, i)
        PROVE  calls'[k] = calls[k] \/ (calls'[k].input \in Inputs /\ calls'[k].pc = "find")
    BY <1>0, <1>1 DEF Call, NoCall
  <1>2. ASSUME NEW l \in Callers,
               \/ FindByName(l) \/ FindOccupant(l) \/ FindById(l) \/ FindNamesake(l)
               \/ FindServices(l) \/ Save(l) \/ Insert(l) \/ Remove(l)
        PROVE  calls'[k] = calls[k] \/ calls'[k] = NoCall \/ Same
    <2>0. calls[k] = [input |-> calls[k].input, id |-> calls[k].id, seen |-> calls[k].seen,
                      pc |-> calls[k].pc, overtaken |-> calls[k].overtaken]
      BY <1>0 DEF CallState
    <2>1. CASE FindByName(l)
      <3>1. CASE End(l)
        BY <1>0, <3>1 DEF End
      <3>2. CASE Goto(l, "occupant")
        <4>1. calls[l].pc = "find" /\ calls[l].input.op = "register"
          BY <2>1 DEF FindByName
        <4> QED
          BY <1>0, <2>0, <3>2, <4>1 DEF Goto
      <3>3. ASSUME NEW c \in clusters,
                   calls' = [calls EXCEPT ![l].id = c.id, ![l].seen = c, ![l].pc = "save"]
            PROVE  calls'[k] = calls[k] \/ Same
        <4>1. calls[l].pc = "find"
          BY <2>1 DEF FindByName
        <4> QED
          BY <1>0, <2>0, <3>3, <4>1
      <3> QED
        BY <2>1, <3>1, <3>2, <3>3 DEF FindByName
    <2>2. CASE FindOccupant(l)
      BY <1>0, <2>0, <2>2 DEF FindOccupant, End, Goto
    <2>3. CASE FindById(l)
      <3>1. CASE End(l)
        BY <1>0, <3>1 DEF End
      <3>2. CASE \E c \in clusters, pc \in {"services", "save", "name"} :
                   calls' = [calls EXCEPT ![l].seen = c, ![l].pc = pc]
        <4>1. PICK c \in clusters, pc \in {"services", "save", "name"} :
                calls' = [calls EXCEPT ![l].seen = c, ![l].pc = pc]
          BY <3>2
        <4>2. calls[l].pc = "find"
          BY <2>3 DEF FindById
        <4> QED
          BY <1>0, <2>0, <4>1, <4>2
      <3> QED
        BY <2>3, <3>1, <3>2 DEF FindById
    <2>4. CASE FindNamesake(l)
      BY <1>0, <2>0, <2>4 DEF FindNamesake, End, Goto
    <2>5. CASE FindServices(l)
      <3>1. CASE End(l)
        BY <1>0, <3>1 DEF End
      <3>2. CASE Goto(l, "remove")
        BY <1>0, <2>0, <2>5, <3>2 DEF FindServices, Goto
      <3> QED
        BY <2>5, <3>1, <3>2 DEF FindServices
    <2>6. CASE Save(l)
      BY <1>0, <2>6 DEF Save, End
    <2>7. CASE Insert(l)
      BY <1>0, <2>0, <2>7 DEF Insert, End
    <2>8. CASE Remove(l)
      BY <1>0, <2>8 DEF Remove, End
    <2> QED
      BY <1>2, <2>1, <2>2, <2>3, <2>4, <2>5, <2>6, <2>7, <2>8
  <1>3. CASE \/ \E a \in Apps : Resolve(a) \/ Commit(a) \/ \E e \in Envs : Delete(a, e)
             \/ \E n \in DOMAIN requests : Succeed(n) \/ Fail(n)
             \/ UNCHANGED vars
    <2>1. UNCHANGED calls
      BY <1>3 DEF Resolve, Commit, Delete, Succeed, Fail, registryVars, vars
    <2> QED
      BY <2>1 DEF Asked
  <1>4. calls'[k] = calls[k] \/ calls'[k] = NoCall \/ Same
            \/ (calls'[k].input \in Inputs /\ calls'[k].pc = "find")
         => /\ calls'[k].pc # "idle" => calls'[k].input \in Inputs
            /\ calls'[k].pc \in {"occupant", "insert"} => calls'[k].input.op = "register"
    BY <1>0 DEF Asked
  <1> HIDE DEF Same
  <1> QED
    BY <1>1, <1>2, <1>3, <1>4 DEF Next

\* Every step keeps the types and the keys.
LEMMA StepTyped == TypeOK /\ Asked /\ [Next]_vars => TypeOK'
  <1> SUFFICES ASSUME TypeOK, Asked, [Next]_vars
               PROVE  TypeOK'
    OBVIOUS
  <1>0. requests \in Seq(RequestRow)
    BY DEF TypeOK, RequestRow
  <1>1. ASSUME NEW k \in Callers, NEW i \in Inputs, Call(k, i)
        PROVE  TypeOK'
    <2>1. PICK id \in Nat :
             calls' = [calls EXCEPT ![k] = [NoCall EXCEPT !.input = i, !.id = id, !.pc = "find"]]
      <3>1. PICK id \in IF i.op = "register" THEN {NoId} ELSE 1..(nextId - 1) :
               calls' = [calls EXCEPT ![k] = [NoCall EXCEPT !.input = i, !.id = id, !.pc = "find"]]
        BY <1>1 DEF Call
      <3>2. id \in Nat
        BY <3>1 DEF NoId, TypeOK
      <3> QED
        BY <3>1, <3>2
    <2>2. [NoCall EXCEPT !.input = i, !.id = id, !.pc = "find"] \in CallState
      BY RegistryAssumption, Idle DEF CallState, PCs
    <2>3. calls' \in [Callers -> CallState]
      BY <2>1, <2>2 DEF TypeOK
    <2> QED
      BY <1>1, <2>3 DEF Call, TypeOK
  <1>2. ASSUME NEW k \in Callers, FindByName(k)
        PROVE  TypeOK'
    <2>1. calls' \in [Callers -> CallState]
      <3>1. CASE \E c \in clusters : calls' = [calls EXCEPT ![k].id = c.id, ![k].seen = c,
                                                           ![k].pc = "save"]
        <4>1. PICK c \in clusters : calls' = [calls EXCEPT ![k].id = c.id, ![k].seen = c,
                                                           ![k].pc = "save"]
          BY <3>1
        <4>2. calls[k] \in CallState /\ c \in Cluster /\ c.id \in Nat
          BY DEF TypeOK, Cluster
        <4>3. [calls[k] EXCEPT !.id = c.id, !.seen = c, !.pc = "save"] \in CallState
          BY <4>2 DEF CallState, PCs
        <4> QED
          BY <4>1, <4>3 DEF TypeOK
      <3>2. CASE End(k) \/ Goto(k, "occupant")
        <4>1. "occupant" \in PCs
          BY DEF PCs
        <4> QED
          BY <3>2, <4>1, CallMoves DEF End, Goto
      <3> QED
        BY <1>2, <3>1, <3>2 DEF FindByName
    <2> QED
      BY <1>2, <2>1 DEF FindByName, TypeOK
  <1>3. ASSUME NEW k \in Callers, FindOccupant(k)
        PROVE  TypeOK'
    <2>1. calls' \in [Callers -> CallState]
      BY <1>3, CallMoves DEF FindOccupant, End, Goto, PCs
    <2> QED
      BY <1>3, <2>1 DEF FindOccupant, TypeOK
  <1>4. ASSUME NEW k \in Callers, FindById(k)
        PROVE  TypeOK'
    <2>1. calls' \in [Callers -> CallState]
      <3>1. CASE \E c \in clusters, pc \in PCs :
                   calls' = [calls EXCEPT ![k].seen = c, ![k].pc = pc]
        <4>1. PICK c \in clusters, pc \in PCs :
                 calls' = [calls EXCEPT ![k].seen = c, ![k].pc = pc]
          BY <3>1
        <4>2. calls[k] \in CallState /\ c \in Cluster
          BY DEF TypeOK
        <4>3. [calls[k] EXCEPT !.seen = c, !.pc = pc] \in CallState
          BY <4>2 DEF CallState
        <4> QED
          BY <4>1, <4>3 DEF TypeOK
      <3>2. CASE End(k)
        <4>1. "idle" \in PCs
          BY DEF PCs
        <4> QED
          BY <3>2, <4>1, CallMoves DEF End
      <3> QED
        BY <1>4, <3>1, <3>2 DEF FindById, PCs
    <2> QED
      BY <1>4, <2>1 DEF FindById, TypeOK
  <1>5. ASSUME NEW k \in Callers, FindNamesake(k)
        PROVE  TypeOK'
    <2>1. calls' \in [Callers -> CallState]
      BY <1>5, CallMoves DEF FindNamesake, End, Goto, PCs
    <2> QED
      BY <1>5, <2>1 DEF FindNamesake, TypeOK
  <1>6. ASSUME NEW k \in Callers, FindServices(k)
        PROVE  TypeOK'
    <2>1. calls' \in [Callers -> CallState]
      BY <1>6, CallMoves DEF FindServices, End, Goto, PCs
    <2> QED
      BY <1>6, <2>1 DEF FindServices, TypeOK
  <1>7. ASSUME NEW k \in Callers, Save(k)
        PROVE  TypeOK'
    <2>1. calls' \in [Callers -> CallState]
      BY <1>7, CallMoves DEF Save, End, PCs
    <2>2. /\ clusters' \subseteq Cluster
          /\ \A e, f \in clusters' : e.id = f.id \/ e.name = f.name => e = f
          /\ \A e \in clusters' : e.id \in 1..(nextId - 1)
      <3>1. CASE clusters' = clusters
        BY <3>1 DEF TypeOK
      <3>2. ASSUME NEW c \in clusters,
                   LET d == Updated(c, calls[k].input, calls[k].seen)
                   IN  ~Taken(d.name, d.id) /\ clusters' = (clusters \ {c}) \cup {d}
            PROVE  /\ clusters' \subseteq Cluster
                   /\ \A e, f \in clusters' : e.id = f.id \/ e.name = f.name => e = f
                   /\ \A e \in clusters' : e.id \in 1..(nextId - 1)
        <4> DEFINE d == Updated(c, calls[k].input, calls[k].seen)
        <4>1. d \in Cluster /\ d.id = c.id
          BY UpdatedRow DEF TypeOK, CallState
        <4> HIDE DEF d
        <4>2. ~Taken(d.name, d.id) /\ clusters' = (clusters \ {c}) \cup {d}
          BY <3>2 DEF d
        <4>3. \A o \in clusters \ {c} : o.id # d.id /\ o.name # d.name
          BY <4>1, <4>2 DEF TypeOK, Taken
        <4> QED
          BY <4>1, <4>2, <4>3 DEF TypeOK
      <3> QED
        BY <1>7, <3>1, <3>2 DEF Save
    <2> QED
      BY <1>7, <2>1, <2>2 DEF Save, TypeOK
  <1>8. ASSUME NEW k \in Callers, Insert(k)
        PROVE  TypeOK'
    <2> DEFINE i == calls[k].input
               d == [id |-> nextId, name |-> i.name, env |-> i.env, endpoint |-> i.endpoint,
                     token |-> i.token]
    <2>1. CASE Taken(i.name, NoId)
      <3>1. calls' \in [Callers -> CallState]
        BY <1>8, <2>1, CallMoves DEF Insert, End, PCs
      <3> QED
        BY <1>8, <2>1, <3>1 DEF Insert, TypeOK
    <2>2. CASE ~Taken(i.name, NoId)
      <3>1. /\ calls[k].pc = "insert"
            /\ clusters' = clusters \cup {d} /\ nextId' = nextId + 1
            /\ contested' \in {contested, contested \cup {i.env}}
            /\ \A l \in Callers : calls'[l] \in {NoCall, calls[l],
                                               [calls[l] EXCEPT !.overtaken = TRUE]}
            /\ DOMAIN calls' = Callers /\ calls' = [l \in Callers |-> calls'[l]]
            /\ UNCHANGED <<made, services, requests, deploys>>
        BY <1>8, <2>2 DEF Insert
      <3>2. i.op = "register" /\ i \in Input
        BY <3>1, RegistryAssumption DEF TypeOK, CallState, Asked
      <3>3. d \in Cluster /\ d.id = nextId /\ d.name = i.name /\ i.env \in Envs
        BY <3>1, <3>2, RegistryAssumption DEF TypeOK, Asked, Input, Cluster
      <3>4. \A l \in Callers : calls'[l] \in CallState
        <4> SUFFICES ASSUME NEW l \in Callers PROVE calls'[l] \in CallState
          OBVIOUS
        <4>1. calls[l] \in CallState /\ [calls[l] EXCEPT !.overtaken = TRUE] \in CallState
          <5>1. calls[l] \in CallState
            BY DEF TypeOK
          <5> QED
            BY <5>1 DEF CallState
        <4> QED
          BY <3>1, <4>1, Idle
      <3> HIDE DEF d, i
      <3>5. calls' \in [Callers -> CallState]
        BY <3>1, <3>4
      <3>6. \A c \in clusters : c.id < nextId /\ c.id # NoId /\ c.name # d.name
        BY <2>2, <3>3 DEF Taken, TypeOK, NoId
      <3>7. /\ \A c, e \in clusters' : c.id = e.id \/ c.name = e.name => c = e
            /\ \A c \in clusters' : c.id \in 1..(nextId' - 1)
        BY <3>1, <3>3, <3>6 DEF TypeOK, NoId
      <3> QED
        BY <3>1, <3>3, <3>5, <3>7 DEF TypeOK, NoId, Cluster
    <2> QED
      BY <2>1, <2>2
  <1>9. ASSUME NEW k \in Callers, Remove(k)
        PROVE  TypeOK'
    <2>1. calls' \in [Callers -> CallState]
      BY <1>9, CallMoves DEF Remove, End, PCs
    <2>2. clusters' \subseteq clusters
      BY <1>9 DEF Remove
    <2> QED
      BY <1>9, <2>1, <2>2 DEF Remove, TypeOK
  <1>10. ASSUME NEW a \in Apps, Resolve(a)
         PROVE  TypeOK'
    <2>1. PICK c \in clusters : deploys' = [deploys EXCEPT ![a] = [env |-> c.env, cluster |-> c.id]]
      BY <1>10 DEF Resolve
    <2>2. deploys' \in [Apps -> {NoDeploy} \cup [env : Envs, cluster : Nat]]
      BY <2>1 DEF TypeOK, Cluster
    <2> QED
      BY <1>10, <2>2 DEF Resolve, registryVars, TypeOK
  <1>11. ASSUME NEW a \in Apps, Commit(a)
         PROVE  TypeOK'
    <2>1. deploys' \in [Apps -> {NoDeploy} \cup [env : Envs, cluster : Nat]]
      BY <1>11, Idle DEF Commit, TypeOK
    <2>2. CASE UNCHANGED <<services, requests>>
      BY <1>11, <2>1, <2>2 DEF Commit, registryVars, TypeOK
    <2>3. ASSUME NEW c \in clusters, c.id = deploys[a].cluster
          PROVE  TypeOK'
      <3>1. requests' \in Seq(RequestRow)
        BY <1>0, <1>11, <2>3, RequestAdded DEF Commit
      <3>2. deploys[a].env \in Envs /\ deploys[a].cluster \in Nat
        BY <1>11 DEF Commit, TypeOK, NoDeploy
      <3>3. services' \subseteq Service
        BY <1>0, <1>11, <2>3, <3>2 DEF Commit, TypeOK, Service
      <3> QED
        BY <1>11, <2>1, <3>1, <3>3 DEF Commit, registryVars, TypeOK, RequestRow
    <2> QED
      BY <1>11, <2>2, <2>3 DEF Commit
  <1>12. ASSUME NEW a \in Apps, NEW e \in Envs, Delete(a, e)
         PROVE  TypeOK'
    <2>1. requests' \in Seq(RequestRow)
      BY <1>0, <1>12, RequestAdded DEF Delete
    <2> QED
      BY <1>12, <2>1 DEF Delete, registryVars, TypeOK, RequestRow
  <1>13. ASSUME NEW n \in DOMAIN requests, Succeed(n)
         PROVE  TypeOK'
    <2>1. requests' \in Seq(RequestRow)
      BY <1>0, <1>13, RequestEnds DEF Succeed
    <2>2. services' \subseteq services
      BY <1>13 DEF Succeed
    <2> QED
      BY <1>13, <2>1, <2>2 DEF Succeed, registryVars, TypeOK, RequestRow
  <1>14. ASSUME NEW n \in DOMAIN requests, Fail(n)
         PROVE  TypeOK'
    <2>1. requests' \in Seq(RequestRow)
      BY <1>0, <1>14, RequestEnds DEF Fail
    <2> QED
      BY <1>14, <2>1 DEF Fail, registryVars, TypeOK, RequestRow
  <1>15. CASE UNCHANGED vars
    BY <1>15 DEF vars, TypeOK
  <1> QED
    BY <1>1, <1>2, <1>3, <1>4, <1>5, <1>6, <1>7, <1>8, <1>9, <1>10, <1>11, <1>12, <1>13, <1>14,
       <1>15 DEF Next

\* The types and the keys of the tables, at every moment: ids are never given
\* twice, and two overlapping registrations cannot both insert one name.
THEOREM Types == Spec => [](TypeOK /\ Asked)
  <1>1. Init => TypeOK /\ Asked
    BY InitTyped, Idle DEF Init, Asked
  <1> QED
    BY <1>1, StepTyped, StepAsked, PTL DEF Spec

-----------------------------------------------------------------------------
(* What the commits rely on *)

\* A create that found a cluster: whatever row has that id now is of the same
\* environment.
FoundStands ==
    \A a \in Apps : \A c \in clusters :
        deploys[a] # NoDeploy /\ c.id = deploys[a].cluster => c.env = deploys[a].env

\* ... which needs the id not to be given out again.
FoundOld ==
    \A a \in Apps : deploys[a] # NoDeploy => deploys[a].cluster < nextId

\* A registration that nobody overtook inserts into a free environment.
FreeStill ==
    \A k \in Callers : calls[k].pc = "insert" /\ ~calls[k].overtaken =>
        \A c \in clusters : c.env # calls[k].input.env

Inv == ServicesRouted /\ OnePerEnvironment /\ FoundStands /\ FoundOld /\ FreeStill

\* What a step does to the cluster table, as far as environments go: rows keep
\* id and environment, one may leave if it serves nothing, or a new one comes.
Kept(old, new) == \A d \in new : \E c \in old : c.id = d.id /\ c.env = d.env

\* The commit of a refresh or an update keeps every id and environment.
LEMMA SaveKeeps ==
  ASSUME TypeOK, NEW k \in Callers, Save(k)
  PROVE  Kept(clusters, clusters') /\ Kept(clusters', clusters)
  <1>1. CASE clusters' = clusters
    BY <1>1 DEF Kept
  <1>2. ASSUME NEW c \in clusters, clusters' = (clusters \ {c}) \cup {Updated(c, calls[k].input, calls[k].seen)}
        PROVE  Kept(clusters, clusters') /\ Kept(clusters', clusters)
    <2>1. LET d == Updated(c, calls[k].input, calls[k].seen) IN d.id = c.id /\ d.env = c.env
      BY UpdatedRow DEF TypeOK, CallState
    <2> QED
      BY <1>2, <2>1 DEF Kept
  <1> QED
    BY <1>1, <1>2 DEF Save

\* Only the call that moves gets to its insert, and only by finding the
\* environment free.
LEMMA NobodyInserts ==
  ASSUME TypeOK, NEW l \in Callers,
         \/ \E i \in Inputs : Call(l, i)
         \/ FindByName(l) \/ FindById(l) \/ FindNamesake(l) \/ FindServices(l)
         \/ Save(l) \/ Remove(l),
         NEW k \in Callers, calls'[k].pc = "insert"
  PROVE  calls'[k] = calls[k]
  <1>0. calls \in [Callers -> CallState] /\ NoCall.pc = "idle"
    BY Idle DEF TypeOK
  <1>1. CASE k # l
    BY <1>0, <1>1 DEF Call, FindByName, FindById, FindNamesake, FindServices, Save, Remove, End, Goto
  <1>2. CASE k = l
    <2>0. calls[k] = [input |-> calls[k].input, id |-> calls[k].id, seen |-> calls[k].seen,
                      pc |-> calls[k].pc, overtaken |-> calls[k].overtaken]
      BY <1>0 DEF CallState
    <2>1. ASSUME NEW i \in Inputs, Call(l, i) PROVE FALSE
      BY <1>0, <1>2, <2>1 DEF Call, NoCall
    <2>2. CASE End(l)
      BY <1>0, <1>2, <2>2 DEF End
    <2>3. ASSUME NEW pc \in {"occupant", "save", "name", "services", "remove"}, calls'[l].pc = pc
          PROVE  FALSE
      BY <1>2, <2>3
    <2>4. CASE FindByName(l)
      <3>1. CASE Goto(l, "occupant")
        BY <1>0, <1>2, <2>0, <2>3, <3>1 DEF Goto
      <3>2. ASSUME NEW c \in clusters,
                   calls' = [calls EXCEPT ![l].id = c.id, ![l].seen = c, ![l].pc = "save"]
            PROVE  FALSE
        BY <1>0, <1>2, <2>0, <2>3, <3>2
      <3> QED
        BY <2>2, <2>4, <3>1, <3>2 DEF FindByName
    <2>5. CASE FindById(l)
      <3>1. ASSUME NEW c \in clusters, NEW pc \in {"services", "save", "name"},
                   calls' = [calls EXCEPT ![l].seen = c, ![l].pc = pc]
            PROVE  FALSE
        BY <1>0, <1>2, <2>0, <2>3, <3>1
      <3> QED
        BY <2>2, <2>5, <3>1 DEF FindById
    <2>6. CASE FindNamesake(l) \/ FindServices(l)
      BY <1>0, <2>0, <2>2, <2>3, <2>6, <1>2 DEF FindNamesake, FindServices, Goto
    <2>7. CASE Save(l) \/ Remove(l)
      BY <2>2, <2>7 DEF Save, Remove
    <2> QED
      BY <2>1, <2>4, <2>5, <2>6, <2>7
  <1> QED
    BY <1>1, <1>2

\* Steps that leave environments as they are leave the invariant as it is.
LEMMA KeptInv ==
  ASSUME TypeOK, TypeOK', Inv, Kept(clusters, clusters'), Kept(clusters', clusters),
         UNCHANGED <<nextId, contested, services, deploys>>,
         \A k \in Callers : calls'[k].pc = "insert" /\ ~calls'[k].overtaken =>
            \A c \in clusters : c.env # calls'[k].input.env
  PROVE  Inv'
  <1>1. ServicesRouted'
    BY DEF Inv, ServicesRouted, Kept
  <1>2. FoundStands'
    BY DEF Inv, FoundStands, Kept
  <1>3. FoundOld'
    BY DEF Inv, FoundOld
  <1>4. FreeStill'
    BY DEF FreeStill, Kept
  <1>5. OnePerEnvironment'
    <2> SUFFICES ASSUME NEW c \in clusters', NEW d \in clusters', c.env = d.env, c # d
                 PROVE  c.env \in contested
      BY DEF OnePerEnvironment
    <2>1. PICK e \in clusters, f \in clusters :
             e.id = c.id /\ e.env = c.env /\ f.id = d.id /\ f.env = d.env
      BY DEF Kept
    <2>2. c.id # d.id
      BY DEF TypeOK
    <2> QED
      BY <2>1, <2>2 DEF Inv, OnePerEnvironment
  <1> QED
    BY <1>1, <1>2, <1>3, <1>4, <1>5 DEF Inv

\* Nothing changes, nothing is lost.
LEMMA SameKept == Kept(clusters, clusters)
  BY DEF Kept

\* A registration is inserted.
LEMMA InsertInv ==
  ASSUME TypeOK, TypeOK', Asked, Inv, NEW k \in Callers, Insert(k)
  PROVE  Inv'
  <1> DEFINE i == calls[k].input
             d == [id |-> nextId, name |-> i.name, env |-> i.env, endpoint |-> i.endpoint,
                   token |-> i.token]
             Rivals == {l \in Callers \ {k} : calls[l].pc = "insert" /\ calls[l].input.env = i.env}
  <1>0. calls \in [Callers -> CallState] /\ NoCall.pc = "idle" /\ calls[k].pc = "insert"
    BY Idle DEF TypeOK, Insert
  <1>1. CASE Taken(i.name, NoId)
    <2>1. \A l \in Callers : calls'[l] = calls[l] \/ calls'[l].pc = "idle"
      BY <1>0, <1>1 DEF Insert, End
    <2>2. UNCHANGED <<clusters, nextId, contested, services, deploys>>
      BY <1>1 DEF Insert
    <2> QED
      BY <2>1, <2>2, KeptInv, SameKept DEF Inv, FreeStill
  <1>2. CASE ~Taken(i.name, NoId)
    <2>1. /\ clusters' = clusters \cup {d} /\ nextId' = nextId + 1
          /\ contested' = IF calls[k].overtaken THEN contested \cup {i.env} ELSE contested
          /\ \A l \in Callers : calls'[l] = IF l = k THEN NoCall
                                            ELSE IF l \in Rivals THEN [calls[l] EXCEPT !.overtaken = TRUE]
                                            ELSE calls[l]
          /\ UNCHANGED <<services, deploys>>
      BY <1>2 DEF Insert
    <2>2. d.id = nextId /\ d.env = i.env
      OBVIOUS
    <2>3. \A l \in Rivals : calls'[l].overtaken
      BY <1>0, <2>1 DEF CallState
    <2>4. \A l \in Callers \ (Rivals \cup {k}) : calls'[l] = calls[l]
      BY <2>1
    <2>5. calls'[k].pc = "idle"
      BY <1>0, <2>1
    <2>6. nextId \in Nat /\ \A c \in clusters : c.id < nextId
      BY DEF TypeOK
    <2> HIDE DEF d
    <2>7. ServicesRouted'
      BY <2>1 DEF Inv, ServicesRouted
    <2>8. OnePerEnvironment'
      <3>1. ~calls[k].overtaken => \A c \in clusters : c.env # i.env
        BY <1>0 DEF Inv, FreeStill
      <3>2. calls[k].overtaken \in BOOLEAN
        BY <1>0 DEF CallState
      <3> QED
        BY <2>1, <2>2, <3>1, <3>2 DEF Inv, OnePerEnvironment
    <2>9. FoundStands' /\ FoundOld'
      <3>1. \A a \in Apps : deploys[a] # NoDeploy =>
                deploys[a].cluster \in Nat /\ deploys[a].cluster < nextId
        BY DEF Inv, FoundOld, TypeOK
      <3> QED
        BY <2>1, <2>2, <2>6, <3>1 DEF Inv, FoundStands, FoundOld
    <2>10. FreeStill'
      <3> SUFFICES ASSUME NEW l \in Callers, calls'[l].pc = "insert", ~calls'[l].overtaken,
                          NEW c \in clusters'
                   PROVE  c.env # calls'[l].input.env
        BY DEF FreeStill
      <3>1. l \notin Rivals /\ l # k /\ calls'[l] = calls[l]
        BY <2>3, <2>4, <2>5
      <3>2. CASE c \in clusters
        BY <3>1, <3>2 DEF Inv, FreeStill
      <3>3. CASE c = d
        BY <2>2, <3>1, <3>3
      <3> QED
        BY <2>1, <3>2, <3>3
    <2> QED
      BY <2>7, <2>8, <2>9, <2>10 DEF Inv
  <1> QED
    BY <1>1, <1>2

\* Every step keeps the invariant.
LEMMA StepInv == TypeOK /\ TypeOK' /\ Asked /\ Inv /\ [Next]_vars => Inv'
  <1> SUFFICES ASSUME TypeOK, TypeOK', Asked, Inv, [Next]_vars
               PROVE  Inv'
    OBVIOUS
  <1>0. calls \in [Callers -> CallState] /\ NoCall.pc = "idle"
    BY Idle DEF TypeOK
  <1>1. ASSUME NEW k \in Callers,
               \/ \E i \in Inputs : Call(k, i)
               \/ FindByName(k) \/ FindById(k) \/ FindNamesake(k) \/ FindServices(k)
        PROVE  Inv'
    <2>1. UNCHANGED <<clusters, nextId, contested, services, deploys>>
      BY <1>1 DEF Call, FindByName, FindById, FindNamesake, FindServices
    <2> QED
      BY <1>1, <2>1, KeptInv, SameKept, NobodyInserts DEF Inv, FreeStill
  <1>2. ASSUME NEW k \in Callers, FindOccupant(k)
        PROVE  Inv'
    <2>1. UNCHANGED <<clusters, nextId, contested, services, deploys>>
      BY <1>2 DEF FindOccupant
    <2>2. \A l \in Callers : calls'[l].pc = "insert" /\ ~calls'[l].overtaken =>
            \A c \in clusters : c.env # calls'[l].input.env
      <3>1. CASE End(k)
        BY <1>0, <3>1 DEF End, Inv, FreeStill
      <3>2. CASE Goto(k, "insert") /\ \A c \in clusters : c.env # calls[k].input.env
        <4>1. calls'[k].input = calls[k].input /\ \A l \in Callers \ {k} : calls'[l] = calls[l]
          BY <1>0, <3>2 DEF Goto, CallState
        <4> QED
          BY <3>2, <4>1 DEF Inv, FreeStill
      <3> QED
        BY <1>2, <3>1, <3>2 DEF FindOccupant
    <2> QED
      BY <2>1, <2>2, KeptInv, SameKept
  <1>3. ASSUME NEW k \in Callers, Save(k)
        PROVE  Inv'
    <2>1. UNCHANGED <<nextId, contested, services, deploys>>
      BY <1>3 DEF Save
    <2> QED
      BY <1>3, <2>1, KeptInv, SaveKeeps, NobodyInserts DEF Inv, FreeStill
  <1>4. ASSUME NEW k \in Callers, Insert(k)
        PROVE  Inv'
    BY <1>4, InsertInv
  <1>5. ASSUME NEW k \in Callers, Remove(k)
        PROVE  Inv'
    <2>1. /\ UNCHANGED <<nextId, contested, services, deploys>>
          /\ clusters' \subseteq clusters
          /\ \A c \in clusters \ clusters' : ~Serves(c.id)
      BY <1>5 DEF Remove
    <2>2. ServicesRouted'
      BY <2>1 DEF Inv, ServicesRouted, Serves
    <2>3. OnePerEnvironment' /\ FoundStands' /\ FoundOld'
      BY <2>1 DEF Inv, OnePerEnvironment, FoundStands, FoundOld
    <2>4. FreeStill'
      BY <1>5, <2>1, NobodyInserts DEF Inv, FreeStill
    <2> QED
      BY <2>2, <2>3, <2>4 DEF Inv
  <1>6. ASSUME NEW a \in Apps, Resolve(a)
        PROVE  Inv'
    <2>1. UNCHANGED <<clusters, nextId, calls, contested, services>>
      BY <1>6 DEF Resolve, registryVars
    <2>2. PICK c \in clusters : deploys' = [deploys EXCEPT ![a] = [env |-> c.env, cluster |-> c.id]]
      BY <1>6 DEF Resolve
    <2>3. FoundStands' /\ FoundOld'
      BY <2>1, <2>2 DEF Inv, FoundStands, FoundOld, TypeOK
    <2> QED
      BY <2>1, <2>3 DEF Inv, ServicesRouted, OnePerEnvironment, FreeStill
  <1>7. ASSUME NEW a \in Apps, Commit(a)
        PROVE  Inv'
    <2>1. UNCHANGED <<clusters, nextId, calls, contested>>
      BY <1>7 DEF Commit, registryVars
    <2>2. FoundStands' /\ FoundOld'
      BY <1>7, <2>1 DEF Commit, Inv, FoundStands, FoundOld, TypeOK
    <2>3. ServicesRouted'
      BY <1>7, <2>1 DEF Commit, Inv, ServicesRouted, FoundStands
    <2> QED
      BY <2>1, <2>2, <2>3 DEF Inv, OnePerEnvironment, FreeStill
  <1>8. CASE \/ \E a \in Apps, e \in Envs : Delete(a, e)
             \/ \E n \in DOMAIN requests : Succeed(n) \/ Fail(n)
             \/ UNCHANGED vars
    <2>1. UNCHANGED <<clusters, nextId, calls, contested, deploys>> /\ services' \subseteq services
      BY <1>8 DEF Delete, Succeed, Fail, registryVars, vars
    <2> QED
      BY <2>1 DEF Inv, ServicesRouted, OnePerEnvironment, FoundStands, FoundOld, FreeStill
  <1> QED
    BY <1>1, <1>2, <1>3, <1>4, <1>5, <1>6, <1>7, <1>8 DEF Next

\* It holds in an empty registry.
LEMMA InitInv == Init => Inv
  BY Idle DEF Init, Inv, ServicesRouted, OnePerEnvironment, FoundStands, FoundOld, FreeStill

\* The invariant holds at every moment.
LEMMA Always == Spec => []Inv
  BY InitInv, StepInv, Types, PTL DEF Spec

\* Every service is on a registered cluster of its environment: the foreign key
\* decides between a deregistration and the create that had found the cluster.
THEOREM Routed == Spec => []ServicesRouted
  <1>1. Inv => ServicesRouted
    BY DEF Inv
  <1> QED
    BY <1>1, Always, PTL

\* Two clusters serve one environment only where two registrations overlapped.
THEOREM OneEach == Spec => []OnePerEnvironment
  <1>1. Inv => OnePerEnvironment
    BY DEF Inv
  <1> QED
    BY <1>1, Always, PTL

\* An application's services of one environment share a cluster: the one they
\* stand on cannot be replaced before the last of them is gone.
THEOREM Together == Spec => []EnvironmentOnOneCluster
  <1>1. Inv => EnvironmentOnOneCluster
    BY DEF Inv, ServicesRouted, OnePerEnvironment, EnvironmentOnOneCluster
  <1> QED
    BY <1>1, Always, PTL

-----------------------------------------------------------------------------
(* What a step may not do *)

\* Where clusters are one per environment the purge finds every service.
LEMMA FindsAll ==
  ASSUME Inv, NEW a \in Apps, NEW e \in Envs, e \notin contested, NEW found \in Found(a, e),
         NEW s \in services, s.app = a, s.env = e
  PROVE  s \in found
  <1>1. PICK d \in clusters : d.id = s.cluster /\ d.env = e
    BY DEF Inv, ServicesRouted
  <1>2. PICK c \in clusters : c.env = e /\ found = {t \in services : t.app = a /\ t.cluster = c.id}
    BY <1>1 DEF Found
  <1>3. c = d
    BY <1>1, <1>2 DEF Inv, OnePerEnvironment
  <1> QED
    BY <1>1, <1>2, <1>3

\* A request that ends in a step ends in Succeed or Fail of its own.
LEMMA Ends ==
  ASSUME TypeOK, [Next]_vars, NEW n \in DOMAIN requests,
         requests[n].status = "open", requests'[n].status = "success"
  PROVE  Succeed(n)
  <1>0. requests \in Seq(RequestRow) /\ DOMAIN requests = 1 .. Len(requests)
    BY DEF TypeOK, RequestRow
  <1>1. CASE requests' = requests
    BY <1>1
  <1>2. ASSUME NEW row \in RequestRow, requests' = Append(requests, row)
        PROVE  FALSE
    <2>1. requests'[n] = requests[n]
      BY <1>0, <1>2, AppendProperties
    <2> QED
      BY <2>1
  <1>3. ASSUME NEW a \in Apps, NEW e \in Envs \cup {None}, requests' = Append(requests, OpenRequest(a, e))
        PROVE  FALSE
    BY <1>2, <1>3 DEF OpenRequest, RequestRow
  <1>4. ASSUME NEW m \in DOMAIN requests, Succeed(m)
        PROVE  m = n
    BY <1>0, <1>4, RequestEnds DEF Succeed
  <1>5. ASSUME NEW m \in DOMAIN requests, Fail(m)
        PROVE  FALSE
    <2>1. m = n
      BY <1>0, <1>5, RequestEnds DEF Fail
    <2>2. requests'[n].status = "failed"
      BY <1>0, <1>5, <2>1, ElementOfSeq DEF Fail, RequestRow
    <2> QED
      BY <2>2
  <1>6. ASSUME NEW k \in Callers,
               \/ \E i \in Inputs : Call(k, i)
               \/ FindByName(k) \/ FindOccupant(k) \/ FindById(k) \/ FindNamesake(k)
               \/ FindServices(k) \/ Save(k) \/ Insert(k) \/ Remove(k)
        PROVE  requests' = requests
    BY <1>6 DEF Call, FindByName, FindOccupant, FindById, FindNamesake, FindServices, Save, Insert,
                Remove
  <1>7. ASSUME NEW a \in Apps, Resolve(a) \/ Commit(a) \/ \E e \in Envs : Delete(a, e)
        PROVE  requests' = requests
    BY <1>3, <1>7 DEF Resolve, Commit, Delete
  <1>8. CASE UNCHANGED vars
    BY <1>1, <1>8 DEF vars
  <1> QED
    BY <1>1, <1>4, <1>5, <1>6, <1>7, <1>8 DEF Next

\* A delete that succeeds has removed all services of its environment.
THEOREM DeletesWholly == Spec => DeletedIsGone
  <1>1. TypeOK /\ Inv /\ [Next]_vars =>
          \A n \in DOMAIN requests :
            /\ requests[n].status = "open" /\ requests'[n].status = "success"
            /\ requests[n].env \notin contested
            => \A s \in services' : s.app = requests[n].app => s.env # requests[n].env
    <2> SUFFICES ASSUME TypeOK, Inv, [Next]_vars, NEW n \in DOMAIN requests,
                        requests[n].status = "open", requests'[n].status = "success",
                        requests[n].env \notin contested,
                        NEW s \in services', s.app = requests[n].app, s.env = requests[n].env
                 PROVE  FALSE
      OBVIOUS
    <2>1. Succeed(n)
      BY Ends
    <2>2. s \in services /\ s.env \in Envs /\ s.app \in Apps
      BY <2>1 DEF Succeed, TypeOK, Service
    <2>3. requests[n].env # None
      BY <2>2, RegistryAssumption
    <2>4. PICK found \in Found(requests[n].app, requests[n].env) : services' = services \ found
      BY <2>1, <2>3 DEF Succeed
    <2> QED
      BY <2>2, <2>4, FindsAll
  <1> QED
    BY <1>1, InitInv, StepInv, Types, PTL DEF Spec, DeletedIsGone

\* Endpoint and token change only to what the call that ends gives.
THEOREM KeepsCredentials == Spec => CredentialSurvives
  <1>1. TypeOK /\ [Next]_vars =>
          \A c \in clusters, d \in clusters' : c.id = d.id =>
            /\ d.env = c.env
            /\ \A field \in {"endpoint", "token"} :
                 d[field] # c[field] => \E k \in Callers : Gives(k, field, d[field])
    <2> SUFFICES ASSUME TypeOK, [Next]_vars, NEW c \in clusters, NEW d \in clusters', c.id = d.id, c # d
                 PROVE  /\ d.env = c.env
                        /\ \A field \in {"endpoint", "token"} :
                             d[field] # c[field] => \E k \in Callers : Gives(k, field, d[field])
      OBVIOUS
    <2>1. d \notin clusters
      BY DEF TypeOK
    <2>2. ASSUME NEW k \in Callers, Save(k)
          PROVE  /\ d.env = c.env
                 /\ \A field \in {"endpoint", "token"} :
                      d[field] # c[field] => \E l \in Callers : Gives(l, field, d[field])
      <3>1. PICK e \in clusters : d = Updated(e, calls[k].input, calls[k].seen)
        BY <2>1, <2>2 DEF Save
      <3>2. /\ d.id = e.id /\ d.env = e.env
            /\ d.endpoint = e.endpoint \/ (d.endpoint = calls[k].input.endpoint /\ d.endpoint # None)
            /\ d.token = e.token \/ (d.token = calls[k].input.token /\ d.token # None)
        BY <3>1, UpdatedRow DEF TypeOK, CallState
      <3>3. e = c
        BY <3>2 DEF TypeOK
      <3>4. calls[k].pc = "save"
        BY <2>2 DEF Save
      <3> QED
        BY <3>2, <3>3, <3>4 DEF Gives
    <2>3. ASSUME NEW k \in Callers, Insert(k)
          PROVE  FALSE
      <3>1. d.id = nextId
        BY <2>1, <2>3 DEF Insert
      <3> QED
        BY <3>1 DEF TypeOK
    <2>4. ASSUME NEW k \in Callers,
                 \/ \E i \in Inputs : Call(k, i)
                 \/ FindByName(k) \/ FindOccupant(k) \/ FindById(k) \/ FindNamesake(k)
                 \/ FindServices(k) \/ Remove(k)
          PROVE  FALSE
      BY <2>1, <2>4 DEF Call, FindByName, FindOccupant, FindById, FindNamesake, FindServices, Remove
    <2>5. CASE \/ \E a \in Apps : Resolve(a) \/ Commit(a) \/ \E e \in Envs : Delete(a, e)
               \/ \E n \in DOMAIN requests : Succeed(n) \/ Fail(n)
               \/ UNCHANGED vars
      BY <2>1, <2>5 DEF Resolve, Commit, Delete, Succeed, Fail, registryVars, vars
    <2> QED
      BY <2>2, <2>3, <2>4, <2>5 DEF Next
  <1> QED
    BY <1>1, Types, PTL DEF Spec, CredentialSurvives
-----------------------------------------------------------------------------
(* The refinement of EnvironmentRouting                                   *)

\* Services bear the number of the request that added them, so the next one's
\* is new.
Dated == \A s \in services : s.id \in 1..Len(requests)

\* Until it commits, a call on the registry changes nothing but itself.
LEMMA ReadsOnly ==
  ASSUME NEW k \in Callers,
         \/ \E i \in Inputs : Call(k, i)
         \/ FindByName(k) \/ FindOccupant(k) \/ FindById(k) \/ FindNamesake(k)
         \/ FindServices(k)
  PROVE  UNCHANGED <<clusters, contested, services, requests>>
  <1>1. CASE \E i \in Inputs : Call(k, i)
    BY <1>1 DEF Call
  <1>2. CASE FindByName(k)
    BY <1>2, Zenon DEF FindByName
  <1>3. CASE FindById(k)
    BY <1>3 DEF FindById
  <1>4. CASE FindOccupant(k) \/ FindNamesake(k) \/ FindServices(k)
    BY <1>4 DEF FindOccupant, FindNamesake, FindServices
  <1> QED BY <1>1, <1>2, <1>3, <1>4

LEMMA StepDated == TypeOK /\ Dated /\ [Next]_vars => Dated'
  <1> SUFFICES ASSUME TypeOK, Dated, [Next]_vars PROVE Dated'
    OBVIOUS
  <1>0. requests \in Seq(RequestRow) /\ Len(requests) \in Nat
    BY DEF TypeOK, RequestRow
  <1>1. ASSUME NEW a \in Apps, Commit(a) PROVE Dated'
    <2>1. CASE UNCHANGED <<services, requests>>
      BY <2>1 DEF Dated
    <2>2. CASE /\ requests' = Append(requests, OpenRequest(a, None))
               /\ services' = services \cup {[id |-> Len(requests) + 1, app |-> a,
                                              env |-> deploys[a].env,
                                              cluster |-> deploys[a].cluster]}
      <3>1. Len(requests') = Len(requests) + 1
        BY <1>0, <2>2, RequestAdded, AppendProperties
      <3> QED BY <1>0, <2>2, <3>1 DEF Dated
    <2> QED BY <1>1, <2>1, <2>2 DEF Commit
  <1>2. ASSUME NEW a \in Apps, NEW e \in Envs, Delete(a, e) PROVE Dated'
    <2>1. Len(requests') = Len(requests) + 1 /\ UNCHANGED services
      <3>1. OpenRequest(a, e) \in RequestRow
        BY DEF OpenRequest, RequestRow
      <3> QED BY <1>0, <1>2, <3>1, AppendProperties DEF Delete
    <2> QED BY <1>0, <2>1 DEF Dated
  <1>3. ASSUME NEW n \in DOMAIN requests, Succeed(n) \/ Fail(n) PROVE Dated'
    <2>1. Len(requests') = Len(requests) /\ services' \subseteq services
      BY <1>0, <1>3, RequestEnds DEF Succeed, Fail
    <2> QED BY <2>1 DEF Dated
  <1>4. ASSUME NEW k \in Callers,
               \/ \E i \in Inputs : Call(k, i)
               \/ FindByName(k) \/ FindOccupant(k) \/ FindById(k) \/ FindNamesake(k)
               \/ FindServices(k) \/ Save(k) \/ Insert(k) \/ Remove(k)
        PROVE  UNCHANGED <<services, requests>>
    <2>1. CASE Save(k) \/ Insert(k) \/ Remove(k)
      BY <2>1 DEF Save, Insert, Remove
    <2> QED BY <1>4, <2>1, ReadsOnly
  <1>5. CASE (\E a \in Apps : Resolve(a)) \/ UNCHANGED vars
    BY <1>5 DEF Resolve, registryVars, vars, Dated
  <1>6. UNCHANGED <<services, requests>> => Dated'
    BY DEF Dated
  <1> QED BY <1>1, <1>2, <1>3, <1>4, <1>5, <1>6 DEF Next

\* Nothing that routing is about changes.
LEMMA RoutesStay ==
  ASSUME Kept(clusters, clusters'), Kept(clusters', clusters), UNCHANGED <<services, contested>>
  PROVE  UNCHANGED Routing!vars
  <1>1. Routes' = Routes
    BY DEF Kept, Routes
  <1>2. Placed' = Placed
    BY DEF Placed
  <1> QED BY <1>1, <1>2 DEF Routing!vars

\* A registration opens the environment that it found closed, stays out of
\* sight where nothing is promised any more, or ends the promise.
LEMMA InsertRoutes ==
  ASSUME TypeOK, Asked, Inv, NEW k \in Callers, Insert(k)
  PROVE  [Routing!Next]_Routing!vars
  <1> DEFINE e == calls[k].input.env
             d == [id |-> nextId, name |-> calls[k].input.name, env |-> e,
                   endpoint |-> calls[k].input.endpoint, token |-> calls[k].input.token]
  <1>1. CASE Taken(calls[k].input.name, NoId)
    <2>1. UNCHANGED <<clusters, services, contested>>
      BY <1>1 DEF Insert
    <2> QED BY <2>1, SameKept, RoutesStay
  <1>2. CASE ~Taken(calls[k].input.name, NoId)
    <2>1. /\ calls[k].pc = "insert" /\ nextId <= MaxClusters
          /\ clusters' = clusters \cup {d}
          /\ contested' = IF calls[k].overtaken THEN contested \cup {e} ELSE contested
          /\ UNCHANGED services
      BY <1>2 DEF Insert
    <2>2. e \in Envs /\ nextId \in 1..MaxClusters /\ \A c \in clusters : c.id # nextId
      BY <2>1, RegistryAssumption DEF TypeOK, Asked, Input, NoId
    <2>3. d.id = nextId /\ d.env = e
      OBVIOUS
    <2> HIDE DEF d, e
    <2>4. CASE e \in contested
      <3>1. contested' = contested
        BY <2>1, <2>4
      <3>2. Routes' = Routes
        BY <2>1, <2>3, <2>4, <3>1 DEF Routes
      <3>3. Placed' = Placed
        BY <2>1, <3>1 DEF Placed
      <3> QED BY <3>1, <3>2, <3>3 DEF Routing!vars
    <2>5. CASE e \notin contested /\ calls[k].overtaken
      <3>1. contested' = contested \cup {e}
        BY <2>1, <2>5
      <3>2. Routes' = {r \in Routes : r.env # e}
        BY <2>1, <2>3, <3>1 DEF Routes
      <3>3. Placed' = {s \in Placed : s.env # e}
        BY <2>1, <3>1 DEF Placed
      <3>4. Routing!Contest(e)
        BY <3>1, <3>2, <3>3 DEF Routing!Contest
      <3> QED BY <2>2, <3>4 DEF Routing!Next
    <2>6. CASE e \notin contested /\ ~calls[k].overtaken
      <3>1. contested' = contested
        BY <2>1, <2>6
      <3>2. \A c \in clusters : c.env # e
        BY <2>1, <2>6 DEF Inv, FreeStill, e
      <3>3. Routes' = Routes \cup {[env |-> e, cluster |-> nextId]}
        BY <2>1, <2>3, <2>6, <3>1 DEF Routes
      <3>4. \A r \in Routes : r.env # e /\ r.cluster # nextId
        BY <2>2, <3>2 DEF Routes
      <3>5. Placed' = Placed
        BY <2>1, <3>1 DEF Placed
      <3>6. Routing!Open(e, nextId)
        BY <2>6, <3>1, <3>3, <3>4, <3>5 DEF Routing!Open
      <3> QED BY <2>2, <3>6 DEF Routing!Next
    <2> QED BY <2>4, <2>5, <2>6
  <1> QED BY <1>1, <1>2

\* A deregistration closes its environment, where nothing stands any more.
LEMMA RemoveRoutes ==
  ASSUME TypeOK, Inv, NEW k \in Callers, Remove(k)
  PROVE  [Routing!Next]_Routing!vars
  <1>0. UNCHANGED <<services, contested>> /\ Placed' = Placed
    BY DEF Remove, Placed
  <1>1. CASE clusters' = clusters
    BY <1>0, <1>1, SameKept, RoutesStay
  <1>2. ASSUME NEW c \in clusters, clusters' = clusters \ {c}, ~Serves(c.id)
        PROVE  [Routing!Next]_Routing!vars
    <2>1. CASE c.env \in contested
      <3>1. Routes' = Routes
        BY <1>0, <1>2, <2>1 DEF Routes
      <3> QED BY <1>0, <3>1 DEF Routing!vars
    <2>2. CASE c.env \notin contested
      <3> DEFINE r == [env |-> c.env, cluster |-> c.id]
      <3>1. r \in Routes
        BY <2>2 DEF Routes
      <3>2. \A d \in clusters : d.id = c.id => d = c
        BY DEF TypeOK
      <3>3. Routes' = Routes \ {r}
        BY <1>0, <1>2, <3>2 DEF Routes
      <3>4. \A s \in Placed : s.env # c.env
        <4> SUFFICES ASSUME NEW s \in services, s.env = c.env PROVE FALSE
          BY DEF Placed
        <4>1. PICK d \in clusters : d.id = s.cluster /\ d.env = c.env
          BY DEF Inv, ServicesRouted
        <4>2. d = c
          BY <2>2, <4>1 DEF Inv, OnePerEnvironment
        <4> QED BY <1>2, <4>1, <4>2 DEF Serves
      <3>5. Routing!Close(r)
        BY <1>0, <3>3, <3>4 DEF Routing!Close
      <3> QED BY <3>1, <3>5 DEF Routing!Next
    <2> QED BY <2>1, <2>2
  <1>3. CASE /\ ~Serves(calls[k].id)
             /\ clusters' = {c \in clusters : c.id # calls[k].id}
    <2>1. CASE \A c \in clusters : c.id # calls[k].id
      BY <1>1, <1>3, <2>1
    <2>2. ASSUME NEW c \in clusters, c.id = calls[k].id
          PROVE  [Routing!Next]_Routing!vars
      <3>1. clusters' = clusters \ {c}
        BY <1>3, <2>2 DEF TypeOK
      <3> QED BY <1>2, <1>3, <2>2, <3>1
    <2> QED BY <2>1, <2>2
  <1> QED BY <1>1, <1>3 DEF Remove

\* A create or update places its service where the environment leads now: the
\* cluster it found is still there, or it commits nothing.
LEMMA CommitRoutes ==
  ASSUME TypeOK, Inv, Dated, NEW a \in Apps, Commit(a)
  PROVE  [Routing!Next]_Routing!vars
  <1> DEFINE e == deploys[a].env
             s == [id |-> Len(requests) + 1, app |-> a, env |-> e, cluster |-> deploys[a].cluster]
  <1>0. UNCHANGED <<clusters, contested>> /\ Routes' = Routes
    BY DEF Commit, registryVars, Routes
  <1>1. CASE UNCHANGED services
    BY <1>0, <1>1, SameKept, RoutesStay
  <1>2. ASSUME NEW c \in clusters, c.id = deploys[a].cluster, services' = services \cup {s}
        PROVE  [Routing!Next]_Routing!vars
    <2>1. c.env = e
      BY <1>2 DEF Commit, Inv, FoundStands
    <2>2. s.env = e /\ s.id = Len(requests) + 1
      OBVIOUS
    <2>3. Len(requests) \in Nat /\ Len(requests) < MaxRequests /\ \A t \in services : t.id # Len(requests) + 1
      BY DEF TypeOK, Dated, Commit
    <2>4. CASE e \in contested
      <3> HIDE DEF s
      <3>1. Placed' = Placed
        BY <1>0, <1>2, <2>2, <2>4 DEF Placed
      <3> QED BY <1>0, <3>1 DEF Routing!vars
    <2>5. CASE e \notin contested
      <3> DEFINE r == [env |-> c.env, cluster |-> c.id]
      <3>1. r \in Routes
        BY <2>1, <2>5 DEF Routes
      <3>2. s = [id |-> Len(requests) + 1, app |-> a, env |-> r.env, cluster |-> r.cluster]
        BY <1>2, <2>1
      <3>3. Placed' = Placed \cup {s}
        <4> HIDE DEF s
        <4> QED BY <1>0, <1>2, <2>2, <2>5 DEF Placed
      <3>4. Routing!Place(a, r, Len(requests) + 1)
        <4>1. \A t \in Placed : t.id # Len(requests) + 1
          BY <2>3 DEF Placed
        <4> HIDE DEF s, r
        <4> QED BY <1>0, <3>2, <3>3, <4>1 DEF Routing!Place
      <3>5. Len(requests) + 1 \in 1..MaxRequests
        BY <2>3, RegistryAssumption
      <3> QED BY <3>1, <3>4, <3>5 DEF Routing!Next
    <2> QED BY <2>4, <2>5
  <1> QED BY <1>1, <1>2 DEF Commit

\* A delete that succeeds takes an application's services of its environment,
\* all of them and no others.
LEMMA SucceedRoutes ==
  ASSUME TypeOK, Inv, NEW n \in DOMAIN requests, Succeed(n)
  PROVE  [Routing!Next]_Routing!vars
  <1> DEFINE a == requests[n].app
             e == requests[n].env
  <1>0. UNCHANGED <<clusters, contested>> /\ Routes' = Routes
    BY DEF Succeed, registryVars, Routes
  <1>1. CASE UNCHANGED services
    BY <1>0, <1>1, SameKept, RoutesStay
  <1>2. ASSUME e # None, NEW found \in Found(a, e), services' = services \ found
        PROVE  [Routing!Next]_Routing!vars
    <2>1. a \in Apps /\ e \in Envs
      <3>1. requests \in Seq(RequestRow)
        BY DEF TypeOK, RequestRow
      <3>2. requests[n] \in RequestRow
        BY <3>1, ElementOfSeq
      <3> QED BY <1>2, <3>2 DEF RequestRow
    <2>2. \A s \in found : s.app = a /\ s.env = e
      <3> SUFFICES ASSUME NEW s \in found PROVE s.app = a /\ s.env = e
        OBVIOUS
      <3>1. PICK c \in clusters : c.env = e /\ s \in services /\ s.app = a /\ s.cluster = c.id
        BY <1>2 DEF Found
      <3>2. PICK d \in clusters : d.id = s.cluster /\ d.env = s.env
        BY <3>1 DEF Inv, ServicesRouted
      <3> QED BY <3>1, <3>2 DEF TypeOK
    <2>3. CASE e \in contested
      <3>1. Placed' = Placed
        BY <1>0, <1>2, <2>2, <2>3 DEF Placed
      <3> QED BY <1>0, <3>1 DEF Routing!vars
    <2>4. CASE e \notin contested
      <3>1. \A s \in services : s \in found <=> s.app = a /\ s.env = e
        BY <1>2, <2>1, <2>2, <2>4, FindsAll
      <3>2. Placed' = {s \in Placed : s.app # a \/ s.env # e}
        BY <1>0, <1>2, <3>1 DEF Placed
      <3>3. Routing!Clear(a, e)
        BY <1>0, <3>2 DEF Routing!Clear
      <3> QED BY <2>1, <3>3 DEF Routing!Next
    <2> QED BY <2>3, <2>4
  <1> QED BY <1>1, <1>2 DEF Succeed

\* The registry, with its reads before the commits and its overlapping calls,
\* implements EnvironmentRouting: one cluster for each environment, under
\* everything that was placed there, up to where registrations overlapped.
THEOREM ImplementsRouting == Spec => RoutesEnvironments
  <1>1. Init => Routing!Init
    BY DEF Init, Routing!Init, Routes, Placed
  <1>2. TypeOK /\ Asked /\ Inv /\ Dated /\ [Next]_vars => [Routing!Next]_Routing!vars
    <2> SUFFICES ASSUME TypeOK, Asked, Inv, Dated, [Next]_vars
                 PROVE  [Routing!Next]_Routing!vars
      OBVIOUS
    <2>1. ASSUME NEW k \in Callers, Save(k) PROVE [Routing!Next]_Routing!vars
      <3>1. UNCHANGED <<services, contested>>
        BY <2>1 DEF Save
      <3> QED BY <2>1, <3>1, SaveKeeps, RoutesStay
    <2>2. ASSUME NEW k \in Callers,
                 \/ \E i \in Inputs : Call(k, i)
                 \/ FindByName(k) \/ FindOccupant(k) \/ FindById(k) \/ FindNamesake(k)
                 \/ FindServices(k)
          PROVE  UNCHANGED <<clusters, services, contested>>
      BY <2>2, ReadsOnly
    <2>3. ASSUME NEW a \in Apps, Resolve(a) \/ \E e \in Envs : Delete(a, e)
          PROVE  UNCHANGED <<clusters, services, contested>>
      BY <2>3 DEF Resolve, Delete, registryVars
    <2>4. CASE (\E n \in DOMAIN requests : Fail(n)) \/ UNCHANGED vars
      <3>1. UNCHANGED <<clusters, services, contested>>
        BY <2>4 DEF Fail, registryVars, vars
      <3> QED BY <3>1, SameKept, RoutesStay
    <2>5. UNCHANGED <<clusters, services, contested>> => [Routing!Next]_Routing!vars
      BY SameKept, RoutesStay
    <2> QED BY <2>1, <2>2, <2>3, <2>4, <2>5, InsertRoutes, RemoveRoutes, CommitRoutes, SucceedRoutes DEF Next
  <1>3. Init => Dated
    BY DEF Init, Dated
  <1> QED BY <1>1, <1>2, <1>3, StepDated, Types, Always, PTL
          DEF Spec, RoutesEnvironments, Routing!Spec
=============================================================================
