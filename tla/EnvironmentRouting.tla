-------------------------- MODULE EnvironmentRouting -------------------------
(***************************************************************************)
(* What the cluster registry promises to those who look for an environment *)
(* and not for a cluster: no reads before the commits, no overlapping      *)
(* calls, no names.  An environment is closed or leads to one cluster.     *)
(* Services are placed where it leads at that moment, and leave together;  *)
(* it closes, and may then lead elsewhere, when none is left.              *)
(*                                                                         *)
(* The promise is given up, visibly and for good, for an environment that  *)
(* overlapping registrations gave a second cluster.                        *)
(***************************************************************************)
CONSTANTS Apps, Envs, Clusters, Services

VARIABLES
    routes,    \* the clusters that environments lead to
    placed,    \* the services, with the cluster each was placed on
    contested  \* environments nothing is promised about

vars == <<routes, placed, contested>>

Init ==
    /\ routes = {}
    /\ placed = {}
    /\ contested = {}

\* A new cluster is registered for a closed environment.
Open(e, c) ==
    /\ e \notin contested
    /\ \A r \in routes : r.env # e /\ r.cluster # c
    /\ routes' = routes \cup {[env |-> e, cluster |-> c]}
    /\ UNCHANGED <<placed, contested>>

\* It is deregistered, under nobody.
Close(r) ==
    /\ \A s \in placed : s.env # r.env
    /\ routes' = routes \ {r}
    /\ UNCHANGED <<placed, contested>>

\* A create or update adds a service.
Place(a, r, id) ==
    /\ \A s \in placed : s.id # id
    /\ placed' = placed \cup {[id |-> id, app |-> a, env |-> r.env, cluster |-> r.cluster]}
    /\ UNCHANGED <<routes, contested>>

\* The delete of an environment is done.
Clear(a, e) ==
    /\ placed' = {s \in placed : s.app # a \/ s.env # e}
    /\ UNCHANGED <<routes, contested>>

Contest(e) ==
    /\ contested' = contested \cup {e}
    /\ routes' = {r \in routes : r.env # e}
    /\ placed' = {s \in placed : s.env # e}

Next ==
    \/ \E e \in Envs :
          \/ \E a \in Apps : Clear(a, e)
          \/ \E c \in Clusters : Open(e, c)
          \/ Contest(e)
    \/ \E r \in routes :
          \/ Close(r)
          \/ \E a \in Apps, id \in Services : Place(a, r, id)

Spec == Init /\ [][Next]_vars
=============================================================================
