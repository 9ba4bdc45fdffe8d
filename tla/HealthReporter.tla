--------------------------- MODULE HealthReporter ---------------------------
(***************************************************************************)
(* The scheduled health sweep and the DeploymentSetup rows it keeps.       *)
(*                                                                         *)
(* A sweep (workers/health_reporter) walks the registered clusters in the  *)
(* order of the registry, lists the ArgoCD Applications of each, resolves  *)
(* the services behind every Application through the control plane and     *)
(* posts one report per service.  The control plane upserts the service's  *)
(* row (record_deployment_setup: a read, then a write), and the status     *)
(* endpoint derives the service's health from it.  Meanwhile ArgoCD        *)
(* changes its mind, services come and are purged, clusters and calls      *)
(* fail, the Lambda runs out of time, and another sweep may overlap:       *)
(* EventBridge delivers at least once and no concurrency limit is set.     *)
(***************************************************************************)
EXTENDS Naturals, Sequences, FiniteSets

CONSTANTS
    Services,    \* svcId values, never used again
    Groups,      \* (app, env) pairs, one ArgoCD Application each
    GroupOf,     \* the group of a service
    Registry,    \* the registered clusters, in the order of list_all
    ClusterOf,   \* the cluster of a group
    Sweeps,      \* sweeps that may run at the same time
    States,      \* the states Applications are in: [health, phase, synced]
    Flaky,       \* clusters and groups whose calls may fail
    ListTimeout, \* seconds a list call may hang (_kube)
    SweepTimeout \* seconds a sweep may take (timeout_seconds of the Lambda)

Clusters == {Registry[i] : i \in DOMAIN Registry}
Healths  == {"Healthy", "Degraded", "Missing", "Suspended", "Progressing"}
OpPhases == {"Succeeded", "Running", "Failed"}

ASSUME HealthAssumption ==
    /\ GroupOf \in [Services -> Groups]
    /\ Registry \in Seq(Clusters)
    /\ IsFiniteSet(Sweeps)
    /\ ClusterOf \in [Groups -> Clusters]
    /\ States \subseteq [health : Healths, phase : OpPhases, synced : BOOLEAN]
    /\ Flaky \subseteq Clusters \cup Groups
    /\ ListTimeout \in Nat /\ SweepTimeout \in Nat

VARIABLES
    argo,   \* the verdict on a group's Application, or "gone"
    svc,    \* "absent", "live", "purging" or "purged", per service
    doomed, \* how many setup rows the purge of a service has read
    setup,  \* the DeploymentSetup rows of a service, oldest first
    sweep   \* what a sweep still has to do

vars == <<argo, svc, doomed, setup, sweep>>

Verdicts == {"success", "failed", "suspended", "progressing", "synced", "unknown"}

Row   == [status : Verdicts, error : BOOLEAN]
NoRow == [status |-> "unknown", error |-> FALSE]

IdleSweep == [pc |-> "idle", clusters |-> <<>>, spent |-> 0, apps |-> {},
              verdict |-> "unknown", todo |-> {}, found |-> 0, read |-> NoRow]

-----------------------------------------------------------------------------
(* Status mapping *)

\* _report_for, in the order of its tests.
Verdict(a) ==
    CASE a.health = "Healthy" -> "success"
      [] a.health \in {"Degraded", "Missing"} -> "failed"
      [] a.health = "Suspended" -> "suspended"
      [] OTHER -> CASE a.phase = "Failed" -> "failed"
                    [] a.phase = "Running" -> "progressing"
                    [] OTHER -> IF a.synced THEN "synced" ELSE "unknown"

\* _report_batch: a failed report, and only a failed one, carries errorMessage.
Report(v) == [status |-> v, error |-> v = "failed"]

\* record_deployment_setup leaves errorMessage out of the upserted values when
\* the report has none, and upsert leaves alone what the values leave out.  The
\* session writes the columns that differ from the row it READ.
Merge(row, read, report) ==
    [status |-> IF report.status = read.status THEN row.status ELSE report.status,
     error  |-> row.error \/ report.error]

\* get_by_service_id takes the youngest row; _derive_service_health.
HealthOf(x) ==
    IF setup[x] = <<>> THEN "UNKNOWN"
    ELSE LET row == setup[x][Len(setup[x])]
         IN  CASE row.status = "success" /\ ~row.error -> "HEALTHY"
               [] row.status = "failed" \/ row.error -> "UNHEALTHY"
               [] OTHER -> "UNKNOWN"

-----------------------------------------------------------------------------
(* What happens around the sweeps *)

\* ArgoCD syncs, loses or drops the Application of a group.
ArgoChanges(g) ==
    /\ argo' \in {[argo EXCEPT ![g] = v] : v \in {"gone"} \cup {Verdict(a) : a \in States}}
    /\ argo' # argo
    /\ UNCHANGED <<svc, doomed, setup, sweep>>

\* A create or update request commits a Service row.
AddService(x) ==
    /\ svc[x] = "absent"
    /\ svc' = [svc EXCEPT ![x] = "live"]
    /\ UNCHANGED <<argo, doomed, setup, sweep>>

\* _purge_rows, in the transaction of a SUCCESS callback: the setup rows it sees
\* are deleted first ...
BeginPurge(x) ==
    /\ svc[x] = "live"
    /\ svc' = [svc EXCEPT ![x] = "purging"]
    /\ doomed' = [doomed EXCEPT ![x] = Len(setup[x])]
    /\ UNCHANGED <<argo, setup, sweep>>

EndPurge(x, st) ==
    /\ svc[x] = "purging"
    /\ svc' = [svc EXCEPT ![x] = st]
    /\ doomed' = [doomed EXCEPT ![x] = 0]
    /\ UNCHANGED <<argo, sweep>>

\* Variant: no foreign key from DeploymentSetup to Service.
CommitPurgeUnchecked(x) ==
    /\ EndPurge(x, "purged")
    /\ setup' = [setup EXCEPT ![x] = SubSeq(@, doomed[x] + 1, Len(@))]

\* ... then the service.
CommitPurge(x) ==
    /\ EndPurge(x, "purged")
    /\ Len(setup[x]) = doomed[x]
    /\ setup' = [setup EXCEPT ![x] = <<>>]

\* A row inserted in between still refers to it: the foreign key refuses, the
\* whole callback is rolled back.
PurgeFails(x) ==
    /\ EndPurge(x, "live")
    /\ Len(setup[x]) # doomed[x]
    /\ UNCHANGED setup

-----------------------------------------------------------------------------
(* The sweep *)

InSweep(w, pc) == sweep[w].pc = pc
Go(w, s) == sweep' = [sweep EXCEPT ![w] = s]

\* EventBridge fires; GET /internal/clusters.
StartSweep(w) ==
    /\ InSweep(w, "idle")
    /\ Go(w, [IdleSweep EXCEPT !.pc = "clusters", !.clusters = Registry])
    /\ UNCHANGED <<argo, svc, doomed, setup>>

\* The next cluster of the sweep: its Applications as they are now.
ListApps(w) ==
    /\ InSweep(w, "clusters") /\ sweep[w].clusters # <<>>
    /\ LET c == Head(sweep[w].clusters)
       IN  Go(w, [sweep[w] EXCEPT
                    !.pc = "apps",
                    !.clusters = Tail(@),
                    !.apps = {[group |-> g, verdict |-> argo[g]] :
                                g \in {h \in Groups : ClusterOf[h] = c /\ argo[h] # "gone"}}])
    /\ UNCHANGED <<argo, svc, doomed, setup>>

\* Variant: a dead cluster ends the sweep.
ListFailsForAll(w) ==
    /\ InSweep(w, "clusters") /\ sweep[w].clusters # <<>>
    /\ Head(sweep[w].clusters) \in Flaky
    /\ Go(w, IdleSweep)
    /\ UNCHANGED <<argo, svc, doomed, setup>>

\* The list call fails at once, or hangs until it times out.  The sweep skips
\* the cluster, unless the Lambda's own time is up.
ListFails(w) ==
    /\ InSweep(w, "clusters") /\ sweep[w].clusters # <<>>
    /\ Head(sweep[w].clusters) \in Flaky
    /\ \E cost \in {0, ListTimeout} :
         LET spent == sweep[w].spent + cost
         IN  Go(w, IF spent < SweepTimeout
                     THEN [sweep[w] EXCEPT !.pc = "apps", !.clusters = Tail(@), !.spent = spent]
                     ELSE IdleSweep)
    /\ UNCHANGED <<argo, svc, doomed, setup>>

Members(g) == {x \in Services : GroupOf[x] = g /\ svc[x] \in {"live", "purging"}}

\* GET /internal/deployment-groups/{app}/{env}, for one of the Applications: the
\* reports to post, none when the group has no service (any more).
ResolveGroup(w) ==
    /\ InSweep(w, "apps")
    /\ \E a \in sweep[w].apps :
         LET ids == Members(a.group)
         IN  Go(w, [sweep[w] EXCEPT !.pc = IF ids = {} THEN "apps" ELSE "read",
                                    !.apps = @ \ {a}, !.verdict = a.verdict, !.todo = ids])
    /\ UNCHANGED <<argo, svc, doomed, setup>>

\* The call raises; it is a 404 when the app itself was purged with its last
\* service.  The Application is dropped.
ResolveFails(w) ==
    /\ InSweep(w, "apps")
    /\ \E a \in sweep[w].apps :
         /\ a.group \in Flaky \/ Members(a.group) = {}
         /\ Go(w, [sweep[w] EXCEPT !.apps = @ \ {a}])
    /\ UNCHANGED <<argo, svc, doomed, setup>>

\* `except Exception': what is left of the Application's batch is dropped.
Drop(w) == Go(w, [sweep[w] EXCEPT !.pc = "apps", !.todo = {}, !.found = 0, !.read = NoRow])

\* The service whose report is next, in the order of the batch.
NextUp(w) == CHOOSE x \in sweep[w].todo : TRUE

\* The read of record_deployment_setup and of upsert.
ReadSetup(w) ==
    /\ InSweep(w, "read")
    /\ LET x == NextUp(w)
           n == Len(setup[x])
       IN  IF svc[x] \in {"live", "purging"}
             THEN Go(w, [sweep[w] EXCEPT !.pc = "write", !.found = n,
                                         !.read = IF n = 0 THEN NoRow ELSE setup[x][n]])
             ELSE Drop(w)
    /\ UNCHANGED <<argo, svc, doomed, setup>>

\* The report is in: the next one of the batch, the next Application after it.
Reported(w) ==
    LET rest == sweep[w].todo \ {NextUp(w)}
    IN  Go(w, [sweep[w] EXCEPT !.pc = IF rest = {} THEN "apps" ELSE "read",
                               !.todo = rest, !.found = 0, !.read = NoRow])

\* Variant: every report inserts a row.
WriteSetupInsert(w) ==
    /\ InSweep(w, "write")
    /\ LET x == NextUp(w)
       IN  svc[x] # "purged" /\ setup' = [setup EXCEPT ![x] = Append(@, Report(sweep[w].verdict))]
    /\ Reported(w)
    /\ UNCHANGED <<argo, svc, doomed>>

\* upsert: an insert when no row was found, or an update of the one that was.
Upserted(rows, n, read, report) ==
    IF n = 0 THEN Append(rows, report)
             ELSE [rows EXCEPT ![n] = Merge(rows[n], read, report)]

\* The write of record_deployment_setup.
WriteSetup(w) ==
    /\ InSweep(w, "write")
    /\ LET x == NextUp(w)
       IN  /\ svc[x] # "purged"
           /\ setup' = [setup EXCEPT ![x] =
                Upserted(@, sweep[w].found, sweep[w].read, Report(sweep[w].verdict))]
    /\ Reported(w)
    /\ UNCHANGED <<argo, svc, doomed>>

\* The service is gone: the foreign key refuses the insert, the row to update
\* does not exist.  Nothing is written when no column differs, and then nobody
\* notices.
WriteFails(w) ==
    /\ InSweep(w, "write")
    /\ svc[NextUp(w)] = "purged"
    /\ \/ Drop(w)
       \/ /\ sweep[w].found # 0 /\ sweep[w].read.status = sweep[w].verdict
          /\ Reported(w)
    /\ UNCHANGED <<argo, svc, doomed, setup>>

\* The Applications of the cluster are done: the next cluster, or the end.
NextCluster(w) ==
    /\ InSweep(w, "apps") /\ sweep[w].apps = {}
    /\ Go(w, IF sweep[w].clusters = <<>> THEN IdleSweep
             ELSE [sweep[w] EXCEPT !.pc = "clusters"])
    /\ UNCHANGED <<argo, svc, doomed, setup>>

-----------------------------------------------------------------------------
Init ==
    /\ argo   = [g \in Groups |-> "gone"]
    /\ svc    = [x \in Services |-> "absent"]
    /\ doomed = [x \in Services |-> 0]
    /\ setup  = [x \in Services |-> <<>>]
    /\ sweep  = [w \in Sweeps |-> IdleSweep]

Around == \/ \E g \in Groups : ArgoChanges(g)
          \/ \E x \in Services : AddService(x) \/ BeginPurge(x)

FinishPurge(x) == CommitPurge(x) \/ PurgeFails(x)

Sweep(w) == \/ StartSweep(w) \/ ListApps(w) \/ ListFails(w) \/ NextCluster(w)
            \/ ResolveGroup(w) \/ ResolveFails(w)
            \/ ReadSetup(w) \/ WriteSetup(w) \/ WriteFails(w)

Next == Around \/ (\E x \in Services : FinishPurge(x)) \/ (\E w \in Sweeps : Sweep(w))

Spec == Init /\ [][Next]_vars

\* The schedule keeps firing and a sweep runs on; a callback commits or rolls
\* back.  Nothing makes a flaky call ever succeed.
FairSpec ==
    /\ Spec
    /\ \A w \in Sweeps : WF_vars(Sweep(w))
    /\ \A x \in Services : WF_vars(FinishPurge(x))

-----------------------------------------------------------------------------
Walk == [pc       : {"idle", "clusters", "apps", "read", "write"},
         clusters : {SubSeq(Registry, i, Len(Registry)) : i \in 1 .. Len(Registry) + 1},
         spent    : 0 .. SweepTimeout,
         apps     : SUBSET [group : Groups, verdict : Verdicts],
         verdict  : Verdicts,
         todo     : SUBSET Services,
         found    : 0 .. Cardinality(Sweeps),
         read     : Row]

\* The type of every variable; a service gains at most one setup row per sweep
\* that overlaps its first report.
TypeOK ==
    /\ argo \in [Groups -> {"gone"} \cup Verdicts]
    /\ svc \in [Services -> {"absent", "live", "purging", "purged"}]
    /\ doomed \in [Services -> 0 .. Cardinality(Sweeps)]
    /\ setup \in [Services -> Seq(Row)]
    /\ \A x \in Services : Len(setup[x]) <= Cardinality(Sweeps)
    /\ sweep \in [Sweeps -> Walk]

\* A report that races the teardown of its service leaves no DeploymentSetup row
\* behind, and none exists before the service does.
NoOrphanSetup == \A x \in Services : svc[x] \in {"absent", "purged"} => setup[x] = <<>>

Steady(x, v) ==
    /\ svc[x] = "live" /\ argo[GroupOf[x]] = v
    /\ {GroupOf[x], ClusterOf[GroupOf[x]]} \cap Flaky = {}

\* "One dead cluster must not kill the sweep", nor one bad Application: a
\* failure that lasts, on a cluster that answers, comes to be shown and stays.
FailureIsSeen ==
    \A x \in Services : <>[]Steady(x, "failed") => <>[](HealthOf(x) = "UNHEALTHY")

\* "A later healthy report clears an earlier error".
RecoveryIsSeen ==
    \A x \in Services : <>[]Steady(x, "success") => <>[](HealthOf(x) = "HEALTHY")
=============================================================================
