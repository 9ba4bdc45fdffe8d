------------------------ MODULE HealthReporterProofs ------------------------
(***************************************************************************)
(* What is proved of the health reporter, for any number of overlapping    *)
(* sweeps, services, Applications and clusters, and for any time limits.   *)
(*                                                                         *)
(* A sweep that found no setup row inserts one, whatever others inserted   *)
(* since.  What bounds the rows of a service is that such a sweep spends   *)
(* its right to insert, and that no sweep gets one while there is a row.   *)
(***************************************************************************)
EXTENDS HealthReporter, FiniteSetTheorems, SequenceTheorems, TLAPS

\* A report is posted for a service that was there when its group was resolved.
Known ==
    \A w \in Sweeps :
        /\ sweep[w].pc \in {"read", "write"} => sweep[w].todo # {}
        /\ \A x \in sweep[w].todo : svc[x] # "absent"

\* The sweeps about to insert a row for x.
Inserting(x) == {w \in Sweeps : sweep[w].pc = "write" /\ sweep[w].found = 0 /\ NextUp(w) = x}

\* No service gets more rows than there are sweeps.
Counted == \A x \in Services : Len(setup[x]) + Cardinality(Inserting(x)) <= Cardinality(Sweeps)

IInv == TypeOK /\ Known /\ Counted /\ NoOrphanSetup

\* The next service of a batch is one of the batch.
LEMMA NextIsTodo ==
  ASSUME TypeOK, Known, NEW w \in Sweeps, sweep[w].pc \in {"read", "write"}
  PROVE  NextUp(w) \in sweep[w].todo /\ NextUp(w) \in Services /\ svc[NextUp(w)] # "absent"
  BY DEF TypeOK, Walk, Known, NextUp

\* The number of sweeps is a number, and so is that of any of them.
LEMMA SweepsCounted ==
  /\ Cardinality(Sweeps) \in Nat
  /\ \A W \in SUBSET Sweeps : IsFiniteSet(W) /\ Cardinality(W) \in Nat /\ Cardinality(W) <= Cardinality(Sweeps)
  BY HealthAssumption, FS_CardinalityType, FS_Subset

\* An idle sweep, a report and a merged row.
LEMMA WellTyped ==
  /\ IdleSweep.pc = "idle" /\ IdleSweep.todo = {} /\ NoRow \in Row
  /\ \A v \in Verdicts : Report(v) \in Row
  /\ \A row, read, report \in Row : Merge(row, read, report) \in Row
  /\ \A a \in States : Verdict(a) \in Verdicts
  <1>1. \A a \in States : Verdict(a) \in Verdicts
    BY DEF Verdict, Verdicts
  <1>2. \A row, read, report \in Row : Merge(row, read, report) \in Row
    BY DEF Merge, Row
  <1> QED
    BY <1>1, <1>2 DEF IdleSweep, NoRow, Row, Report, Verdicts

\* A sweep that has not started.
LEMMA IdleTyped == IdleSweep \in Walk
  <1>1. <<>> \in {SubSeq(Registry, i, Len(Registry)) : i \in 1 .. Len(Registry) + 1}
    <2>1. Len(Registry) \in Nat
      BY HealthAssumption
    <2>2. SubSeq(Registry, Len(Registry) + 1, Len(Registry)) = <<>>
      BY <2>1, SubSeqEmpty
    <2> QED
      BY <2>1, <2>2
  <1>2. 0 \in 0 .. SweepTimeout /\ 0 \in 0 .. Cardinality(Sweeps)
    BY HealthAssumption, SweepsCounted
  <1> QED
    BY <1>1, <1>2, WellTyped DEF IdleSweep, Walk, Verdicts, Row

\* What is left of the registry after its first cluster.
LEMMA RestOfRegistry ==
  ASSUME NEW s \in {SubSeq(Registry, i, Len(Registry)) : i \in 1 .. Len(Registry) + 1}, s # <<>>
  PROVE  Tail(s) \in {SubSeq(Registry, i, Len(Registry)) : i \in 1 .. Len(Registry) + 1}
  <1>0. Registry \in Seq(Clusters) /\ Len(Registry) \in Nat
    BY HealthAssumption
  <1>1. PICK i \in 1 .. Len(Registry) + 1 : s = SubSeq(Registry, i, Len(Registry))
    OBVIOUS
  <1>2. i # Len(Registry) + 1
    BY <1>0, <1>1, SubSeqEmpty
  <1>3. i \in 1 .. Len(Registry) /\ Len(Registry) \in i .. Len(Registry)
    BY <1>0, <1>1, <1>2
  <1>4. Tail(s) = SubSeq(Registry, i + 1, Len(Registry))
    BY <1>0, <1>1, <1>3, HeadTailOfSubSeq
  <1>5. i + 1 \in 1 .. Len(Registry) + 1
    BY <1>0, <1>3
  <1> QED
    BY <1>4, <1>5

\* Before any sweep.
LEMMA InitHolds == Init => IInv
  <1> SUFFICES ASSUME Init PROVE IInv
    OBVIOUS
  <1>1. TypeOK
    BY IdleTyped, SweepsCounted, EmptySeq DEF Init, TypeOK
  <1>2. Known /\ NoOrphanSetup
    BY WellTyped DEF Init, Known, NoOrphanSetup
  <1>3. Counted
    <2> SUFFICES ASSUME NEW x \in Services
                 PROVE  Len(setup[x]) + Cardinality(Inserting(x)) <= Cardinality(Sweeps)
      BY DEF Counted
    <2>1. Len(setup[x]) = 0
      BY DEF Init
    <2>2. Inserting(x) \in SUBSET Sweeps
      BY DEF Inserting
    <2> QED
      BY <2>1, <2>2, SweepsCounted
  <1> QED
    BY <1>1, <1>2, <1>3 DEF IInv

-----------------------------------------------------------------------------
(* Steps around the sweeps *)

\* Sweeps stand still and no service gets a row.
LEMMA CountKept ==
  ASSUME IInv, UNCHANGED sweep,
         \A x \in Services : Len(setup'[x]) \in Nat /\ Len(setup'[x]) <= Len(setup[x])
  PROVE  Counted'
  <1> SUFFICES ASSUME NEW x \in Services
               PROVE  Len(setup'[x]) + Cardinality(Inserting(x)') <= Cardinality(Sweeps)
    BY DEF Counted
  <1>1. Inserting(x)' = Inserting(x)
    BY DEF Inserting, NextUp
  <1>2. Cardinality(Inserting(x)) \in Nat /\ Cardinality(Sweeps) \in Nat
    BY SweepsCounted DEF Inserting
  <1>3. Len(setup[x]) \in Nat
    BY DEF IInv, TypeOK
  <1> QED
    BY <1>1, <1>2, <1>3 DEF IInv, Counted

\* ArgoCD's changes are nobody's business here.
LEMMA StepArgo ==
  ASSUME IInv, NEW g \in Groups, ArgoChanges(g)
  PROVE  IInv'
  <1>1. argo' \in [Groups -> {"gone"} \cup Verdicts]
    <2>1. PICK v \in {"gone"} \cup {Verdict(a) : a \in States} : argo' = [argo EXCEPT ![g] = v]
      BY DEF ArgoChanges
    <2>2. v \in {"gone"} \cup Verdicts
      BY <2>1, WellTyped
    <2> QED
      BY <2>1, <2>2 DEF IInv, TypeOK
  <1>2. UNCHANGED <<svc, doomed, setup, sweep>>
    BY DEF ArgoChanges
  <1>3. TypeOK'
    BY <1>1, <1>2 DEF IInv, TypeOK
  <1>4. Counted'
    BY <1>2, CountKept DEF IInv, TypeOK
  <1> QED
    BY <1>2, <1>3, <1>4 DEF IInv, Known, NoOrphanSetup

\* A service that comes is known to no sweep; a purge that begins takes nothing.
LEMMA StepAround ==
  ASSUME IInv, NEW x \in Services, AddService(x) \/ BeginPurge(x)
  PROVE  IInv'
  <1>0. UNCHANGED <<argo, setup, sweep>>
    BY DEF AddService, BeginPurge
  <1>1. PICK st \in {"live", "purging"} : svc' = [svc EXCEPT ![x] = st]
    BY DEF AddService, BeginPurge
  <1>2. doomed' \in [Services -> 0 .. Cardinality(Sweeps)]
    <2>1. Len(setup[x]) \in 0 .. Cardinality(Sweeps)
      BY SweepsCounted DEF IInv, TypeOK
    <2>2. doomed' = doomed \/ doomed' = [doomed EXCEPT ![x] = Len(setup[x])]
      BY DEF AddService, BeginPurge
    <2> QED
      BY <2>1, <2>2 DEF IInv, TypeOK
  <1>3. TypeOK'
    BY <1>0, <1>1, <1>2 DEF IInv, TypeOK
  <1>4. Counted'
    BY <1>0, CountKept DEF IInv, TypeOK
  <1>5. Known' /\ NoOrphanSetup'
    BY <1>0, <1>1 DEF IInv, TypeOK, Known, NoOrphanSetup, Walk
  <1> QED
    BY <1>3, <1>4, <1>5 DEF IInv

\* A purge takes all rows with the service, or neither.
LEMMA StepPurge ==
  ASSUME IInv, NEW x \in Services, FinishPurge(x)
  PROVE  IInv'
  <1>0. UNCHANGED <<argo, sweep>> /\ svc[x] = "purging"
    BY DEF FinishPurge, CommitPurge, PurgeFails, EndPurge
  <1>1. \/ setup' = setup /\ svc' = [svc EXCEPT ![x] = "live"]
        \/ setup' = [setup EXCEPT ![x] = <<>>] /\ svc' = [svc EXCEPT ![x] = "purged"]
    BY DEF FinishPurge, CommitPurge, PurgeFails, EndPurge
  <1>2. doomed' \in [Services -> 0 .. Cardinality(Sweeps)]
    <2>1. doomed' = [doomed EXCEPT ![x] = 0]
      BY DEF FinishPurge, CommitPurge, PurgeFails, EndPurge
    <2>2. 0 \in 0 .. Cardinality(Sweeps)
      BY SweepsCounted
    <2> QED
      BY <2>1, <2>2 DEF IInv, TypeOK
  <1>3. /\ setup' \in [Services -> Seq(Row)]
        /\ \A y \in Services : Len(setup'[y]) \in Nat /\ Len(setup'[y]) <= Len(setup[y])
    <2>1. CASE setup' = setup
      BY <2>1 DEF IInv, TypeOK
    <2>2. CASE setup' = [setup EXCEPT ![x] = <<>>]
      <3>1. <<>> \in Seq(Row) /\ Len(<<>>) = 0
        OBVIOUS
      <3> QED
        BY <2>2, <3>1 DEF IInv, TypeOK
    <2> QED
      BY <1>1, <2>1, <2>2
  <1>4. svc' \in [Services -> {"absent", "live", "purging", "purged"}]
    BY <1>1 DEF IInv, TypeOK
  <1>5. TypeOK'
    <2>1. \A y \in Services : Len(setup'[y]) <= Cardinality(Sweeps)
      BY <1>3, SweepsCounted DEF IInv, TypeOK
    <2> QED
      BY <1>0, <1>2, <1>3, <1>4, <2>1 DEF IInv, TypeOK
  <1>6. Counted'
    BY <1>0, <1>3, CountKept
  <1>7. Known'
    <2>1. \A y \in Services : svc[y] # "absent" => svc'[y] # "absent"
      BY <1>1 DEF IInv, TypeOK
    <2>2. \A w \in Sweeps : sweep[w].todo \subseteq Services
      BY DEF IInv, TypeOK, Walk
    <2> QED
      BY <1>0, <2>1, <2>2 DEF IInv, Known
  <1>8. NoOrphanSetup'
    BY <1>0, <1>1 DEF IInv, TypeOK, NoOrphanSetup
  <1> QED
    BY <1>5, <1>6, <1>7, <1>8 DEF IInv

-----------------------------------------------------------------------------
(* Steps of a sweep *)

\* A sweep that moves without writing: it keeps the batch it had, has none, or
\* one of services that are there; and it may insert only if there is no row.
LEMMA SweepMoves ==
  ASSUME IInv, NEW w \in Sweeps, NEW s \in Walk, Go(w, s), UNCHANGED <<argo, svc, doomed, setup>>,
         s.pc \in {"read", "write"} => s.todo # {},
         \A x \in s.todo : svc[x] # "absent",
         s.pc = "write" /\ s.found = 0 => \A x \in Services :
             x = (CHOOSE y \in s.todo : TRUE) => Len(setup[x]) = 0
  PROVE  IInv'
  <1>1. sweep' \in [Sweeps -> Walk] /\ sweep'[w] = s /\ \A v \in Sweeps \ {w} : sweep'[v] = sweep[v]
    BY DEF IInv, TypeOK, Go
  <1>2. TypeOK'
    BY <1>1 DEF IInv, TypeOK
  <1>3. Known'
    BY <1>1 DEF IInv, Known
  <1>4. NoOrphanSetup'
    BY DEF IInv, NoOrphanSetup
  <1>5. Counted'
    <2> SUFFICES ASSUME NEW x \in Services
                 PROVE  Len(setup[x]) + Cardinality(Inserting(x)') <= Cardinality(Sweeps)
      BY DEF Counted
    <2>0. Inserting(x) \in SUBSET Sweeps /\ Inserting(x)' \in SUBSET Sweeps /\ Len(setup[x]) \in Nat
      BY DEF Inserting, IInv, TypeOK
    <2>1. CASE Len(setup[x]) = 0
      BY <2>0, <2>1, SweepsCounted
    <2>2. CASE Len(setup[x]) # 0
      <3>1. Inserting(x)' \subseteq Inserting(x)
        BY <1>1, <2>2 DEF Inserting, NextUp
      <3>2. Cardinality(Inserting(x)') <= Cardinality(Inserting(x))
        BY <2>0, <3>1, SweepsCounted, FS_Subset
      <3> QED
        BY <2>0, <3>2, SweepsCounted DEF IInv, Counted
    <2> QED
      BY <2>1, <2>2
  <1> QED
    BY <1>2, <1>3, <1>4, <1>5 DEF IInv

\* The fields of a sweep.
LEMMA Fields ==
  ASSUME TypeOK, NEW w \in Sweeps
  PROVE  /\ sweep[w] = [pc |-> sweep[w].pc, clusters |-> sweep[w].clusters, spent |-> sweep[w].spent,
                        apps |-> sweep[w].apps, verdict |-> sweep[w].verdict,
                        todo |-> sweep[w].todo, found |-> sweep[w].found, read |-> sweep[w].read]
         /\ sweep[w] \in Walk
  BY DEF TypeOK, Walk

\* A sweep with these clusters to go, this time lost and these Applications.
At(u, pc, clusters, spent, apps) ==
    [u EXCEPT !.pc = pc, !.clusters = clusters, !.spent = spent, !.apps = apps]

Rests == {SubSeq(Registry, i, Len(Registry)) : i \in 1 .. Len(Registry) + 1}

\* Such a sweep is in order if the one it was is.
LEMMA AtMoves ==
  ASSUME IInv, NEW w \in Sweeps, NEW u \in Walk, \A x \in u.todo : svc[x] # "absent",
         NEW pc \in {"clusters", "apps"}, NEW clusters \in Rests, NEW spent \in 0 .. SweepTimeout,
         NEW apps \in SUBSET [group : Groups, verdict : Verdicts],
         Go(w, At(u, pc, clusters, spent, apps)), UNCHANGED <<argo, svc, doomed, setup>>
  PROVE  IInv'
  <1>1. /\ At(u, pc, clusters, spent, apps) \in Walk
        /\ At(u, pc, clusters, spent, apps).pc = pc
        /\ At(u, pc, clusters, spent, apps).todo = u.todo
    BY DEF At, Walk, Rests
  <1> QED
    BY <1>1, SweepMoves

\* Starting, listing the Applications of a cluster or failing to, moving on.
LEMMA StepClusters ==
  ASSUME IInv, NEW w \in Sweeps, StartSweep(w) \/ ListApps(w) \/ ListFails(w) \/ NextCluster(w)
  PROVE  IInv'
  <1> DEFINE v == sweep[w]
  <1>0. /\ v = [pc |-> v.pc, clusters |-> v.clusters, spent |-> v.spent, apps |-> v.apps,
                verdict |-> v.verdict, todo |-> v.todo, found |-> v.found, read |-> v.read]
        /\ v \in Walk /\ \A x \in v.todo : svc[x] # "absent"
    BY Fields DEF IInv, Known
  <1>1. UNCHANGED <<argo, svc, doomed, setup>>
    BY DEF StartSweep, ListApps, ListFails, NextCluster
  <1>2. CASE Go(w, IdleSweep)
    BY <1>1, <1>2, IdleTyped, WellTyped, SweepMoves
  <1> HIDE DEF v
  <1>3. /\ v.spent \in 0 .. SweepTimeout /\ v.clusters \in Rests
        /\ v.apps \in SUBSET [group : Groups, verdict : Verdicts]
        /\ v.clusters # <<>> => Tail(v.clusters) \in Rests
    BY <1>0, RestOfRegistry DEF Walk, Rests
  <1>4. CASE StartSweep(w)
    <2>1. Registry \in Rests
      <3>1. Registry \in Seq(Clusters) /\ Len(Registry) \in Nat
        BY HealthAssumption
      <3>2. Registry = SubSeq(Registry, 1, Len(Registry))
        BY <3>1, SubSeqFull
      <3>3. 1 \in 1 .. Len(Registry) + 1
        BY <3>1
      <3> QED
        BY <3>2, <3>3 DEF Rests
    <2>2. Go(w, At(IdleSweep, "clusters", Registry, 0, {}))
      <3>1. /\ IdleSweep = [pc |-> IdleSweep.pc, clusters |-> IdleSweep.clusters,
                            spent |-> IdleSweep.spent, apps |-> IdleSweep.apps,
                            verdict |-> IdleSweep.verdict, todo |-> IdleSweep.todo,
                            found |-> IdleSweep.found, read |-> IdleSweep.read]
            /\ IdleSweep.spent = 0 /\ IdleSweep.apps = {}
        BY DEF IdleSweep
      <3>2. [IdleSweep EXCEPT !.pc = "clusters", !.clusters = Registry]
              = At(IdleSweep, "clusters", Registry, 0, {})
        BY <3>1 DEF At
      <3> QED
        BY <1>4, <3>2 DEF StartSweep
    <2>3. 0 \in 0 .. SweepTimeout
      BY HealthAssumption
    <2> QED
      BY <1>1, <2>1, <2>2, <2>3, IdleTyped, WellTyped, AtMoves
  <1>5. CASE ListApps(w)
    <2> DEFINE apps == {[group |-> g, verdict |-> argo[g]] :
                          g \in {h \in Groups : ClusterOf[h] = Head(v.clusters) /\ argo[h] # "gone"}}
    <2>1. apps \in SUBSET [group : Groups, verdict : Verdicts]
      BY DEF IInv, TypeOK
    <2>2. v.clusters # <<>> /\ Go(w, [v EXCEPT !.pc = "apps", !.clusters = Tail(v.clusters), !.apps = apps])
      BY <1>0, <1>5 DEF ListApps, v
    <2> HIDE DEF apps
    <2>3. Go(w, At(v, "apps", Tail(v.clusters), v.spent, apps))
      <3>1. [v EXCEPT !.pc = "apps", !.clusters = Tail(v.clusters), !.apps = apps]
              = At(v, "apps", Tail(v.clusters), v.spent, apps)
        BY <1>0 DEF At
      <3> QED
        BY <2>2, <3>1
    <2> QED
      BY <1>0, <1>1, <1>3, <2>1, <2>2, <2>3, AtMoves
  <1>6. CASE ListFails(w)
    <2>1. v.clusters # <<>>
      BY <1>6 DEF ListFails, v
    <2>2. PICK cost \in {0, ListTimeout} :
            Go(w, IF v.spent + cost < SweepTimeout
                    THEN [v EXCEPT !.pc = "apps", !.clusters = Tail(v.clusters), !.spent = v.spent + cost]
                    ELSE IdleSweep)
      BY <1>0, <1>6 DEF ListFails, v
    <2>3. CASE v.spent + cost < SweepTimeout
      <3>1. v.spent + cost \in 0 .. SweepTimeout
        BY <1>3, <2>2, <2>3, HealthAssumption
      <3>2. [v EXCEPT !.pc = "apps", !.clusters = Tail(v.clusters), !.spent = v.spent + cost]
              = At(v, "apps", Tail(v.clusters), v.spent + cost, v.apps)
        BY <1>0 DEF At
      <3>3. Go(w, At(v, "apps", Tail(v.clusters), v.spent + cost, v.apps))
        BY <2>2, <2>3, <3>2
      <3> QED
        BY <1>0, <1>1, <1>3, <2>1, <3>1, <3>3, AtMoves
    <2> QED
      BY <1>2, <2>2, <2>3
  <1>7. CASE NextCluster(w)
    <2>1. [v EXCEPT !.pc = "clusters"] = At(v, "clusters", v.clusters, v.spent, v.apps)
      BY <1>0 DEF At
    <2>2. CASE Go(w, At(v, "clusters", v.clusters, v.spent, v.apps))
      BY <1>0, <1>1, <1>3, <2>2, AtMoves
    <2> QED
      BY <1>2, <1>7, <2>1, <2>2 DEF NextCluster, v
  <1> QED
    BY <1>4, <1>5, <1>6, <1>7

\* Resolving the services of an Application, or dropping it.
LEMMA StepGroup ==
  ASSUME IInv, NEW w \in Sweeps, ResolveGroup(w) \/ ResolveFails(w)
  PROVE  IInv'
  <1> DEFINE v == sweep[w]
  <1>0. /\ v = [pc |-> v.pc, clusters |-> v.clusters, spent |-> v.spent, apps |-> v.apps,
                verdict |-> v.verdict, todo |-> v.todo, found |-> v.found, read |-> v.read]
        /\ v \in Walk /\ \A x \in v.todo : svc[x] # "absent"
    BY Fields DEF IInv, Known
  <1>1. UNCHANGED <<argo, svc, doomed, setup>> /\ v.pc = "apps"
    BY DEF ResolveGroup, ResolveFails, InSweep
  <1> HIDE DEF v
  <1>2. ASSUME NEW pc \in {"apps", "read"}, NEW a \in v.apps, NEW ids \in SUBSET Services,
               NEW verdict \in Verdicts,
               pc = "read" => ids # {}, \A x \in ids : svc[x] # "absent",
               Go(w, [v EXCEPT !.pc = pc, !.apps = v.apps \ {a}, !.verdict = verdict, !.todo = ids])
        PROVE  IInv'
    <2> DEFINE s == [v EXCEPT !.pc = pc, !.apps = v.apps \ {a}, !.verdict = verdict, !.todo = ids]
    <2>1. s \in Walk /\ s.pc = pc /\ s.todo = ids
      BY <1>0 DEF Walk
    <2>2. Go(w, s)
      BY <1>2
    <2> HIDE DEF s
    <2> QED
      BY <1>1, <1>2, <2>1, <2>2, SweepMoves
  <1>3. CASE ResolveGroup(w)
    <2>1. PICK a \in v.apps :
            Go(w, [v EXCEPT !.pc = IF Members(a.group) = {} THEN "apps" ELSE "read",
                            !.apps = v.apps \ {a}, !.verdict = a.verdict, !.todo = Members(a.group)])
      BY <1>0, <1>3 DEF ResolveGroup, v
    <2>2. Members(a.group) \in SUBSET Services /\ \A x \in Members(a.group) : svc[x] # "absent"
      BY DEF Members
    <2>3. a.verdict \in Verdicts
      BY <1>0, <2>1 DEF Walk
    <2>4. CASE Members(a.group) = {}
      BY <1>2, <2>1, <2>2, <2>3, <2>4
    <2>5. CASE Members(a.group) # {}
      BY <1>2, <2>1, <2>2, <2>3, <2>5
    <2> QED
      BY <2>4, <2>5
  <1>4. CASE ResolveFails(w)
    <2>1. PICK a \in v.apps : Go(w, [v EXCEPT !.apps = v.apps \ {a}])
      BY <1>0, <1>4 DEF ResolveFails, v
    <2> DEFINE s == [v EXCEPT !.apps = v.apps \ {a}]
    <2>2. s \in Walk /\ s.pc = "apps" /\ s.todo = v.todo
      BY <1>0, <1>1 DEF Walk
    <2>3. Go(w, s)
      BY <2>1
    <2> HIDE DEF s
    <2> QED
      BY <1>0, <1>1, <2>2, <2>3, SweepMoves
  <1> QED
    BY <1>3, <1>4

\* A sweep with this rest of its batch.
Batch(w, pc, todo) == [sweep[w] EXCEPT !.pc = pc, !.todo = todo, !.found = 0, !.read = NoRow]

\* The rest of a batch: it moves on, or is dropped.
LEMMA BatchMoves ==
  ASSUME IInv, NEW w \in Sweeps, NEW todo \in SUBSET sweep[w].todo, NEW pc \in {"apps", "read"},
         pc = "read" => todo # {}
  PROVE  /\ Batch(w, pc, todo) \in Walk
         /\ Batch(w, pc, todo).pc = pc /\ Batch(w, pc, todo).todo = todo
         /\ \A x \in todo : svc[x] # "absent"
  <1> DEFINE v == sweep[w]
  <1>0. /\ v = [pc |-> v.pc, clusters |-> v.clusters, spent |-> v.spent, apps |-> v.apps,
                verdict |-> v.verdict, todo |-> v.todo, found |-> v.found, read |-> v.read]
        /\ v \in Walk /\ \A x \in v.todo : svc[x] # "absent"
    BY Fields DEF IInv, Known
  <1>1. 0 \in 0 .. Cardinality(Sweeps)
    BY SweepsCounted
  <1> DEFINE s == [v EXCEPT !.pc = pc, !.todo = todo, !.found = 0, !.read = NoRow]
  <1> HIDE DEF v
  <1>2. s \in Walk /\ s.pc = pc /\ s.todo = todo
    BY <1>0, <1>1, WellTyped DEF Walk, v
  <1>3. \A x \in todo : svc[x] # "absent"
    BY <1>0 DEF v
  <1> QED
    BY <1>2, <1>3 DEF v, Batch

\* Reading the row of a service.
LEMMA StepRead ==
  ASSUME IInv, NEW w \in Sweeps, ReadSetup(w)
  PROVE  IInv'
  <1> DEFINE v == sweep[w]
             x == NextUp(w)
             n == Len(setup[x])
             row == IF n = 0 THEN NoRow ELSE setup[x][n]
  <1>0. /\ v = [pc |-> v.pc, clusters |-> v.clusters, spent |-> v.spent, apps |-> v.apps,
                verdict |-> v.verdict, todo |-> v.todo, found |-> v.found, read |-> v.read]
        /\ v \in Walk /\ \A y \in v.todo : svc[y] # "absent"
    BY Fields DEF IInv, Known
  <1>1. UNCHANGED <<argo, svc, doomed, setup>> /\ v.pc = "read"
    BY DEF ReadSetup, InSweep
  <1>2. v.todo # {} /\ x \in Services
    BY <1>1, NextIsTodo DEF IInv, Known
  <1>3. n \in 0 .. Cardinality(Sweeps) /\ row \in Row
    <2>1. setup[x] \in Seq(Row) /\ n \in 0 .. Cardinality(Sweeps)
      BY <1>2, SweepsCounted DEF IInv, TypeOK
    <2>2. CASE n # 0
      <3>1. n \in 1 .. Len(setup[x])
        BY <2>1, <2>2
      <3> QED
        BY <2>1, <2>2, <3>1, ElementOfSeq
    <2>3. CASE n = 0
      BY <2>1, <2>3, WellTyped
    <2> QED
      BY <2>1, <2>2, <2>3
  <1>4. CASE Drop(w)
    <2>1. Go(w, Batch(w, "apps", {}))
      BY <1>4 DEF Drop, Batch
    <2>2. {} \in SUBSET sweep[w].todo
      OBVIOUS
    <2> HIDE DEF v, x, n, row
    <2> QED
      BY <1>1, <2>1, <2>2, BatchMoves, SweepMoves
  <1>5. CASE Go(w, [v EXCEPT !.pc = "write", !.found = n, !.read = row])
    <2> DEFINE s == [v EXCEPT !.pc = "write", !.found = n, !.read = row]
    <2>1. Go(w, s)
      BY <1>5
    <2>2. x = CHOOSE y \in v.todo : TRUE
      BY DEF NextUp
    <2>3. n = Len(setup[x])
      OBVIOUS
    <2>4. s \in Walk /\ s.pc = "write" /\ s.todo = v.todo /\ s.found = n
      <3> HIDE DEF v, n, row, x
      <3> QED
        BY <1>0, <1>3 DEF Walk
    <2> HIDE DEF s, v, n, x
    <2> QED
      BY <1>0, <1>1, <1>2, <2>1, <2>2, <2>3, <2>4, SweepMoves
  <1> QED
    BY <1>4, <1>5 DEF ReadSetup

-----------------------------------------------------------------------------
(* Reports *)

\* The report is in, and nothing was written.
LEMMA StepUnwritten ==
  ASSUME IInv, NEW w \in Sweeps, WriteFails(w)
  PROVE  IInv'
  <1>1. UNCHANGED <<argo, svc, doomed, setup>>
    BY DEF WriteFails
  <1>2. PICK pc \in {"apps", "read"}, todo \in SUBSET sweep[w].todo :
          /\ pc = "read" => todo # {}
          /\ Go(w, Batch(w, pc, todo))
    BY DEF WriteFails, Drop, Reported, Batch
  <1> DEFINE s == Batch(w, pc, todo)
  <1>3. s \in Walk /\ s.pc = pc /\ s.todo = todo /\ \A x \in s.todo : svc[x] # "absent"
    BY <1>2, BatchMoves
  <1>4. Go(w, s)
    BY <1>2
  <1> HIDE DEF s
  <1> QED
    BY <1>1, <1>2, <1>3, <1>4, SweepMoves

\* The report is written: a row more from a sweep that found none, or the same
\* number of rows.
LEMMA StepWrite ==
  ASSUME IInv, NEW w \in Sweeps, WriteSetup(w)
  PROVE  IInv'
  <1> DEFINE x == NextUp(w)
             n == sweep[w].found
             report == Report(sweep[w].verdict)
  <1>0. /\ UNCHANGED <<argo, svc, doomed>> /\ svc[x] # "purged" /\ svc[x] # "absent"
        /\ sweep[w].pc = "write" /\ x \in Services
    BY NextIsTodo DEF WriteSetup, InSweep, IInv
  <1>1. sweep[w] \in Walk /\ report \in Row /\ sweep[w].read \in Row
    BY Fields, WellTyped DEF IInv, Walk
  <1>2. PICK pc \in {"apps", "read"}, todo \in SUBSET sweep[w].todo :
          /\ pc = "read" => todo # {}
          /\ Go(w, Batch(w, pc, todo))
    BY DEF WriteSetup, Reported, Batch
  <1> DEFINE s == Batch(w, pc, todo)
  <1>3. s \in Walk /\ s.pc = pc /\ s.todo = todo /\ \A y \in s.todo : svc[y] # "absent"
    BY <1>2, BatchMoves
  <1>4. Go(w, s)
    BY <1>2
  <1> HIDE DEF s
  <1>5. sweep' \in [Sweeps -> Walk] /\ sweep'[w] = s /\ \A v \in Sweeps \ {w} : sweep'[v] = sweep[v]
    BY <1>3, <1>4 DEF IInv, TypeOK, Go
  <1>6. setup' = [setup EXCEPT ![x] = Upserted(setup[x], n, sweep[w].read, report)]
    BY DEF WriteSetup
  <1>7. /\ setup' \in [Services -> Seq(Row)]
        /\ \A y \in Services \ {x} : setup'[y] = setup[y]
        /\ Len(setup'[x]) = IF n = 0 THEN Len(setup[x]) + 1 ELSE Len(setup[x])
    <2>1. setup[x] \in Seq(Row)
      BY <1>0 DEF IInv, TypeOK
    <2> DEFINE rows == Upserted(setup[x], n, sweep[w].read, report)
    <2>2. rows \in Seq(Row) /\ Len(rows) = IF n = 0 THEN Len(setup[x]) + 1 ELSE Len(setup[x])
      <3>1. CASE n = 0
        BY <1>1, <2>1, <3>1, AppendProperties DEF Upserted
      <3>2. CASE n # 0 /\ n \in 1 .. Len(setup[x])
        <4>1. setup[x][n] \in Row
          BY <2>1, <3>2, ElementOfSeq
        <4>2. Merge(setup[x][n], sweep[w].read, report) \in Row
          BY <1>1, <4>1, WellTyped
        <4> QED
          BY <2>1, <3>2, <4>2, ExceptSeq DEF Upserted
      <3>3. CASE n # 0 /\ n \notin 1 .. Len(setup[x])
        <4>1. n \notin DOMAIN setup[x] /\ setup[x] = [i \in DOMAIN setup[x] |-> setup[x][i]]
          BY <2>1, <3>3
        <4>2. [setup[x] EXCEPT ![n] = Merge(setup[x][n], sweep[w].read, report)] = setup[x]
          BY <4>1
        <4> QED
          BY <2>1, <3>3, <4>2 DEF Upserted
      <3> QED
        BY <3>1, <3>2, <3>3
    <2> HIDE DEF rows
    <2>3. setup' = [setup EXCEPT ![x] = rows]
      BY <1>6 DEF rows
    <2> QED
      BY <1>0, <2>2, <2>3 DEF IInv, TypeOK
  <1>8. Counted'
    <2> SUFFICES ASSUME NEW y \in Services
                 PROVE  Len(setup'[y]) + Cardinality(Inserting(y)') <= Cardinality(Sweeps)
      BY DEF Counted
    <2>0. Inserting(y) \in SUBSET Sweeps /\ Inserting(y)' \in SUBSET Sweeps /\ Len(setup[y]) \in Nat
      BY DEF Inserting, IInv, TypeOK
    <2>1. Inserting(y)' \subseteq Inserting(y) \ {w}
      BY <1>2, <1>3, <1>5 DEF Inserting, NextUp
    <2>2. CASE y = x /\ n = 0
      <3>1. w \in Inserting(y)
        BY <1>0, <2>2 DEF Inserting
      <3>2. Cardinality(Inserting(y) \ {w}) = Cardinality(Inserting(y)) - 1
        BY <2>0, <3>1, SweepsCounted, FS_RemoveElement
      <3>3. Cardinality(Inserting(y)') <= Cardinality(Inserting(y) \ {w})
        BY <2>0, <2>1, SweepsCounted, FS_Subset
      <3>4. Len(setup'[y]) = Len(setup[y]) + 1
        BY <1>7, <2>2
      <3>5. /\ Cardinality(Inserting(y)') \in Nat /\ Cardinality(Inserting(y)) \in Nat
            /\ Cardinality(Sweeps) \in Nat
        BY <2>0, SweepsCounted
      <3>6. Len(setup[y]) + Cardinality(Inserting(y)) <= Cardinality(Sweeps)
        BY DEF IInv, Counted
      <3> QED
        BY <2>0, <3>2, <3>3, <3>4, <3>5, <3>6
    <2>3. CASE ~(y = x /\ n = 0)
      <3>1. Len(setup'[y]) = Len(setup[y])
        BY <1>7, <2>3
      <3>2. Cardinality(Inserting(y)') <= Cardinality(Inserting(y))
        BY <2>0, <2>1, SweepsCounted, FS_Subset
      <3> QED
        BY <2>0, <3>1, <3>2, SweepsCounted DEF IInv, Counted
    <2> QED
      BY <2>2, <2>3
  <1>9. TypeOK'
    <2>1. \A y \in Services : Len(setup'[y]) <= Cardinality(Sweeps)
      <3> SUFFICES ASSUME NEW y \in Services PROVE Len(setup'[y]) <= Cardinality(Sweeps)
        OBVIOUS
      <3>1. Inserting(y)' \in SUBSET Sweeps
        BY DEF Inserting
      <3>2. Cardinality(Inserting(y)') \in Nat /\ Cardinality(Sweeps) \in Nat
        BY <3>1, SweepsCounted
      <3>3. Len(setup'[y]) \in Nat
        BY <1>7
      <3> QED
        BY <1>8, <3>2, <3>3 DEF Counted
    <2> QED
      BY <1>0, <1>5, <1>7, <2>1 DEF IInv, TypeOK
  <1>10. Known'
    BY <1>0, <1>2, <1>3, <1>5 DEF IInv, Known
  <1>11. NoOrphanSetup'
    BY <1>0, <1>7 DEF IInv, NoOrphanSetup
  <1> QED
    BY <1>8, <1>9, <1>10, <1>11 DEF IInv

-----------------------------------------------------------------------------
(* The theorems *)

\* Every step keeps the invariant.
LEMMA StepHolds == IInv /\ [Next]_vars => IInv'
  <1> SUFFICES ASSUME IInv, [Next]_vars PROVE IInv'
    OBVIOUS
  <1>1. CASE Around
    BY <1>1, StepArgo, StepAround DEF Around
  <1>2. CASE \E x \in Services : FinishPurge(x)
    BY <1>2, StepPurge
  <1>3. CASE \E w \in Sweeps : Sweep(w)
    BY <1>3, StepClusters, StepGroup, StepRead, StepWrite, StepUnwritten DEF Sweep
  <1>4. CASE UNCHANGED vars
    BY <1>4 DEF vars, IInv, TypeOK, Known, Counted, Inserting, NextUp, NoOrphanSetup
  <1> QED
    BY <1>1, <1>2, <1>3, <1>4 DEF Next

\* The invariant holds at every moment.
LEMMA Always == Spec => []IInv
  BY InitHolds, StepHolds, PTL DEF Spec

\* A service has no more setup rows than sweeps may overlap, and everything is
\* well typed.
THEOREM TypeCorrect == Spec => []TypeOK
  <1>1. IInv => TypeOK
    BY DEF IInv
  <1> QED
    BY <1>1, Always, PTL

\* No report that races a purge leaves a row behind.
THEOREM NoOrphans == Spec => []NoOrphanSetup
  <1>1. IInv => NoOrphanSetup
    BY DEF IInv
  <1> QED
    BY <1>1, Always, PTL
=============================================================================
