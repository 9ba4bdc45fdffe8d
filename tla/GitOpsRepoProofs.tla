--------------------------- MODULE GitOpsRepoProofs ---------------------------
(***************************************************************************)
(* Theorems about the platform repository: what a pull request or a commit *)
(* may overwrite, what it publishes, what it never brings back, and that   *)
(* every overlay on main builds.  They hold for any environments, services *)
(* and claims, any number of requests and builds, and any of the faults.   *)
(***************************************************************************)
EXTENDS GitOpsRepo, TLAPS

-----------------------------------------------------------------------------
(* Paths, trees, commits *)

LEMMA InPaths ==
  /\ \A e \in Envs : Kust(e) \in Paths
  /\ \A e \in Envs, s \in Services : Patch(e, s) \in Paths
  /\ \A e \in Envs, k \in Slugs : Secret(e, k) \in Paths /\ Inject(e, k) \in Paths
  /\ \A s \in Services : Folder(s) \in Paths
  /\ \A e \in Envs : Overlay(e) \subseteq Paths
  BY DEF Paths, Overlay

\* A path is of one of five kinds, and tells of which.
LEMMA Kinds ==
  ASSUME NEW p \in Paths
  PROVE  \/ \E e \in Envs : p = Kust(e)
         \/ \E e \in Envs, s \in Services : p = Patch(e, s)
         \/ \E e \in Envs, k \in Slugs : p = Secret(e, k) \/ p = Inject(e, k)
         \/ \E s \in Services : p = Folder(s)
  BY DEF Paths, Overlay

LEMMA KindOf ==
  /\ \A e : Kust(e)[1] = "kustomization" /\ Kust(e)[2] = e
  /\ \A e, s : Patch(e, s)[1] = "patch" /\ Patch(e, s)[2] = e /\ Patch(e, s)[3] = s
  /\ \A e, k : Secret(e, k)[1] = "external-secret" /\ Secret(e, k)[2] = e /\ Secret(e, k)[3] = k
  /\ \A e, k : Inject(e, k)[1] = "inject" /\ Inject(e, k)[2] = e /\ Inject(e, k)[3] = k
  /\ \A s : Folder(s)[1] = "apps" /\ Folder(s)[2] = s
  BY DEF Kust, Patch, Secret, Inject, Folder

LEMMA ContentKinds ==
  /\ \A e : Content(Kust(e)) = {NoFile} \cup Kustomization
  /\ \A e, s : Content(Patch(e, s)) = {NoFile} \cup 0..MaxBuilds
  /\ \A e, k : Content(Secret(e, k)) = {NoFile, "rendered"}
  /\ \A e, k : Content(Inject(e, k)) = {NoFile, "rendered"}
  /\ \A s : Content(Folder(s)) = {NoFile, "rendered"}
  BY KindOf DEF Content

\* A push that keeps to the kinds.
Files(f) == DOMAIN f \subseteq Paths /\ \A p \in DOMAIN f : f[p] \in Content(p)

LEMMA CommittedTree ==
  ASSUME NEW t, IsTree(t), NEW files, Files(files), NEW deletes
  PROVE  IsTree(Committed(t, files, deletes))
<1> \A p \in Paths : NoFile \in Content(p)
  BY DEF Content
<1> QED BY DEF IsTree, Committed, Files

LEMMA EmptyIsTree == IsTree(EmptyTree)
  BY DEF IsTree, EmptyTree, Content

LEMMA NoLinesTyped == NoLines \in Kustomization
  BY DEF NoLines, Kustomization

\* Lines of a kustomization that is a tree's.
LEMMA LinesTyped ==
  ASSUME NEW t, IsTree(t), NEW e \in Envs
  PROVE  Lines(t[Kust(e)]) \in Kustomization
  BY InPaths, ContentKinds, NoLinesTyped DEF IsTree, Lines

-----------------------------------------------------------------------------
(* Types *)

\* The locals and the branch are the records they are written as, and a claim is
\* in hand where one is used.
Shape ==
    /\ work = [files |-> work.files, deletes |-> work.deletes, seen |-> work.seen,
               merged |-> work.merged]
    /\ claim = [todo |-> claim.todo, at |-> claim.at, kind |-> claim.kind,
                seen |-> claim.seen, base |-> claim.base, failed |-> claim.failed]
    /\ branch = [there |-> branch.there, base |-> branch.base, tree |-> branch.tree,
                 behind |-> branch.behind, by |-> branch.by]
    /\ branch.there \in BOOLEAN
    /\ Files(work.files)
    /\ main = [p \in Paths |-> main[p]]
    /\ claim.kind \in {"secret", "inject"}
    /\ pc \in {"ref", "inject", "commit"} => \E c \in Claims : claim.at = {c}

Typed == TypeOK /\ Shape

LEMMA NoFilesTyped == Files(<<>>) /\ DOMAIN <<>> = {}
  BY DEF Files

LEMMA Asked == ASSUME Typed PROVE request \in Request
  BY GitOpsAssumption DEF Typed, TypeOK, NoRequest, Request

LEMMA RowsTyped ==
  ASSUME Typed
  PROVE  /\ \A x \in rows.services : x = <<x[1], x[2]>> /\ x[1] \in Envs /\ x[2] \in Services
         /\ \A c \in rows.claims : c = <<c[1], c[2]>> /\ c[1] \in Envs /\ c[2] \in Slugs
         /\ Bases \subseteq Services /\ Kept \subseteq Bases /\ FullyRemoved \subseteq Bases
         /\ Targets \subseteq Envs /\ Emitted \subseteq Envs
         /\ \A e : EnvBases(e) \subseteq Kept
         /\ Leaving \subseteq rows.services /\ Released \subseteq rows.claims
  BY DEF Typed, TypeOK, Deployed, Claims, Bases, Kept, FullyRemoved, Targets, Emitted,
         EnvBases, Leaving, Released

\* Where something is rendered, the application is deployed.
LEMMA RenderedTargets ==
  ASSUME NEW e \in Emitted, EnvBases(e) # {}
  PROVE  e \in Targets
  BY DEF Emitted, Targets, EnvBases, Kept, Bases

LEMMA RenderTyped ==
  ASSUME Typed
  PROVE  /\ Files(RenderedFiles) /\ DOMAIN RenderedFiles = RenderedPaths
         /\ RemovedPaths \subseteq Paths \ RenderedPaths
<1>1. \A p \in RenderedPaths :
        \/ \E s \in Kept : p = Folder(s)
        \/ \E e \in Targets : EnvBases(e) # {} /\ p = Kust(e)
        \/ \E e \in Targets : \E s \in EnvBases(e) : p = Patch(e, s)
  BY RenderedTargets DEF RenderedPaths
<1>2. RenderedPaths \subseteq Paths
  BY <1>1, RowsTyped, InPaths
<1>3. DOMAIN RenderedFiles = RenderedPaths
  BY DEF RenderedFiles
<1>4. ASSUME NEW p \in RenderedPaths
      PROVE  RenderedFiles[p] \in Content(p)
  <2>1. CASE \E s \in Kept : p = Folder(s)
    BY <2>1, KindOf, ContentKinds DEF RenderedFiles
  <2>2. CASE \E e \in Targets : p = Kust(e)
    <3>1. PICK e \in Targets : p = Kust(e)
      BY <2>2
    <3>2. RenderedFiles[p] = Regenerated(e)
      BY <3>1, KindOf DEF RenderedFiles
    <3>3. Lines(main[Kust(e)]) \in Kustomization /\ EnvBases(e) \subseteq Services
      BY <3>1, RowsTyped, LinesTyped DEF Typed, TypeOK
    <3>4. Regenerated(e) \in Kustomization
      BY <3>3 DEF Regenerated, Kustomization
    <3> QED BY <3>1, <3>2, <3>4, ContentKinds
  <2>3. CASE \E e \in Targets : \E s \in EnvBases(e) : p = Patch(e, s)
    <3>0. PICK e \in Targets : \E s \in EnvBases(e) : p = Patch(e, s)
      BY <2>3
    <3>1. PICK s \in EnvBases(e) : p = Patch(e, s)
      BY <3>0
    <3>2. RenderedFiles[p] = CurrentTag(e, s)
      BY <3>1, KindOf DEF RenderedFiles
    <3>3. main[Patch(e, s)] \in {NoFile} \cup 0..MaxBuilds
      BY <3>1, RowsTyped, InPaths, ContentKinds DEF Typed, TypeOK, IsTree
    <3>4. CurrentTag(e, s) \in 0..MaxBuilds
      BY <3>3, GitOpsAssumption DEF CurrentTag
    <3> QED BY <3>1, <3>2, <3>4, ContentKinds
  <2> QED BY <1>1, <2>1, <2>2, <2>3
<1>5. RemovedPaths \subseteq Paths
  BY InPaths, RowsTyped, Asked DEF RemovedPaths, Request, Deployed, Claims
<1>6. ASSUME NEW p \in RenderedPaths, p \in RemovedPaths
      PROVE  FALSE
  <2>1. CASE \E s \in Kept : p = Folder(s)
    BY <1>6, <2>1, KindOf DEF RemovedPaths, Overlay, Kept
  <2>2. CASE \E e \in Targets : EnvBases(e) # {} /\ p = Kust(e)
    BY <1>6, <2>2, KindOf DEF RemovedPaths, Overlay
  <2>3. CASE \E e \in Targets : \E s \in EnvBases(e) : p = Patch(e, s)
    <3>0. PICK e \in Targets : \E s \in EnvBases(e) : p = Patch(e, s)
      BY <2>3
    <3>1. PICK s \in EnvBases(e) : p = Patch(e, s)
      BY <3>0
    <3>2. <<e, s>> \notin request.remove
      BY DEF EnvBases
    <3>3. \A x \in request.remove : x = <<x[1], x[2]>>
      BY Asked DEF Request, Deployed
    <3> QED BY <1>6, <3>1, <3>2, <3>3, KindOf DEF RemovedPaths, Overlay
  <2> QED BY <1>1, <2>1, <2>2, <2>3
<1> QED BY <1>2, <1>3, <1>4, <1>5, <1>6 DEF Files

LEMMA MergedTree ==
  ASSUME Typed
  PROVE  IsTree(Merged(branch)) /\ Merged(branch) = [p \in Paths |-> Merged(branch)[p]]
  BY DEF Typed, TypeOK, IsTree, Merged

LEMMA CommittedIs ==
  ASSUME NEW t, NEW files, NEW deletes
  PROVE  Committed(t, files, deletes) = [p \in Paths |-> Committed(t, files, deletes)[p]]
  BY DEF Committed

LEMMA InHandTyped ==
  ASSUME Typed, pc \in {"ref", "inject", "commit"}
  PROVE  /\ InHand \in Claims /\ claim.at = {InHand}
         /\ InHand = <<InHand[1], InHand[2]>> /\ InHand[1] \in Envs /\ InHand[2] \in Slugs
<1>1. PICK c \in Claims : claim.at = {c}
  BY DEF Typed, Shape
<1>2. InHand = c
  BY <1>1 DEF InHand
<1> QED BY <1>1, <1>2 DEF Claims

LEMMA ClaimFilesTyped ==
  ASSUME Typed, pc \in {"ref", "inject", "commit"}
  PROVE  Files(ClaimFiles)
<1> DEFINE e == InHand[1]
           k == InHand[2]
           file == IF claim.kind = "secret" THEN Secret(e, k) ELSE Inject(e, k)
           lines == IF claim.kind = "secret"
                      THEN [claim.seen EXCEPT !.resources = @ \cup {k}]
                      ELSE [claim.seen EXCEPT !.patches = @ \cup {k}]
<1>1. e \in Envs /\ k \in Slugs
  BY InHandTyped
<1>2. file \in Paths /\ "rendered" \in Content(file)
  BY <1>1, InPaths, ContentKinds
<1>3. lines \in Kustomization
  BY <1>1 DEF Typed, TypeOK, Kustomization
<1>4. lines \in Content(Kust(e)) /\ Kust(e) \in Paths
  BY <1>1, <1>3, InPaths, ContentKinds
<1> HIDE DEF file, lines, e, k
<1>5. ClaimFiles = IF lines = claim.seen THEN [p \in {file} |-> "rendered"]
        ELSE [p \in {file, Kust(e)} |-> IF p = file THEN "rendered" ELSE lines]
  BY DEF ClaimFiles, file, lines, e, k
<1> QED BY <1>2, <1>4, <1>5 DEF Files

\* The initial locals, by their fields.
LEMMA NoWorkIs ==
  /\ NoWork = [files |-> NoWork.files, deletes |-> NoWork.deletes, seen |-> NoWork.seen,
               merged |-> NoWork.merged]
  /\ Files(NoWork.files) /\ DOMAIN NoWork.files = {} /\ NoWork.deletes = {}
  /\ IsTree(NoWork.seen) /\ NoWork.merged = FALSE
  BY EmptyIsTree, NoFilesTyped DEF NoWork

LEMMA NoClaimIs ==
  /\ NoClaim = [todo |-> NoClaim.todo, at |-> NoClaim.at, kind |-> NoClaim.kind,
                seen |-> NoClaim.seen, base |-> NoClaim.base, failed |-> NoClaim.failed]
  /\ NoClaim.todo = {} /\ NoClaim.at = {} /\ NoClaim.kind = "secret"
  /\ NoClaim.seen \in Kustomization /\ IsTree(NoClaim.base) /\ NoClaim.failed = FALSE
  BY EmptyIsTree, NoLinesTyped DEF NoClaim

LEMMA NoBranchIs ==
  /\ NoBranch = [there |-> NoBranch.there, base |-> NoBranch.base, tree |-> NoBranch.tree,
                 behind |-> NoBranch.behind, by |-> NoBranch.by]
  /\ NoBranch.there = FALSE /\ NoBranch.behind = {} /\ NoBranch.by = 0
  /\ IsTree(NoBranch.base) /\ IsTree(NoBranch.tree)
  BY EmptyIsTree DEF NoBranch

\* Typed holds initially, and every step keeps it.
LEMMA InitTyped == Init => Typed
<1> SUFFICES ASSUME Init PROVE Typed
  OBVIOUS
<1>1. TypeOK
  <2>1. /\ rows \in [services : SUBSET Deployed, claims : SUBSET Claims]
        /\ sent \in 0..MaxRequests /\ builds \in 0..MaxBuilds /\ branch.by \in 0..MaxRequests
    BY NoBranchIs, GitOpsAssumption DEF Init
  <2>2. IsTree(work.seen) /\ IsTree(main) /\ IsTree(branch.base) /\ IsTree(branch.tree)
    BY EmptyIsTree, NoWorkIs, NoBranchIs DEF Init
  <2>3. claim.seen \in Kustomization /\ IsTree(claim.base)
    BY NoClaimIs DEF Init
  <2> QED BY <2>1, <2>2, <2>3, NoWorkIs, NoClaimIs, NoBranchIs DEF Init, TypeOK
<1>2. Shape
  <2>1. EmptyTree = [p \in Paths |-> EmptyTree[p]]
    BY DEF EmptyTree
  <2> QED BY <2>1, NoWorkIs, NoClaimIs, NoBranchIs DEF Init, Shape
<1> QED BY <1>1, <1>2 DEF Typed

LEMMA SubmitTyped == ASSUME Typed, NEW r \in Requests, Submit(r) PROVE Typed'
<1>1. r \in Request
  BY GitOpsAssumption
<1>2. TypeOK'
  <2>1. /\ rows' \in [services : SUBSET Deployed, claims : SUBSET Claims]
        /\ sent' \in 0..MaxRequests
    BY <1>1, GitOpsAssumption DEF Typed, TypeOK, Submit, Request
  <2>2. pc' \in InStep1
    BY DEF Submit, InStep1
  <2> QED BY <2>1, <2>2, NoWorkIs, NoClaimIs DEF Typed, TypeOK, Submit, gitVars
<1>3. Shape'
  BY NoWorkIs, NoClaimIs DEF Typed, Shape, Submit, gitVars
<1> QED BY <1>2, <1>3 DEF Typed

LEMMA TeardownTyped ==
  ASSUME Typed, request.env # NoEnv
  PROVE  TeardownPaths \subseteq Paths
<1>1. request.env \in Envs
  BY Asked DEF Request
<1> QED BY <1>1, InPaths DEF TeardownPaths

LEMMA BeginTyped == ASSUME Typed, Begin PROVE Typed'
<1>1. CASE work' = NoWork
  <2>1. TypeOK'
    BY <1>1, NoWorkIs DEF Typed, TypeOK, Begin, dbVars, gitVars, InStep1
  <2>2. Shape'
    BY <1>1, NoWorkIs DEF Typed, Shape, Begin, gitVars
  <2> QED BY <2>1, <2>2 DEF Typed
<1>2. CASE \E set \in SUBSET Paths :
             work' = [files |-> <<>>, deletes |-> set, seen |-> main, merged |-> FALSE]
  <2>1. TypeOK'
    BY <1>2, NoFilesTyped DEF Typed, TypeOK, Begin, dbVars, gitVars, InStep1
  <2>2. Shape'
    BY <1>2, NoFilesTyped DEF Typed, Shape, Begin, gitVars
  <2> QED BY <2>1, <2>2 DEF Typed
<1> QED BY <1>1, <1>2, TeardownTyped DEF Begin

LEMMA ScaffoldTyped == ASSUME Typed, Scaffold PROVE Typed'
  BY RowsTyped DEF Typed, TypeOK, Shape, Scaffold, dbVars, gitVars, Workflows, InStep1

LEMMA RenderTypes == ASSUME Typed, Render PROVE Typed'
<1>1. TypeOK'
  <2>1. pc' \in InStep1 /\ (work').files = RenderedFiles /\ (work').deletes = RemovedPaths
        /\ (work').seen = main /\ (work').merged = FALSE
    BY DEF Render, InStep1
  <2>2. /\ DOMAIN (work').files \subseteq Paths
        /\ (work').deletes \subseteq Paths \ DOMAIN (work').files
        /\ IsTree((work').seen) /\ (work').merged \in BOOLEAN
    BY <2>1, RenderTyped DEF Typed, TypeOK, Files
  <2> QED BY <2>1, <2>2 DEF Typed, TypeOK, Render, dbVars, gitVars
<1>2. Shape'
  BY RenderTyped DEF Typed, Shape, Render, gitVars
<1> QED BY <1>1, <1>2 DEF Typed

LEMMA SyncTyped == ASSUME Typed, SyncBranch PROVE Typed'
  BY DEF Typed, TypeOK, Shape, SyncBranch, dbVars, InStep1

LEMMA PushTyped == ASSUME Typed, PushTree PROVE Typed'
<1> DEFINE tree == Committed(branch.tree, work.files, work.deletes)
<1>1. IsTree(tree)
  BY CommittedTree DEF Typed, TypeOK, Shape
<1> HIDE DEF tree
<1>2. TypeOK'
  BY <1>1, EmptyIsTree, NoFilesTyped
     DEF Typed, TypeOK, Shape, PushTree, tree, NoWork, dbVars, InStep1
<1>3. Shape'
  BY NoFilesTyped DEF Typed, Shape, PushTree, NoWork
<1> QED BY <1>2, <1>3 DEF Typed

LEMMA MergeTyped == ASSUME Typed, TryMerge PROVE Typed'
  BY MergedTree DEF Typed, TypeOK, Shape, TryMerge, SquashMerge, dbVars, InStep1

LEMMA EnterTyped == ASSUME Typed, EnterExtract PROVE Typed'
<1>1. TypeOK'
  BY EmptyIsTree, NoLinesTyped, RowsTyped DEF Typed, TypeOK, EnterExtract, NoClaim, dbVars, gitVars
<1>2. Shape'
  BY DEF Typed, Shape, EnterExtract, NoClaim, gitVars
<1> QED BY <1>1, <1>2 DEF Typed

LEMMA TakeTyped == ASSUME Typed, NEW c \in Claims, TakeClaim(c) PROVE Typed'
<1>1. Lines(main[Kust(c[1])]) \in Kustomization
  BY LinesTyped DEF Typed, TypeOK, Claims
<1> QED BY <1>1 DEF Typed, TypeOK, Shape, TakeClaim, dbVars, gitVars

LEMMA ReadKustTyped == ASSUME Typed, ReadKustomization PROVE Typed'
<1>1. Lines(main[Kust(InHand[1])]) \in Kustomization
  BY InHandTyped, LinesTyped DEF Typed, TypeOK, ReadKustomization
<1> QED BY <1>1 DEF Typed, TypeOK, Shape, ReadKustomization, dbVars, gitVars

LEMMA ReadHeadTyped == ASSUME Typed, ReadHead PROVE Typed'
  BY DEF Typed, TypeOK, Shape, ReadHead, AfterCommit, dbVars

LEMMA CommitTyped == ASSUME Typed, CommitClaim PROVE Typed'
<1>1. IsTree(Committed(claim.base, ClaimFiles, {}))
  BY ClaimFilesTyped, CommittedTree DEF Typed, TypeOK, CommitClaim
<1>2. TypeOK'
  BY <1>1, EmptyIsTree DEF Typed, TypeOK, Shape, CommitClaim, AfterCommit, dbVars
<1>3. main' = [p \in Paths |-> main'[p]]
  BY CommittedIs DEF Typed, Shape, CommitClaim
<1>4. Shape'
  BY <1>3 DEF Typed, Shape, CommitClaim, AfterCommit
<1> QED BY <1>2, <1>4 DEF Typed

LEMMA ClaimFailsTyped == ASSUME Typed, ClaimFails PROVE Typed'
  BY DEF Typed, TypeOK, Shape, ClaimFails, dbVars, gitVars

LEMMA FinishTyped == ASSUME Typed, Finish PROVE Typed'
  BY RowsTyped DEF Typed, TypeOK, Shape, Finish, gitVars

LEMMA FailTyped == ASSUME Typed, Fail PROVE Typed'
  BY DEF Typed, TypeOK, Shape, Fail, gitVars, dbVars

LEMMA RestartTyped == ASSUME Typed, Restart PROVE Typed'
<1>1. TypeOK'
  <2>1. CASE work' = NoWork /\ UNCHANGED claim /\ pc' = "begin"
    BY <2>1, NoWorkIs DEF Typed, TypeOK, Restart, dbVars, gitVars, InStep1
  <2>2. CASE /\ claim' = [NoClaim EXCEPT !.todo = rows.claims \ Released]
             /\ UNCHANGED work /\ pc' = "extract"
    <3>1. /\ (claim').todo \subseteq Claims /\ (claim').at = {} /\ (claim').failed = FALSE
          /\ (claim').seen \in Kustomization /\ IsTree((claim').base)
      BY <2>2, NoClaimIs DEF NoClaim, Typed, TypeOK
    <3> QED BY <2>2, <3>1 DEF Typed, TypeOK, Restart, dbVars, gitVars
  <2> QED BY <2>1, <2>2 DEF Restart
<1>2. Shape'
  BY NoWorkIs, NoClaimIs DEF Typed, Shape, Restart, gitVars, InStep1
<1> QED BY <1>1, <1>2 DEF Typed

LEMMA BumpTyped == ASSUME Typed, NEW e \in Envs, NEW s \in Services, Bump(e, s) PROVE Typed'
<1>1. builds + 1 \in 0..MaxBuilds
  BY GitOpsAssumption DEF Typed, TypeOK, Bump
<1>2. IsTree(main')
  BY <1>1, InPaths, ContentKinds DEF Typed, TypeOK, Shape, IsTree, Bump
<1> QED BY <1>1, <1>2 DEF Typed, TypeOK, Shape, Bump, dbVars

LEMMA ReviewTyped == ASSUME Typed, Review PROVE Typed'
<1>1. TypeOK'
  <2>1. IsTree(main') /\ (moved)' \in BOOLEAN /\ pr' \in BOOLEAN /\ stale' \subseteq Envs
    BY MergedTree DEF Typed, TypeOK, Review, SquashMerge
  <2>2. /\ IsTree((branch').base) /\ IsTree((branch').tree)
        /\ (branch').behind \subseteq Paths /\ (branch').by \in 0..MaxRequests
    BY NoBranchIs, GitOpsAssumption DEF Typed, TypeOK, Review
  <2> QED BY <2>1, <2>2 DEF Typed, TypeOK, Review, dbVars
<1>2. Shape'
  BY MergedTree, NoBranchIs DEF Typed, Shape, Review, SquashMerge
<1> QED BY <1>1, <1>2 DEF Typed

LEMMA ElsewhereTyped == ASSUME Typed, Elsewhere PROVE Typed'
  BY DEF Typed, TypeOK, Shape, Elsewhere, dbVars

LEMMA NextTyped == Typed /\ [Next]_vars => Typed'
<1>1. Typed /\ UNCHANGED vars => Typed'
  BY DEF Typed, TypeOK, Shape, vars, dbVars, gitVars, IsTree, Files
<1> QED
  BY <1>1, SubmitTyped, BeginTyped, ScaffoldTyped, RenderTypes, SyncTyped, PushTyped, MergeTyped,
     EnterTyped, TakeTyped, ReadKustTyped, ReadHeadTyped, CommitTyped, ClaimFailsTyped,
     FinishTyped, FailTyped, RestartTyped, BumpTyped, ReviewTyped, ElsewhereTyped
     DEF Next

LEMMA AlwaysTyped == Spec => []Typed
  BY InitTyped, NextTyped, PTL DEF Spec

\* Every variable has its type, and no push both writes and deletes a file:
\* what Step 1 renders and what it removes are disjoint, for any rows, any
\* request and whatever main holds.
THEOREM TypeCorrect == Spec => []TypeOK
<1>1. Typed => TypeOK
  BY DEF Typed
<1> QED BY <1>1, AlwaysTyped, PTL

-----------------------------------------------------------------------------
(* What a worker writes over what others wrote                               *)

\* The file of path p in new keeps what old had: the tag of a patch, the lines
\* of a kustomization that the rows still ask for.
Carries(old, new, p) ==
    old[p] # NoFile /\ new[p] # NoFile =>
      /\ p[1] = "patch" => new[p] = old[p]
      /\ p[1] = "kustomization" =>
           /\ old[p].services \cap Wanted(p[2]).services \subseteq new[p].services
           /\ old[p].resources \cap Wanted(p[2]).resources \subseteq new[p].resources
           /\ old[p].patches \cap Wanted(p[2]).patches \subseteq new[p].patches

\* No tag is younger than the latest build.
Tags(f) == \A p \in DOMAIN f : p[1] = "patch" /\ f[p] # NoFile => f[p] <= builds

Young == Tags(main) /\ Tags(branch.tree) /\ Tags(work.files)

\* What Step 1 has rendered keeps what it read.
Rendered ==
    pc \in {"sync", "push"} => \A p \in DOMAIN work.files : Carries(work.seen, work.files, p)

\* The branch starts from main, and knows where main has moved on since.
Synced ==
    pc = "push" /\ branch.there =>
        /\ branch.tree = branch.base
        /\ \A p \in DOMAIN work.files : p \in branch.behind \/ branch.base[p] = work.seen[p]

\* What the branch changes keeps what its base had.  The lines that are wanted
\* are those of its own request.
Faithful ==
    \A p \in Paths \ branch.behind :
      p[1] = "patch" \/ branch.by = sent => Carries(branch.base, branch.tree, p)

\* A commit that would be accepted is based on main as it is.
OnHead == pc = "commit" /\ ~moved => claim.base = main

Careful == Young /\ Rendered /\ Synced /\ Faithful /\ branch.by <= sent /\ OnHead

LEMMA WantedKept ==
  ASSUME Typed, NEW e \in Envs
  PROVE  /\ Wanted(e).services \subseteq EnvBases(e)
         /\ Wanted(e).resources \cap RemovedSlugs(e) = {}
         /\ Wanted(e).patches \cap RemovedSlugs(e) = {}
<1>1. Wanted(e).services \subseteq EnvBases(e)
  BY DEF Wanted, EnvBases, Kept, Bases, FullyRemoved, Leaving
<1>2. Wanted(e).resources \cap RemovedSlugs(e) = {} /\ Wanted(e).patches \cap RemovedSlugs(e) = {}
  BY DEF Wanted, RemovedSlugs, Released
<1> QED BY <1>1, <1>2

LEMMA RenderCarries ==
  ASSUME Typed, NEW p \in RenderedPaths
  PROVE  Carries(main, RenderedFiles, p)
<1>1. \/ \E s \in Kept : p = Folder(s)
      \/ \E e \in Targets : p = Kust(e)
      \/ \E e \in Targets : \E s \in EnvBases(e) : p = Patch(e, s)
  BY RenderedTargets DEF RenderedPaths
<1>2. CASE \E s \in Kept : p = Folder(s)
  BY <1>2, KindOf DEF Carries
<1>3. CASE \E e \in Targets : p = Kust(e)
  <2>1. PICK e \in Targets : p = Kust(e)
    BY <1>3
  <2>2. RenderedFiles[p] = Regenerated(e)
    BY <2>1, KindOf DEF RenderedFiles
  <2>3. e \in Envs /\ p[1] = "kustomization" /\ p[2] = e
    BY <2>1, RowsTyped, KindOf
  <2>4. main[p] # NoFile => Lines(main[Kust(e)]) = main[p]
    BY <2>1 DEF Lines
  <2> QED BY <2>2, <2>3, <2>4, WantedKept DEF Carries, Regenerated
<1>4. CASE \E e \in Targets : \E s \in EnvBases(e) : p = Patch(e, s)
  <2>1. PICK e \in Targets : \E s \in EnvBases(e) : p = Patch(e, s)
    BY <1>4
  <2>2. PICK s \in EnvBases(e) : p = Patch(e, s)
    BY <2>1
  <2>3. RenderedFiles[p] = CurrentTag(e, s) /\ p[1] = "patch"
    BY <2>2, KindOf DEF RenderedFiles
  <2> QED BY <2>2, <2>3 DEF Carries, CurrentTag
<1> QED BY <1>1, <1>2, <1>3, <1>4

LEMMA RenderTags ==
  ASSUME Typed, Tags(main)
  PROVE  Tags(RenderedFiles)
<1> SUFFICES ASSUME NEW p \in RenderedPaths, p[1] = "patch", RenderedFiles[p] # NoFile
             PROVE  RenderedFiles[p] <= builds
  BY RenderTyped DEF Tags
<1>1. PICK e \in Targets : \E s \in EnvBases(e) : p = Patch(e, s)
  BY RenderedTargets, KindOf DEF RenderedPaths
<1>2. PICK s \in EnvBases(e) : p = Patch(e, s)
  BY <1>1
<1>3. RenderedFiles[p] = CurrentTag(e, s)
  BY <1>2, KindOf DEF RenderedFiles
<1>4. p \in DOMAIN main
  BY <1>2, RowsTyped, InPaths DEF Typed, TypeOK, IsTree
<1> QED BY <1>2, <1>3, <1>4 DEF Tags, CurrentTag, Typed, TypeOK

LEMMA CarriesSelf == ASSUME NEW t, NEW p PROVE Carries(t, t, p)
  BY DEF Carries

\* What is wanted changes only when a request is submitted; a purge drops no
\* row that is wanted.
LEMMA WantedShrinks ==
  ASSUME Typed, UNCHANGED dbVars \/ Finish, NEW e
  PROVE  /\ Wanted(e)'.services \subseteq Wanted(e).services
         /\ Wanted(e)'.resources \subseteq Wanted(e).resources
         /\ Wanted(e)'.patches \subseteq Wanted(e).patches
<1>1. CASE UNCHANGED dbVars
  BY <1>1 DEF dbVars, Wanted, Leaving, Released
<1>2. CASE Finish
  <2>1. /\ rows'.services \subseteq rows.services /\ rows'.claims \subseteq rows.claims
        /\ request' = request
    BY <1>2 DEF Finish, Typed, TypeOK
  <2> QED BY <2>1 DEF Wanted, Leaving, Released
<1> QED BY <1>1, <1>2

LEMMA CarriesStays ==
  ASSUME Typed, UNCHANGED dbVars \/ Finish, NEW old, NEW new, NEW p, Carries(old, new, p)
  PROVE  Carries(old, new, p)'
  BY WantedShrinks DEF Carries

\* The steps that touch neither the branch nor what Step 1 has rendered.
LEMMA StaysFaithful ==
  ASSUME Typed, Careful, UNCHANGED dbVars \/ Finish, UNCHANGED branch
  PROVE  Faithful' /\ branch'.by <= sent'
<1>1. sent' = sent
  BY DEF dbVars, Finish
<1>2. ASSUME NEW p \in Paths \ (branch').behind, p[1] = "patch" \/ (branch').by = sent'
      PROVE  Carries(branch.base, branch.tree, p)'
  <2>1. Carries(branch.base, branch.tree, p)
    BY <1>1, <1>2 DEF Careful, Faithful
  <2>2. branch' = branch
    OBVIOUS
  <2> QED BY <2>1, <2>2, WantedShrinks DEF Carries
<1> QED BY <1>1, <1>2 DEF Careful, Faithful
\* Careful holds initially, and every step keeps it.
LEMMA InitCareful == Init => Careful
<1> SUFFICES ASSUME Init PROVE Careful
  OBVIOUS
<1>1. Young
  <2>1. \A p \in Paths : EmptyTree[p] = NoFile
    BY DEF EmptyTree
  <2>2. branch.tree = EmptyTree /\ main = EmptyTree /\ DOMAIN EmptyTree = Paths
    BY DEF Init, NoBranch, EmptyTree
  <2> QED BY <2>1, <2>2, NoWorkIs DEF Init, Young, Tags
<1>2. Faithful
  <2>1. branch.base = branch.tree
    BY DEF Init, NoBranch
  <2> QED BY <2>1, CarriesSelf DEF Faithful
<1>3. branch.by <= sent /\ Rendered /\ Synced /\ OnHead
  BY NoBranchIs DEF Init, Rendered, Synced, OnHead
<1> QED BY <1>1, <1>2, <1>3 DEF Careful

LEMMA SubmitCareful == ASSUME Typed, Careful, NEW r \in Requests, Submit(r) PROVE Careful'
<1>1. Young'
  BY NoWorkIs DEF Careful, Young, Tags, Submit, gitVars
<1>2. sent' = sent + 1 /\ branch' = branch /\ branch.by <= sent
  BY DEF Careful, Submit, gitVars
<1>3. (branch').by <= sent' /\ (branch').by # sent'
  BY <1>2 DEF Typed, TypeOK
<1>4. ASSUME NEW p \in Paths \ (branch').behind, p[1] = "patch"
      PROVE  Carries(branch.base, branch.tree, p)'
  BY <1>2, <1>4 DEF Careful, Faithful, Carries
<1>5. Faithful'
  BY <1>3, <1>4 DEF Faithful
<1>6. Rendered' /\ Synced' /\ OnHead'
  BY DEF Submit, Rendered, Synced, OnHead
<1> QED BY <1>1, <1>3, <1>5, <1>6 DEF Careful

\* The steps that touch neither the repository nor the rows, and leave Step 1
\* before its push.
LEMMA AsideCareful ==
  ASSUME Typed, Careful, UNCHANGED dbVars \/ Finish, UNCHANGED <<main, branch, builds>>,
         work' = work \/ (work').files = <<>>,
         pc' \notin {"push", "commit"},
         pc' = "sync" => (work').files = <<>>
  PROVE  Careful'
<1>1. Young'
  BY NoFilesTyped DEF Careful, Young, Tags
<1>2. Rendered'
  BY NoFilesTyped DEF Rendered
<1>3. Synced' /\ OnHead'
  BY DEF Synced, OnHead
<1>4. Faithful' /\ (branch').by <= sent'
  BY StaysFaithful
<1> QED BY <1>1, <1>2, <1>3, <1>4 DEF Careful

LEMMA RenderCareful == ASSUME Typed, Careful, Render PROVE Careful'
<1>1. /\ (work').files = RenderedFiles /\ (work').seen = main /\ pc' = "sync"
      /\ UNCHANGED <<dbVars, main, branch, builds>>
  BY DEF Render, gitVars
<1>2. Young'
  <2>1. Tags(RenderedFiles)
    BY RenderTags DEF Careful, Young
  <2> QED BY <1>1, <2>1 DEF Careful, Young, Tags
<1>3. Rendered'
  <2>1. ASSUME NEW p \in DOMAIN (work').files
        PROVE  Carries(work.seen, work.files, p)'
    <3>1. Carries(main, RenderedFiles, p)
      BY <1>1, <2>1, RenderTyped, RenderCarries
    <3> HIDE DEF RenderedFiles
    <3> QED BY <1>1, <3>1, WantedShrinks DEF Carries
  <2> QED BY <2>1 DEF Rendered
<1>4. Synced' /\ OnHead'
  BY <1>1 DEF Synced, OnHead
<1>5. Faithful' /\ (branch').by <= sent'
  BY <1>1, StaysFaithful
<1> QED BY <1>2, <1>3, <1>4, <1>5 DEF Careful

LEMMA SyncCareful == ASSUME Typed, Careful, SyncBranch PROVE Careful'
<1>1. /\ (branch').base = main /\ (branch').tree = main /\ (branch').by = sent
      /\ (branch').behind = IF work.files = <<>> THEN {} ELSE {p \in Paths : main[p] # work.seen[p]}
      /\ pc = "sync" /\ pc' = "push"
      /\ UNCHANGED <<dbVars, work, main, builds>>
  BY DEF SyncBranch
<1>2. Young'
  BY <1>1 DEF Careful, Young, Tags
<1>3. Rendered'
  <2>1. ASSUME NEW p \in DOMAIN (work').files
        PROVE  Carries(work.seen, work.files, p)'
    <3>1. Carries(work.seen, work.files, p)
      BY <1>1, <2>1 DEF Careful, Rendered
    <3> QED BY <1>1, <3>1, WantedShrinks DEF Carries
  <2> QED BY <2>1 DEF Rendered
<1>4. Synced'
  <2>1. ASSUME NEW p \in DOMAIN work.files
        PROVE  p \in (branch').behind \/ main[p] = work.seen[p]
    <3>1. p \in Paths /\ work.files # <<>>
      BY <2>1, NoFilesTyped DEF Typed, TypeOK
    <3> QED BY <1>1, <3>1
  <2> QED BY <1>1, <2>1 DEF Synced
<1>5. Faithful'
  BY <1>1, CarriesSelf DEF Faithful, Carries
<1>6. OnHead' /\ (branch').by <= sent'
  BY <1>1 DEF OnHead, dbVars, Typed, TypeOK
<1> QED BY <1>2, <1>3, <1>4, <1>5, <1>6 DEF Careful

LEMMA PushCareful == ASSUME Typed, Careful, PushTree PROVE Careful'
<1> DEFINE tree == Committed(branch.tree, work.files, work.deletes)
<1>1. /\ (branch').base = branch.base /\ (branch').tree = tree
      /\ (branch').by = branch.by /\ (branch').behind = branch.behind
      /\ pc = "push" /\ branch.there /\ pc' \in {"merge", "report"}
      /\ (work').files = <<>>
      /\ UNCHANGED <<dbVars, main, builds>>
  BY DEF PushTree, Typed, Shape, NoWork
<1>2. /\ \A p \in Paths : \/ tree[p] = NoFile
                          \/ p \in DOMAIN work.files /\ tree[p] = work.files[p]
                          \/ tree[p] = branch.tree[p]
      /\ DOMAIN tree = Paths
  BY DEF Committed
<1> HIDE DEF tree
<1>3. Young'
  <2>1. Tags(tree)
    BY <1>2 DEF Careful, Young, Tags, Typed, TypeOK, IsTree
  <2> QED BY <1>1, <2>1, NoFilesTyped DEF Careful, Young, Tags
<1>4. Faithful'
  <2>1. ASSUME NEW p \in Paths \ branch.behind
        PROVE  Carries(branch.base, tree, p)
    <3>1. branch.tree = branch.base
      BY <1>1 DEF Careful, Synced
    <3>2. CASE tree[p] = NoFile
      BY <3>2 DEF Carries
    <3>3. CASE tree[p] = branch.tree[p]
      BY <3>1, <3>3 DEF Carries
    <3>4. CASE p \in DOMAIN work.files /\ tree[p] = work.files[p]
      <4>1. branch.base[p] = work.seen[p]
        BY <1>1, <2>1, <3>4 DEF Careful, Synced
      <4>2. Carries(work.seen, work.files, p)
        BY <1>1, <3>4 DEF Careful, Rendered
      <4> QED BY <3>4, <4>1, <4>2 DEF Carries
    <3> QED BY <1>2, <3>2, <3>3, <3>4
  <2>2. ASSUME NEW p \in Paths \ (branch').behind
        PROVE  Carries(branch.base, branch.tree, p)'
    <3>1. Carries(branch.base, tree, p)
      BY <1>1, <2>1
    <3> QED BY <1>1, <3>1, WantedShrinks DEF Carries
  <2> QED BY <2>2 DEF Faithful
<1>5. Rendered' /\ Synced' /\ OnHead'
  BY <1>1 DEF Rendered, Synced, OnHead
<1>6. (branch').by <= sent'
  BY <1>1 DEF Careful, dbVars
<1> QED BY <1>3, <1>4, <1>5, <1>6 DEF Careful

LEMMA MergedYoung ==
  ASSUME Typed, Careful
  PROVE  Tags(Merged(branch))
  BY DEF Typed, TypeOK, IsTree, Careful, Young, Tags, Merged

LEMMA MergeCareful == ASSUME Typed, Careful, TryMerge PROVE Careful'
<1>1. /\ UNCHANGED <<dbVars, branch, builds>> /\ main' \in {main, Merged(branch)}
      /\ (work').files = work.files /\ (work').seen = work.seen /\ pc' = "report"
  BY DEF TryMerge, SquashMerge, Typed, Shape
<1>2. Young'
  BY <1>1, MergedYoung DEF Careful, Young, Tags
<1>3. Rendered' /\ Synced' /\ OnHead'
  BY <1>1 DEF Rendered, Synced, OnHead
<1>4. Faithful' /\ (branch').by <= sent'
  BY <1>1, StaysFaithful
<1> QED BY <1>2, <1>3, <1>4 DEF Careful

LEMMA ReadHeadCareful == ASSUME Typed, Careful, ReadHead PROVE Careful'
<1>1. /\ UNCHANGED <<dbVars, work, main, branch, builds>>
      /\ pc' \in {"inject", "extract", "commit"} /\ (pc' = "commit" => (claim').base = main)
  BY DEF ReadHead, AfterCommit, Typed, Shape
<1>2. Young'
  BY <1>1 DEF Careful, Young, Tags
<1>3. Rendered' /\ Synced' /\ OnHead'
  BY <1>1 DEF Rendered, Synced, OnHead
<1>4. Faithful' /\ (branch').by <= sent'
  BY <1>1, StaysFaithful
<1> QED BY <1>2, <1>3, <1>4 DEF Careful

\* No file that extract commits is a patch.
LEMMA ClaimFilesAre ==
  ASSUME Typed, pc \in {"ref", "inject", "commit"}
  PROVE  /\ DOMAIN ClaimFiles \subseteq
              {Secret(InHand[1], InHand[2]), Inject(InHand[1], InHand[2]), Kust(InHand[1])}
         /\ Kust(InHand[1]) \in DOMAIN ClaimFiles =>
              /\ claim.seen.services \subseteq ClaimFiles[Kust(InHand[1])].services
              /\ claim.seen.resources \subseteq ClaimFiles[Kust(InHand[1])].resources
              /\ claim.seen.patches \subseteq ClaimFiles[Kust(InHand[1])].patches
<1> DEFINE e == InHand[1]
           k == InHand[2]
           file == IF claim.kind = "secret" THEN Secret(e, k) ELSE Inject(e, k)
           lines == IF claim.kind = "secret"
                      THEN [claim.seen EXCEPT !.resources = @ \cup {k}]
                      ELSE [claim.seen EXCEPT !.patches = @ \cup {k}]
<1>1. file \in {Secret(e, k), Inject(e, k)} /\ file # Kust(e)
  BY KindOf
<1>2. /\ claim.seen.services \subseteq lines.services
      /\ claim.seen.resources \subseteq lines.resources
      /\ claim.seen.patches \subseteq lines.patches
  BY DEF Typed, TypeOK, Kustomization
<1> HIDE DEF file, lines, e, k
<1>3. ClaimFiles = IF lines = claim.seen THEN [p \in {file} |-> "rendered"]
        ELSE [p \in {file, Kust(e)} |-> IF p = file THEN "rendered" ELSE lines]
  BY DEF ClaimFiles, file, lines, e, k
<1>4. /\ DOMAIN ClaimFiles \subseteq {Secret(e, k), Inject(e, k), Kust(e)}
      /\ Kust(e) \in DOMAIN ClaimFiles => ClaimFiles[Kust(e)] = lines
  BY <1>1, <1>3
<1> QED BY <1>2, <1>4 DEF e, k

LEMMA CommitCareful == ASSUME Typed, Careful, CommitClaim PROVE Careful'
<1>1. /\ UNCHANGED <<dbVars, work, branch, builds>> /\ pc = "commit"
      /\ pc' \in {"inject", "extract"}
  BY DEF CommitClaim, AfterCommit
<1>2. Tags(main')
  <2>1. CASE moved
    BY <2>1 DEF CommitClaim, Careful, Young
  <2>2. CASE ~moved
    <3>1. main' = Committed(main, ClaimFiles, {})
      BY <1>1, <2>2 DEF CommitClaim, Careful, OnHead
    <3>2. \A p \in DOMAIN ClaimFiles : p[1] # "patch"
      BY <1>1, ClaimFilesAre, KindOf
    <3> QED BY <3>1, <3>2 DEF Committed, Careful, Young, Tags, Typed, TypeOK, IsTree
  <2> QED BY <2>1, <2>2
<1>3. Young'
  BY <1>1, <1>2 DEF Careful, Young, Tags
<1>4. Rendered' /\ Synced' /\ OnHead'
  BY <1>1 DEF Rendered, Synced, OnHead
<1>5. Faithful' /\ (branch').by <= sent'
  BY <1>1, StaysFaithful
<1> QED BY <1>3, <1>4, <1>5 DEF Careful

\* The steps of the other writers, while Step 1 or extract is at work.
LEMMA OthersCareful ==
  ASSUME Typed, Careful, UNCHANGED <<dbVars, pc, work, claim>>,
         UNCHANGED main \/ moved' = (pc = "commit"),
         UNCHANGED moved \/ moved' = (pc = "commit") \/ moved' = TRUE
  PROVE  Rendered' /\ OnHead'
<1>1. Rendered'
  <2>1. ASSUME pc' \in {"sync", "push"}, NEW p \in DOMAIN (work').files
        PROVE  Carries(work.seen, work.files, p)'
    <3>1. Carries(work.seen, work.files, p)
      BY <2>1 DEF Careful, Rendered
    <3> QED BY <3>1, WantedShrinks DEF Carries
  <2> QED BY <2>1 DEF Rendered
<1>2. OnHead'
  BY DEF Careful, OnHead, Typed, TypeOK
<1> QED BY <1>1, <1>2

LEMMA BumpCareful ==
  ASSUME Typed, Careful, NEW e \in Envs, NEW s \in Services, Bump(e, s)
  PROVE  Careful'
<1>1. /\ UNCHANGED <<dbVars, pc, work, claim, branch>> /\ moved' = (pc = "commit")
      /\ builds' = builds + 1 /\ main' = [main EXCEPT ![Patch(e, s)] = builds + 1]
  BY DEF Bump
<1>2. Young'
  <2>1. \A p \in DOMAIN main' : p \in Paths
    BY <1>1 DEF Typed, TypeOK, IsTree
  <2>2. ASSUME NEW f, Files(f), Tags(f), NEW p \in DOMAIN f, p[1] = "patch", f[p] # NoFile
        PROVE  f[p] <= builds'
    <3>1. f[p] <= builds /\ f[p] \in 0..MaxBuilds
      BY <2>2, Kinds, KindOf, ContentKinds DEF Tags, Files
    <3> QED BY <1>1, <3>1, GitOpsAssumption DEF Typed, TypeOK
  <2>3. Files(main) /\ Files(branch.tree) /\ Files(work.files)
    BY DEF Typed, TypeOK, Shape, IsTree, Files
  <2>4. Tags(branch.tree)' /\ Tags(work.files)'
    BY <1>1, <2>2, <2>3 DEF Careful, Young, Tags
  <2>5. Tags(main)'
    <3>1. \A p \in DOMAIN main : p[1] = "patch" /\ main[p] # NoFile => main[p] <= builds'
      BY <2>2, <2>3 DEF Careful, Young
    <3>2. builds + 1 <= builds'
      BY <1>1, GitOpsAssumption DEF Typed, TypeOK
    <3> QED BY <1>1, <3>1, <3>2 DEF Tags
  <2> QED BY <2>4, <2>5 DEF Young
<1>3. Rendered' /\ OnHead'
  BY <1>1, OthersCareful
<1>4. Synced'
  BY <1>1 DEF Careful, Synced
<1>5. Faithful' /\ (branch').by <= sent'
  BY <1>1, StaysFaithful
<1> QED BY <1>2, <1>3, <1>4, <1>5 DEF Careful

LEMMA ReviewCareful == ASSUME Typed, Careful, Review PROVE Careful'
<1>1. /\ UNCHANGED <<dbVars, pc, work, claim, builds>> /\ moved' = (pc = "commit")
      /\ main' = Merged(branch) /\ branch' \in {branch, NoBranch}
  BY DEF Review, SquashMerge
<1>2. Young'
  <2>1. Tags(NoBranch.tree)
    BY DEF NoBranch, EmptyTree, Tags
  <2> QED BY <1>1, <2>1, MergedYoung DEF Careful, Young, Tags
<1>3. Rendered' /\ OnHead'
  BY <1>1, OthersCareful
<1>4. Synced'
  BY <1>1, NoBranchIs DEF Careful, Synced
<1>5. Faithful' /\ (branch').by <= sent'
  <2>1. CASE branch' = branch
    BY <1>1, <2>1, StaysFaithful
  <2>2. CASE branch' = NoBranch
    <3>1. (branch').base = (branch').tree /\ (branch').by = 0
      BY <2>2 DEF NoBranch
    <3> QED BY <1>1, <3>1 DEF Faithful, Carries, Typed, TypeOK, dbVars
  <2> QED BY <1>1, <2>1, <2>2
<1> QED BY <1>2, <1>3, <1>4, <1>5 DEF Careful

LEMMA ElsewhereCareful == ASSUME Typed, Careful, Elsewhere PROVE Careful'
<1>1. /\ UNCHANGED <<dbVars, pc, work, claim, main, branch, builds>> /\ moved' = TRUE
  BY DEF Elsewhere
<1>2. Young'
  BY <1>1 DEF Careful, Young, Tags
<1>3. Rendered' /\ OnHead'
  BY <1>1, OthersCareful
<1>4. Synced'
  BY <1>1 DEF Careful, Synced
<1>5. Faithful' /\ (branch').by <= sent'
  BY <1>1, StaysFaithful
<1> QED BY <1>2, <1>3, <1>4, <1>5 DEF Careful

LEMMA StutterCareful == ASSUME Typed, Careful, UNCHANGED vars PROVE Careful'
<1>1. /\ UNCHANGED <<dbVars, pc, work, claim, main, moved, branch, builds>>
  BY DEF vars, gitVars
<1>2. Young'
  BY <1>1 DEF Careful, Young, Tags
<1>3. Rendered' /\ OnHead'
  BY <1>1, OthersCareful
<1>4. Synced'
  BY <1>1 DEF Careful, Synced
<1>5. Faithful' /\ (branch').by <= sent'
  BY <1>1, StaysFaithful
<1> QED BY <1>2, <1>3, <1>4, <1>5 DEF Careful

LEMMA NextCareful == Typed /\ Careful /\ [Next]_vars => Careful'
<1> SUFFICES ASSUME Typed, Careful, [Next]_vars PROVE Careful'
  OBVIOUS
<1>1. CASE Begin
  <2>1. (work').files = <<>>
    BY <1>1, NoWorkIs DEF Begin, NoWork
  <2> QED BY <1>1, <2>1, AsideCareful DEF Begin, gitVars
<1>2. CASE Scaffold
  BY <1>2, AsideCareful DEF Scaffold, gitVars
<1>3. CASE EnterExtract \/ ReadKustomization \/ ClaimFails \/ \E c \in Claims : TakeClaim(c)
  BY <1>3, AsideCareful DEF EnterExtract, ReadKustomization, ClaimFails, TakeClaim, gitVars
<1>4. CASE Finish
  BY <1>4, AsideCareful DEF Finish, gitVars
<1>5. CASE Fail
  BY <1>5, AsideCareful DEF Fail, gitVars
<1>6. CASE Restart
  BY <1>6, AsideCareful, NoWorkIs DEF Restart, gitVars, NoWork
<1> QED
  BY <1>1, <1>2, <1>3, <1>4, <1>5, <1>6, SubmitCareful, RenderCareful, SyncCareful, PushCareful,
     MergeCareful, ReadHeadCareful, CommitCareful, BumpCareful, ReviewCareful, ElsewhereCareful,
     StutterCareful
     DEF Next

LEMMA AlwaysCareful == Spec => []Careful
  BY AlwaysTyped, InitCareful, NextCareful, PTL DEF Spec

\* What GitHub merges goes back only behind the window, or for an earlier request.
LEMMA MergeKeeps ==
  ASSUME Typed, Careful, SquashMerge, NEW p \in Paths, Reverted(p)
  PROVE  Overtaken(p)
<1>1. p[1] = "patch" \/ p[1] = "kustomization"
  BY DEF Reverted
<1>2. main'[p] # main[p]
  BY Kinds, KindOf, ContentKinds, GitOpsAssumption DEF Reverted, Typed, TypeOK, IsTree, NoLines
<1>3. /\ main'[p] = branch.tree[p] /\ main[p] = branch.base[p]
  BY <1>2 DEF SquashMerge, Merged, Conflicts, Changed
<1>4. CASE p[1] = "patch"
  <2>1. ASSUME p \notin branch.behind PROVE FALSE
    <3>1. Carries(branch.base, branch.tree, p)
      BY <1>4, <2>1 DEF Careful, Faithful
    <3> QED BY <1>2, <1>3, <1>4, <3>1 DEF Carries, Reverted
  <2> QED BY <1>4, <2>1 DEF Overtaken
<1>5. CASE p[1] = "kustomization"
  <2>0. PICK e \in Envs : p = Kust(e)
    BY <1>5, Kinds, KindOf
  <2>1. CASE p \in branch.behind
    <3>1. e \in stale'
      BY <2>0, <2>1 DEF SquashMerge, Reverted
    <3> QED BY <1>5, <2>0, <3>1, KindOf DEF Overtaken
  <2>2. CASE p \notin branch.behind /\ branch.by = sent
    <3>1. Carries(branch.base, branch.tree, p)
      BY <2>2 DEF Careful, Faithful
    <3> QED BY <1>3, <1>5, <3>1 DEF Carries, Reverted, NoLines
  <2> QED BY <1>5, <2>1, <2>2 DEF Overtaken
<1> QED BY <1>1, <1>4, <1>5

LEMMA CommitKeeps ==
  ASSUME Typed, Careful, CommitClaim, NEW p \in Paths, Reverted(p)
  PROVE  Overtaken(p)
<1>1. p[1] = "patch" \/ p[1] = "kustomization"
  BY DEF Reverted
<1>2. main'[p] # main[p]
  BY Kinds, KindOf, ContentKinds, GitOpsAssumption DEF Reverted, Typed, TypeOK, IsTree, NoLines
<1>3. ~moved /\ main' = Committed(main, ClaimFiles, {}) /\ claim.base = main /\ pc = "commit"
  BY <1>2 DEF CommitClaim, Careful, OnHead
<1>4. p \in DOMAIN ClaimFiles /\ main'[p] = ClaimFiles[p]
  BY <1>2, <1>3 DEF Committed
<1>5. p = Kust(InHand[1]) /\ p[1] = "kustomization" /\ p[2] = InHand[1] /\ InHand[1] \in Envs
  BY <1>1, <1>3, <1>4, ClaimFilesAre, KindOf, InHandTyped
<1>6. Lines(main[p]) # claim.seen
  <2>1. SUFFICES ASSUME main[p] = claim.seen PROVE FALSE
    BY DEF Reverted, Lines
  <2> QED BY <1>3, <1>4, <1>5, <2>1, ClaimFilesAre DEF Reverted, NoLines
<1>7. InHand[1] \in stale'
  BY <1>3, <1>4, <1>5, <1>6 DEF CommitClaim
<1> QED BY <1>5, <1>7 DEF Overtaken

LEMMA BumpKeeps ==
  ASSUME Typed, Careful, NEW e \in Envs, NEW s \in Services, Bump(e, s), NEW p \in Paths
  PROVE  ~Reverted(p)
<1>1. main' = [main EXCEPT ![Patch(e, s)] = builds + 1] /\ DOMAIN main = Paths
  BY DEF Bump, Typed, TypeOK, IsTree
<1>2. CASE p = Patch(e, s)
  <2>1. main[p] # NoFile => main[p] <= builds /\ main[p] \in 0..MaxBuilds
    BY <1>1, <1>2, KindOf, ContentKinds, InPaths
       DEF Careful, Young, Tags, Typed, TypeOK, IsTree
  <2>2. main'[p] = builds + 1 /\ p[1] = "patch"
    BY <1>1, <1>2, KindOf, InPaths
  <2> QED BY <2>1, <2>2, GitOpsAssumption DEF Reverted, Typed, TypeOK
<1>3. CASE p # Patch(e, s)
  <2>1. main'[p] = main[p]
    BY <1>1, <1>3
  <2> QED BY <2>1, Kinds, KindOf, ContentKinds, GitOpsAssumption
          DEF Reverted, Typed, TypeOK, IsTree, NoLines
<1> QED BY <1>2, <1>3

LEMMA StayKeeps ==
  ASSUME Typed, UNCHANGED main, NEW p \in Paths
  PROVE  ~Reverted(p)
  BY Kinds, KindOf, ContentKinds, GitOpsAssumption
     DEF Reverted, Typed, TypeOK, IsTree, NoLines

\* Whatever fails, restarts or is left to a reviewer, and however many other
\* writers commit meanwhile: no step takes a tag of CI back, and none drops from
\* a kustomization what the rows ask for, but where Overtaken says so.
THEOREM KeepsOthers == Spec => NothingLost
<1>1. ASSUME Typed, Careful, [Next]_vars
      PROVE  [\A p \in Paths : Reverted(p) => Overtaken(p)]_vars
  <2> SUFFICES ASSUME NEW p \in Paths, Reverted(p), ~UNCHANGED vars
               PROVE  Overtaken(p)
    OBVIOUS
  <2>1. CASE SquashMerge
    BY <2>1, <1>1, MergeKeeps
  <2>2. CASE CommitClaim
    BY <2>2, <1>1, CommitKeeps
  <2>3. CASE \E e \in Envs, s \in Services : Bump(e, s)
    BY <2>3, <1>1, BumpKeeps
  <2>4. CASE UNCHANGED main
    BY <2>4, <1>1, StayKeeps
  <2> QED
    BY <1>1, <2>1, <2>2, <2>3, <2>4
       DEF Next, Submit, Begin, Scaffold, Render, SyncBranch, PushTree, TryMerge, EnterExtract,
           TakeClaim, ReadKustomization, ReadHead, ClaimFails, Finish, Fail, Restart, Review,
           Elsewhere, dbVars, gitVars
<1> QED BY <1>1, AlwaysTyped, AlwaysCareful, PTL DEF Spec, NothingLost

-----------------------------------------------------------------------------
(* What the tree comes to hold *)

\* The environment keeps a service when the run is over.
Home(e) == \E s \in Services : <<e, s>> \in rows.services \ Leaving

\* No update takes the last service of an environment while others keep theirs:
\* every overlay lists the services of all environments, so the code renders
\* one for an environment that keeps none (the run desired_footprint).
Homed == request.env = NoEnv => \A e \in Targets : EnvBases(e) # {} => Home(e)

\* What the request asks of a tree.
Asks(t) ==
    IF request.env # NoEnv THEN \A p \in TeardownPaths : t[p] = NoFile
    ELSE \A e \in Envs :
           IF e \in Emitted /\ EnvBases(e) # {}
             THEN t[Kust(e)] # NoFile /\ t[Kust(e)].services = EnvBases(e)
             ELSE t[Kust(e)] = NoFile

\* Two trees that differ in the tags only.
Near(t, u) == \A p \in Paths : /\ t[p] = NoFile <=> u[p] = NoFile
                               /\ p[1] # "patch" => t[p] = u[p]

\* Begin sends deletes elsewhere: what is rendered is an update's.
Renders == pc \in {"scaffold", "render"} => request.env = NoEnv

\* What Step 1 is about to push.
Plan ==
    pc \in {"sync", "push"} =>
      IF request.env # NoEnv THEN TeardownPaths \subseteq work.deletes /\ DOMAIN work.files = {}
      ELSE \A e \in Envs :
             IF e \in Emitted /\ EnvBases(e) # {}
               THEN /\ Kust(e) \in DOMAIN work.files
                    /\ work.files[Kust(e)] # NoFile
                    /\ work.files[Kust(e)].services = EnvBases(e)
               ELSE /\ Kust(e) \notin DOMAIN work.files
                    /\ e \in Targets => Kust(e) \in work.deletes
                    /\ \/ Kust(e) \in work.deletes
                       \/ pc = "sync" /\ main[Kust(e)] = NoFile
                       \/ pc = "push" /\ (branch.there => branch.base[Kust(e)] = NoFile)

\* From the reset of the branch to the merge, main changes by tags only: who
\* merges the pull request before Step 1 does leaves it nothing to merge.
Settled == (pc = "push" \/ (pc = "merge" /\ pr)) /\ branch.there => Near(main, branch.base)

Ready ==
    /\ pc = "merge" /\ pr /\ branch.there => Asks(branch.tree)
    /\ pc = "report" /\ work.merged => ~pr /\ Asks(main)

\* The branch adds an overlay where a service is at home, and that outlasts the
\* purge.
Adds(e) == branch.tree[Kust(e)] # NoFile /\ branch.base[Kust(e)] = NoFile
Homeward ==
    \A e \in Envs : Adds(e) =>
      /\ e \in Targets
      /\ pc \in {"merge", "report", "extract", "ref", "inject", "commit"} => Home(e)

\* Extract works on claims that have rows.
Held ==
    /\ pc \in {"extract", "ref", "inject", "commit"} => claim.todo \subseteq rows.claims
    /\ pc \in {"ref", "inject", "commit"} => claim.at \subseteq rows.claims

Tidy == Renders /\ Plan /\ Settled /\ Ready /\ Homeward /\ Held

LEMMA SameRequest ==
  ASSUME UNCHANGED dbVars
  PROVE  /\ Emitted' = Emitted /\ Targets' = Targets /\ TeardownPaths' = TeardownPaths
         /\ Leaving' = Leaving
         /\ \A e : EnvBases(e)' = EnvBases(e)
         /\ \A e : Home(e)' <=> Home(e)
  BY DEF dbVars, Emitted, Targets, TeardownPaths, Leaving, EnvBases, Kept, Bases, FullyRemoved, Home

LEMMA NearAsks ==
  ASSUME Typed, NEW t, NEW u, Near(t, u), Asks(u)
  PROVE  Asks(t)
<1>1. CASE request.env # NoEnv
  <2>1. TeardownPaths \subseteq Paths
    BY <1>1, TeardownTyped
  <2> QED BY <1>1, <2>1 DEF Near, Asks
<1>2. CASE request.env = NoEnv
  BY <1>2, InPaths, KindOf DEF Near, Asks
<1> QED BY <1>1, <1>2

LEMMA NearSelf == ASSUME NEW t PROVE Near(t, t)
  BY DEF Near

LEMMA HomeTargets == ASSUME NEW e, Home(e) PROVE e \in Targets
  BY DEF Home, Targets

\* The steps of a run that leave the repository alone.
LEMMA AsideTidy ==
  ASSUME Typed, Tidy, UNCHANGED <<dbVars, branch>>,
         pc' \in {"idle", "begin", "extract"} \/ (pc = "scaffold" /\ pc' = "render"),
         pc' = "extract" => /\ (claim').todo \subseteq rows.claims
                            /\ pc \in {"merge", "report", "extract", "ref", "inject", "commit"}
  PROVE  Tidy'
<1>1. Renders' /\ Plan' /\ Settled' /\ Ready'
  BY DEF Tidy, Renders, Plan, Settled, Ready, dbVars
<1>2. Homeward'
  BY SameRequest DEF Tidy, Homeward, Adds
<1>3. Held'
  BY DEF Held, dbVars
<1> QED BY <1>1, <1>2, <1>3 DEF Tidy

\* Every step keeps Tidy.
LEMMA SubmitTidy == ASSUME Typed, Tidy, NEW r \in Requests, Submit(r) PROVE Tidy'
<1>1. Renders' /\ Plan' /\ Settled' /\ Ready' /\ Held'
  BY DEF Submit, Renders, Plan, Settled, Ready, Held
<1>2. Homeward'
  BY DEF Submit, Tidy, Homeward, Adds, Targets, gitVars
<1> QED BY <1>1, <1>2 DEF Tidy

LEMMA BeginTidy == ASSUME Typed, Tidy, Begin PROVE Tidy'
<1>0. UNCHANGED <<dbVars, claim, main, branch, pr>> /\ pc' \in {"sync", "scaffold"}
  BY DEF Begin, gitVars
<1>1. Renders' /\ Settled' /\ Ready' /\ Held'
  BY <1>0 DEF Renders, Settled, Ready, Held, Begin, dbVars
<1>2. Homeward'
  BY <1>0, SameRequest DEF Tidy, Homeward, Adds
<1>3. CASE pc' = "scaffold"
  <2>1. Plan'
    BY <1>3 DEF Plan
  <2> QED BY <1>1, <1>2, <2>1 DEF Tidy
<1>4. CASE pc' = "sync" /\ request.env # NoEnv
  <2>1. (work').deletes = TeardownPaths /\ DOMAIN (work').files = {}
    BY <1>4, NoFilesTyped DEF Begin
  <2>2. Plan'
    BY <1>0, <1>4, <2>1, SameRequest DEF Plan, dbVars
  <2> QED BY <1>1, <1>2, <2>2 DEF Tidy
<1>5. CASE pc' = "sync" /\ request.env = NoEnv
  <2>1. (work').deletes = Paths /\ DOMAIN (work').files = {} /\ Kept = {}
    BY <1>5, NoFilesTyped DEF Begin
  <2>2. \A e : EnvBases(e) = {}
    BY <2>1 DEF EnvBases
  <2>3. Plan'
    BY <1>0, <1>5, <2>1, <2>2, SameRequest, InPaths DEF Plan, dbVars
  <2> QED BY <1>1, <1>2, <2>3 DEF Tidy
<1> QED BY <1>0, <1>3, <1>4, <1>5

LEMMA RenderTidy == ASSUME Typed, Tidy, Render PROVE Tidy'
<1>0. /\ UNCHANGED <<dbVars, claim, main, branch, pr>> /\ pc' = "sync" /\ request.env = NoEnv
      /\ (work').files = RenderedFiles /\ (work').deletes = RemovedPaths
  BY DEF Render, Tidy, Renders, gitVars
<1>1. Renders' /\ Settled' /\ Ready' /\ Held'
  BY <1>0 DEF Renders, Settled, Ready, Held
<1>2. Homeward'
  BY <1>0, SameRequest DEF Tidy, Homeward, Adds
<1>3. ASSUME NEW e \in Envs, e \in Emitted, EnvBases(e) # {}
      PROVE  /\ Kust(e) \in DOMAIN RenderedFiles
             /\ RenderedFiles[Kust(e)] # NoFile
             /\ RenderedFiles[Kust(e)].services = EnvBases(e)
  <2>1. Kust(e) \in RenderedPaths
    BY <1>3 DEF RenderedPaths
  <2>2. RenderedFiles[Kust(e)] = Regenerated(e)
    BY <2>1, KindOf DEF RenderedFiles
  <2>3. Regenerated(e).services = EnvBases(e)
    BY DEF Regenerated
  <2>4. Regenerated(e) \in Kustomization
    BY RowsTyped, LinesTyped DEF Typed, TypeOK, Regenerated, Kustomization
  <2>5. NoFile \notin Kustomization
    BY GitOpsAssumption DEF Kustomization
  <2> QED BY <2>1, <2>2, <2>3, <2>4, <2>5, RenderTyped
<1>4. ASSUME NEW e \in Envs, ~(e \in Emitted /\ EnvBases(e) # {})
      PROVE  /\ Kust(e) \notin DOMAIN RenderedFiles
             /\ e \in Targets => Kust(e) \in RemovedPaths
             /\ Kust(e) \in RemovedPaths \/ main[Kust(e)] = NoFile
  <2>1. Kust(e) \notin RenderedPaths
    <3>1. ASSUME NEW d \in Emitted, EnvBases(d) # {},
                 Kust(e) = Kust(d) \/ \E s \in EnvBases(d) : Kust(e) = Patch(d, s)
          PROVE  FALSE
      BY <1>4, <3>1, KindOf
    <3>2. \A s : Kust(e) # Folder(s)
      BY KindOf
    <3> QED BY <3>1, <3>2 DEF RenderedPaths
  <2>2. Kust(e) \in Overlay(e)
    BY DEF Overlay
  <2>3. CASE e \in Emitted
    BY <1>4, <2>1, <2>2, <2>3, RenderTyped DEF RemovedPaths
  <2>4. CASE e \notin Emitted
    <3>1. e \notin Targets
      BY <2>4 DEF Emitted
    <3>2. main[Kust(e)] # NoFile => Kust(e) \in RemovedPaths
      BY <2>2, <3>1 DEF RemovedPaths
    <3> QED BY <2>1, <3>1, <3>2, RenderTyped
  <2> QED BY <2>3, <2>4
<1>5. Plan'
  <2> HIDE DEF RenderedFiles, RemovedPaths
  <2> QED BY <1>0, <1>3, <1>4, SameRequest DEF Plan, dbVars
<1> QED BY <1>1, <1>2, <1>5 DEF Tidy

LEMMA SyncTidy == ASSUME Typed, Tidy, SyncBranch PROVE Tidy'
<1>0. /\ UNCHANGED <<dbVars, work, claim, main, pr>> /\ pc = "sync" /\ pc' = "push"
      /\ (branch').base = main /\ (branch').tree = main
  BY DEF SyncBranch
<1>1. Renders' /\ Settled' /\ Ready' /\ Held'
  BY <1>0 DEF Renders, Settled, Ready, Held, Near
<1>2. Homeward'
  BY <1>0 DEF Homeward, Adds
<1>3. Plan'
  BY <1>0, SameRequest DEF Tidy, Plan, dbVars
<1> QED BY <1>1, <1>2, <1>3 DEF Tidy

LEMMA PushAsks ==
  ASSUME Typed, Careful, Tidy, pc = "push", branch.there
  PROVE  Asks(Committed(branch.tree, work.files, work.deletes))
<1> DEFINE tree == Committed(branch.tree, work.files, work.deletes)
<1>0. branch.tree = branch.base
  BY DEF Careful, Synced
<1>1. CASE request.env # NoEnv
  <2>1. TeardownPaths \subseteq Paths /\ TeardownPaths \subseteq work.deletes
    BY <1>1, TeardownTyped DEF Tidy, Plan
  <2> QED BY <1>1, <2>1 DEF Asks, Committed
<1>2. CASE request.env = NoEnv
  <2>1. ASSUME NEW e \in Envs
        PROVE  IF e \in Emitted /\ EnvBases(e) # {}
                 THEN tree[Kust(e)] # NoFile /\ tree[Kust(e)].services = EnvBases(e)
                 ELSE tree[Kust(e)] = NoFile
    <3>1. Kust(e) \in Paths
      BY InPaths
    <3>2. CASE e \in Emitted /\ EnvBases(e) # {}
      <4>1. /\ Kust(e) \in DOMAIN work.files
            /\ work.files[Kust(e)] # NoFile
            /\ work.files[Kust(e)].services = EnvBases(e)
        BY <1>2, <3>2 DEF Tidy, Plan
      <4>2. Kust(e) \notin work.deletes
        BY <4>1 DEF Typed, TypeOK
      <4>3. tree[Kust(e)] = work.files[Kust(e)]
        BY <3>1, <4>1, <4>2 DEF Committed
      <4> HIDE DEF tree
      <4> QED BY <3>2, <4>1, <4>3
    <3>3. CASE ~(e \in Emitted /\ EnvBases(e) # {})
      <4>1. /\ Kust(e) \notin DOMAIN work.files
            /\ Kust(e) \in work.deletes \/ branch.base[Kust(e)] = NoFile
        BY <1>2, <3>3 DEF Tidy, Plan
      <4>2. tree[Kust(e)] = NoFile
        BY <1>0, <3>1, <4>1 DEF Committed
      <4> QED BY <3>3, <4>2
    <3> QED BY <3>2, <3>3
  <2> HIDE DEF tree
  <2> QED BY <1>2, <2>1 DEF Asks, tree
<1> QED BY <1>1, <1>2

LEMMA PushHomeward == ASSUME Typed, Careful, Tidy, Homed, PushTree PROVE Homeward'
<1> DEFINE tree == Committed(branch.tree, work.files, work.deletes)
<1>0. /\ UNCHANGED dbVars /\ pc = "push" /\ branch.there
      /\ (branch').base = branch.base /\ (branch').tree = tree
      /\ branch.tree = branch.base
  BY DEF PushTree, Careful, Synced, Typed, Shape
<1>1. ASSUME NEW e \in Envs, tree[Kust(e)] # NoFile, branch.base[Kust(e)] = NoFile
      PROVE  Home(e)
  <2>1. Kust(e) \in DOMAIN work.files
    BY <1>0, <1>1, InPaths DEF Committed
  <2>2. request.env = NoEnv /\ e \in Emitted /\ EnvBases(e) # {}
    BY <1>0, <2>1 DEF Tidy, Plan
  <2> QED BY <2>2, RenderedTargets DEF Homed
<1> HIDE DEF tree
<1>2. ASSUME NEW e \in Envs, Adds(e)'
      PROVE  Home(e)
  BY <1>0, <1>1, <1>2 DEF Adds
<1> QED BY <1>0, <1>2, SameRequest, HomeTargets DEF Homeward

LEMMA PushTidy == ASSUME Typed, Careful, Tidy, Homed, PushTree PROVE Tidy'
<1> DEFINE tree == Committed(branch.tree, work.files, work.deletes)
<1>0. /\ UNCHANGED <<dbVars, claim, main>> /\ pc = "push" /\ branch.there
      /\ pc' = (IF tree # branch.tree \/ pr THEN "merge" ELSE "report")
      /\ (branch').base = branch.base /\ (branch').tree = tree
      /\ pr' = (tree # branch.tree \/ pr)
      /\ branch.tree = branch.base /\ pr \in BOOLEAN
  BY DEF PushTree, Careful, Synced, Typed, TypeOK, Shape
<1>1. Asks(tree)
  BY <1>0, PushAsks
<1>2. Homeward'
  BY PushHomeward
<1> HIDE DEF tree
<1>3. Near(main, branch.base)
  BY <1>0 DEF Tidy, Settled
<1>4. Settled' /\ Renders' /\ Plan' /\ Held'
  BY <1>0, <1>3 DEF Settled, Renders, Plan, Held, Near
<1>5. Ready'
  <2>1. request' = request
    BY <1>0 DEF dbVars
  <2>2. CASE pc' = "merge"
    BY <1>0, <1>1, <2>1, <2>2, SameRequest DEF Ready, Asks
  <2>3. CASE pc' = "report"
    <3>1. Near(main, tree)
      BY <1>0, <1>3, <2>3
    <3>2. Asks(main)
      BY <1>1, <3>1, NearAsks
    <3> QED BY <1>0, <2>1, <2>3, <3>2, SameRequest DEF Ready, Asks
  <2> QED BY <1>0, <2>2, <2>3
<1> QED BY <1>2, <1>4, <1>5 DEF Tidy

\* A merge between Step 1's push and its own leaves main as the branch is.
LEMMA MergedNear ==
  ASSUME Typed, Near(main, branch.base), ~Conflicts(branch)
  PROVE  Near(Merged(branch), branch.tree)
<1> SUFFICES ASSUME NEW p \in Paths
             PROVE  /\ Merged(branch)[p] = NoFile <=> branch.tree[p] = NoFile
                    /\ p[1] # "patch" => Merged(branch)[p] = branch.tree[p]
  BY DEF Near
<1> QED BY DEF Near, Merged, Changed

LEMMA MergeTidy == ASSUME Typed, Careful, Tidy, TryMerge PROVE Tidy'
<1>0. /\ UNCHANGED <<dbVars, branch, claim>> /\ pc = "merge" /\ pc' = "report"
  BY DEF TryMerge
<1>1. Renders' /\ Plan' /\ Settled' /\ Held'
  BY <1>0 DEF Renders, Plan, Settled, Held
<1>2. Homeward'
  BY <1>0, SameRequest DEF Tidy, Homeward, Adds
<1>3. Ready'
  <2> SUFFICES ASSUME (work').merged PROVE ~pr' /\ Asks(main)'
    BY <1>0 DEF Ready
  <2>1. SquashMerge
    BY DEF TryMerge, Typed, Shape
  <2>2. Near(main', branch.tree) /\ ~pr'
    BY <1>0, <2>1, MergedNear DEF SquashMerge, Tidy, Settled
  <2>3. Asks(branch.tree)
    BY <1>0, <2>1 DEF SquashMerge, Tidy, Ready
  <2>4. Asks(main')
    BY <2>2, <2>3, NearAsks
  <2>5. request' = request
    BY <1>0 DEF dbVars
  <2> QED BY <1>0, <2>2, <2>4, <2>5, SameRequest DEF Asks
<1> QED BY <1>1, <1>2, <1>3 DEF Tidy

\* The steps of extract that leave the repository alone, and a stutter of it.
LEMMA ExtractTidy ==
  ASSUME Typed, Tidy, UNCHANGED <<dbVars, branch>>,
         pc \in {"extract", "ref", "inject", "commit"},
         pc' \in {"extract", "ref", "inject", "commit"},
         (claim').todo \subseteq claim.todo,
         pc' # "extract" => (claim').at \subseteq rows.claims
  PROVE  Tidy'
<1>1. Renders' /\ Plan' /\ Settled' /\ Ready'
  BY DEF Renders, Plan, Settled, Ready
<1>2. Homeward'
  BY SameRequest DEF Tidy, Homeward, Adds
<1>3. Held'
  BY DEF Tidy, Held, dbVars
<1> QED BY <1>1, <1>2, <1>3 DEF Tidy

LEMMA FinishTidy == ASSUME Typed, Tidy, Finish PROVE Tidy'
<1>0. UNCHANGED <<branch, request>> /\ pc = "extract" /\ pc' = "idle"
  BY DEF Finish, gitVars
<1>1. Renders' /\ Plan' /\ Settled' /\ Ready' /\ Held'
  BY <1>0 DEF Renders, Plan, Settled, Ready, Held
<1>2. ASSUME NEW e \in Envs, Adds(e)
      PROVE  e \in Targets'
  <2>1. Home(e)
    BY <1>0, <1>2 DEF Tidy, Homeward
  <2>2. PICK s \in Services : <<e, s>> \in rows.services \ Leaving
    BY <2>1 DEF Home
  <2>3. <<e, s>> \in (rows').services
    BY <2>2 DEF Finish
  <2> QED BY <2>3 DEF Targets
<1>3. Homeward'
  BY <1>0, <1>2 DEF Homeward, Adds
<1> QED BY <1>1, <1>3 DEF Tidy

\* The other writers' steps: near(er) to main, and no new overlay.
LEMMA OthersTidy ==
  ASSUME Typed, Tidy, UNCHANGED <<dbVars, pc, work, claim, branch, pr>>, Near(main', main)
  PROVE  Tidy'
<1>1. Renders' /\ Held'
  BY DEF Tidy, Renders, Held, dbVars
<1>2. Homeward'
  BY SameRequest DEF Tidy, Homeward, Adds
<1>3. Plan'
  BY SameRequest, InPaths, KindOf DEF Tidy, Plan, Near, dbVars
<1>4. Settled'
  BY DEF Tidy, Settled, Near
<1>5. Ready'
  <2>1. request' = request
    BY DEF dbVars
  <2>2. pc = "merge" /\ pr /\ branch.there => Asks(branch.tree)
    BY DEF Tidy, Ready
  <2>3. pc = "report" /\ work.merged => ~pr /\ Asks(main')
    BY NearAsks DEF Tidy, Ready
  <2> QED BY <2>1, <2>2, <2>3, SameRequest DEF Ready, Asks
<1> QED BY <1>1, <1>2, <1>3, <1>4, <1>5 DEF Tidy

LEMMA BumpTidy ==
  ASSUME Typed, Tidy, NEW e \in Envs, NEW s \in Services, Bump(e, s)
  PROVE  Tidy'
<1>1. Near(main', main)
  <2>1. builds + 1 # NoFile
    BY GitOpsAssumption DEF Typed, TypeOK
  <2> QED BY <2>1, KindOf, InPaths DEF Bump, Near, Typed, TypeOK, IsTree
<1> QED BY <1>1, OthersTidy DEF Bump

\* What a merge adds to main has a service at home, or the branch of an earlier
\* request had when it was pushed.
LEMMA MergeAdds ==
  ASSUME Typed, ~Conflicts(branch), NEW e \in Envs,
         main[Kust(e)] = NoFile, Merged(branch)[Kust(e)] # NoFile
  PROVE  Adds(e)
  BY InPaths DEF Merged, Conflicts, Changed, Adds

LEMMA ReviewTidy == ASSUME Typed, Careful, Tidy, Review PROVE Tidy'
<1>0. /\ UNCHANGED <<dbVars, pc, work, claim>> /\ main' = Merged(branch) /\ ~Conflicts(branch)
      /\ pr /\ pr' = FALSE /\ branch.there /\ branch' \in {branch, NoBranch}
  BY DEF Review, SquashMerge
<1>1. Renders' /\ Held'
  BY <1>0 DEF Tidy, Renders, Held, dbVars
<1>2. Homeward'
  <2>1. ASSUME NEW e \in Envs, Adds(e)' PROVE Adds(e)
    BY <1>0, <2>1, InPaths DEF Adds, NoBranch, EmptyTree
  <2> QED BY <1>0, <2>1, SameRequest DEF Tidy, Homeward
<1>3. pc = "push" => main' = main
  <2>1. pc = "push" => branch.tree = branch.base
    BY <1>0 DEF Careful, Synced
  <2> QED BY <1>0, <2>1 DEF Merged, Changed, Typed, Shape
<1>4. Settled'
  BY <1>0, <1>3, NoBranchIs DEF Tidy, Settled, Near
<1>5. Ready'
  BY <1>0 DEF Tidy, Ready
<1>6. Plan'
  <2>1. CASE pc = "sync"
    <3>1. request' = request
      BY <1>0 DEF dbVars
    <3>2. CASE request.env # NoEnv
      BY <1>0, <2>1, <3>1, <3>2, SameRequest DEF Tidy, Plan
    <3>3. CASE request.env = NoEnv
      <4>1. ASSUME NEW e \in Envs, ~(e \in Emitted /\ EnvBases(e) # {})
            PROVE  /\ Kust(e) \notin DOMAIN work.files
                   /\ e \in Targets => Kust(e) \in work.deletes
                   /\ Kust(e) \in work.deletes \/ main'[Kust(e)] = NoFile
        <5>1. /\ Kust(e) \notin DOMAIN work.files
              /\ e \in Targets => Kust(e) \in work.deletes
              /\ Kust(e) \in work.deletes \/ main[Kust(e)] = NoFile
          BY <2>1, <3>3, <4>1 DEF Tidy, Plan
        <5>2. main[Kust(e)] = NoFile /\ main'[Kust(e)] # NoFile => e \in Targets
          BY <1>0, MergeAdds DEF Tidy, Homeward
        <5> QED BY <5>1, <5>2
      <4>2. ASSUME NEW e \in Envs, e \in Emitted /\ EnvBases(e) # {}
            PROVE  /\ Kust(e) \in DOMAIN work.files
                   /\ work.files[Kust(e)] # NoFile
                   /\ work.files[Kust(e)].services = EnvBases(e)
        BY <2>1, <3>3, <4>2 DEF Tidy, Plan
      <4> QED BY <1>0, <2>1, <3>1, <3>3, <4>1, <4>2, SameRequest DEF Plan
    <3> QED BY <3>2, <3>3
  <2>2. CASE pc = "push"
    <3>1. request' = request
      BY <1>0 DEF dbVars
    <3>2. (branch').there => branch' = branch
      BY <1>0, NoBranchIs
    <3> QED BY <1>0, <2>2, <3>1, <3>2, SameRequest DEF Tidy, Plan
  <2>3. CASE pc \notin {"sync", "push"}
    BY <1>0, <2>3 DEF Plan
  <2> QED BY <2>1, <2>2, <2>3
<1> QED BY <1>1, <1>2, <1>4, <1>5, <1>6 DEF Tidy

LEMMA CommitTidy == ASSUME Typed, Tidy, CommitClaim PROVE Tidy'
  BY ExtractTidy DEF CommitClaim, AfterCommit, Typed, Shape, Tidy, Held

LEMMA InitTidy == Init => Tidy
<1> SUFFICES ASSUME Init PROVE Tidy
  OBVIOUS
<1>1. Renders /\ Plan /\ Settled /\ Ready /\ Held
  BY DEF Init, Renders, Plan, Settled, Ready, Held
<1>2. Homeward
  BY InPaths DEF Init, Homeward, Adds, NoBranch, EmptyTree
<1> QED BY <1>1, <1>2 DEF Tidy

LEMMA NextTidy == Typed /\ Careful /\ Tidy /\ Homed /\ [Next]_vars => Tidy'
<1> SUFFICES ASSUME Typed, Careful, Tidy, Homed, [Next]_vars PROVE Tidy'
  OBVIOUS
<1>1. CASE UNCHANGED vars
  <2>1. /\ UNCHANGED <<dbVars, pc, work, claim, branch, pr>> /\ main' = main
    BY <1>1 DEF vars, gitVars
  <2> QED BY <2>1, OthersTidy, NearSelf
<1>2. CASE Scaffold
  BY <1>2, AsideTidy DEF Scaffold, gitVars
<1>3. CASE EnterExtract
  <2>1. (claim').todo \subseteq rows.claims
    BY <1>3, NoClaimIs, RowsTyped DEF EnterExtract, NoClaim
  <2> QED BY <1>3, <2>1, AsideTidy DEF EnterExtract, gitVars
<1>4. CASE \E c \in Claims : TakeClaim(c)
  <2>1. PICK c \in Claims : TakeClaim(c)
    BY <1>4
  <2>2. /\ (claim').todo \subseteq claim.todo /\ (claim').at = {c} /\ c \in rows.claims
        /\ pc = "extract" /\ pc' = "ref" /\ UNCHANGED <<dbVars, branch>>
    BY <2>1 DEF TakeClaim, Tidy, Held, Typed, Shape, gitVars
  <2> QED BY <2>2, ExtractTidy
<1>5. CASE ReadKustomization
  <2>1. /\ (claim').todo = claim.todo /\ (claim').at = claim.at
        /\ pc = "inject" /\ pc' = "ref" /\ UNCHANGED <<dbVars, branch>>
    BY <1>5 DEF ReadKustomization, Typed, Shape, gitVars
  <2> QED BY <2>1, ExtractTidy DEF Tidy, Held
<1>6. CASE ReadHead
  <2>1. /\ (claim').todo = claim.todo /\ (claim').at = claim.at
        /\ pc = "ref" /\ pc' \in {"inject", "extract", "commit"} /\ UNCHANGED <<dbVars, branch>>
    BY <1>6 DEF ReadHead, AfterCommit, Typed, Shape
  <2> QED BY <2>1, ExtractTidy DEF Tidy, Held
<1>7. CASE ClaimFails
  <2>1. /\ (claim').todo = claim.todo
        /\ pc \in {"ref", "inject"} /\ pc' = "extract" /\ UNCHANGED <<dbVars, branch>>
    BY <1>7 DEF ClaimFails, Typed, Shape, gitVars
  <2> QED BY <2>1, ExtractTidy
<1>8. CASE Fail
  BY <1>8, AsideTidy DEF Fail, gitVars
<1>9. CASE Restart
  <2>1. pc' = "begin" \/ (pc' = "extract" /\ pc \in {"ref", "inject", "commit"}
                                         /\ (claim').todo \subseteq rows.claims)
    BY <1>9, NoClaimIs, RowsTyped DEF Restart, NoClaim
  <2> QED BY <1>9, <2>1, AsideTidy DEF Restart, gitVars
<1>10. CASE Elsewhere
  BY <1>10, OthersTidy, NearSelf DEF Elsewhere
<1> QED
  BY <1>1, <1>2, <1>3, <1>4, <1>5, <1>6, <1>7, <1>8, <1>9, <1>10, SubmitTidy, BeginTidy, RenderTidy,
     SyncTidy, PushTidy, MergeTidy, CommitTidy, FinishTidy, BumpTidy, ReviewTidy
     DEF Next

LEMMA AlwaysTidy == Spec /\ []Homed => []Tidy
  BY AlwaysTyped, AlwaysCareful, InitTidy, NextTidy, PTL DEF Spec

\* Where updates leave no environment without a service that still has some
\* elsewhere: once a run reports its pull request merged, main holds what the
\* request asks for, whatever was open on the branch or merged by others.
THEOREM PublishesRows == Spec /\ []Homed => []Published
<1>1. Tidy => Published
  BY DEF Tidy, Ready, Asks, Published
<1> QED BY <1>1, AlwaysTidy, PTL

\* There, no step brings an overlay to an environment that has no rows.
THEOREM NothingReturns == Spec /\ []Homed => NoResurrection
<1>1. ASSUME Typed, Careful, Tidy, [Next]_vars
      PROVE  [\A e \in Envs : main[Kust(e)] = NoFile /\ main'[Kust(e)] # NoFile
                => e \in Targets \/ \E k \in Slugs : <<e, k>> \in rows.claims]_vars
  <2> SUFFICES ASSUME NEW e \in Envs, main[Kust(e)] = NoFile, main'[Kust(e)] # NoFile,
                      ~UNCHANGED vars
               PROVE  e \in Targets \/ \E k \in Slugs : <<e, k>> \in rows.claims
    OBVIOUS
  <2>1. CASE SquashMerge
    <3>1. Adds(e)
      BY <2>1, MergeAdds, <1>1 DEF SquashMerge
    <3> QED BY <3>1, <1>1 DEF Tidy, Homeward
  <2>2. CASE CommitClaim
    <3>1. /\ main' = Committed(main, ClaimFiles, {}) /\ pc = "commit"
      BY <1>1, <2>2 DEF CommitClaim, Careful, OnHead
    <3>2. Kust(e) \in DOMAIN ClaimFiles
      BY <3>1, InPaths DEF Committed
    <3>3. e = InHand[1]
      BY <1>1, <3>1, <3>2, ClaimFilesAre, KindOf
    <3>4. InHand \in rows.claims
      BY <1>1, <3>1, InHandTyped DEF Tidy, Held
    <3> QED BY <1>1, <3>1, <3>3, <3>4, InHandTyped
  <2>3. CASE \E d \in Envs, s \in Services : Bump(d, s)
    BY <2>3, KindOf DEF Bump
  <2> QED
    BY <1>1, <2>1, <2>2, <2>3
       DEF Next, Submit, Begin, Scaffold, Render, SyncBranch, PushTree, TryMerge, EnterExtract,
           TakeClaim, ReadKustomization, ReadHead, ClaimFails, Finish, Fail, Restart, Review,
           Elsewhere, dbVars, gitVars
<1> QED BY <1>1, AlwaysTyped, AlwaysCareful, AlwaysTidy, PTL DEF Spec, NoResurrection

-----------------------------------------------------------------------------
(* What the overlays list is there                                           *)

\* The claims that extract serves.
Served == IF request.env = NoEnv THEN rows.claims \ Released ELSE {}

Serving ==
    /\ pc \in {"extract", "ref", "inject", "commit"} => claim.todo \subseteq Served
    /\ pc \in {"ref", "inject", "commit"} => claim.at \subseteq Served

\* Each has an overlay.
Housed == pc # "idle" => \A c \in Served : c[1] \in Targets /\ EnvBases(c[1]) # {}

StaleThere == \A e \in stale : main[Kust(e)] # NoFile

\* Step 1 pushes what its kustomizations list, or has read it of main and does
\* not remove it; nor does it remove what extract will serve.
Listed ==
    pc \in {"sync", "push"} =>
      /\ \A e \in Envs : Kust(e) \in DOMAIN work.files =>
           /\ \A s \in work.files[Kust(e)].services :
                /\ Patch(e, s) \in DOMAIN work.files /\ work.files[Patch(e, s)] # NoFile
                /\ Folder(s) \in DOMAIN work.files /\ work.files[Folder(s)] # NoFile
           /\ \A k \in work.files[Kust(e)].resources :
                k \in Lines(work.seen[Kust(e)]).resources /\ Secret(e, k) \notin work.deletes
           /\ \A k \in work.files[Kust(e)].patches :
                k \in Lines(work.seen[Kust(e)]).patches /\ Inject(e, k) \notin work.deletes
      /\ \A e \in Envs, k \in Slugs :
           Secret(e, k) \notin DOMAIN work.files /\ Inject(e, k) \notin DOMAIN work.files
      /\ \A c \in Served :
           Secret(c[1], c[2]) \notin work.deletes /\ Inject(c[1], c[2]) \notin work.deletes
      /\ request.env # NoEnv => work.deletes = TeardownPaths

\* The branch takes a file of a claim away.
Takes(p) == branch.base[p] # NoFile /\ branch.tree[p] = NoFile

Spared ==
    pc \in {"merge", "report", "extract", "ref", "inject", "commit"} =>
      \A c \in Served : ~Takes(Secret(c[1], c[2])) /\ ~Takes(Inject(c[1], c[2]))

\* While the pull request is open, nobody comes between extract's read and its
\* commit.
Open == pr /\ branch.there
Fresh == Open /\ pc \in {"ref", "commit"} => claim.seen = Lines(main[Kust(InHand[1])])

\* The branch resolves, and main has only grown since: nowhere by what the
\* branch takes away.
TreeResolves == \A e \in Envs \ stale : Kust(e) \notin branch.behind => Resolves(branch.tree, e)
Grown ==
    /\ \A p \in Paths : branch.base[p] # NoFile => main[p] # NoFile
    /\ \A e \in Envs : Lines(main[Kust(e)]).services = Lines(branch.base[Kust(e)]).services
NotTaken ==
    \A e \in Envs, k \in Slugs :
      /\ Takes(Secret(e, k)) /\ k \in Lines(main[Kust(e)]).resources
           => k \in Lines(branch.base[Kust(e)]).resources
      /\ Takes(Inject(e, k)) /\ k \in Lines(main[Kust(e)]).patches
           => k \in Lines(branch.base[Kust(e)]).patches
Mergeable == Open => TreeResolves /\ Grown /\ NotTaken

OnMain == StaleThere /\ OverlaysResolve /\ Mergeable
InRun  == Serving /\ Housed /\ Listed /\ Spared /\ Fresh

LEMMA SameServed == ASSUME UNCHANGED dbVars PROVE Served' = Served
  BY DEF dbVars, Served, Released

LEMMA StayOnMain ==
  ASSUME OnMain, UNCHANGED <<main, branch, pr, stale>>
  PROVE  OnMain'
  BY DEF OnMain, StaleThere, OverlaysResolve, Resolves, Mergeable, Open, TreeResolves, Grown,
         NotTaken, Takes

\* Every step keeps OnMain and InRun.
LEMMA SubmitInRun == ASSUME Typed, NEW r \in Requests, Submit(r) PROVE InRun'
<1>1. Serving' /\ Listed' /\ Spared' /\ Fresh'
  BY DEF Submit, Serving, Listed, Spared, Fresh
<1>2. ASSUME NEW c \in Served'
      PROVE  c[1] \in Targets' /\ EnvBases(c[1])' # {}
  <2>1. /\ request' = r /\ r.env = NoEnv
        /\ (rows').services = rows.services \cup r.add /\ (rows').claims = rows.claims \cup r.claim
        /\ c \in (rows').claims /\ c \notin r.unclaim
    BY <1>2 DEF Submit, Served, Released
  <2>2. PICK x \in (rows.services \cup r.add) \ r.remove : x[1] = c[1]
    BY <2>1 DEF Submit
  <2>3. x \in (rows').services /\ x = <<x[1], x[2]>> /\ x[2] \in Services
    BY <2>1, <2>2, GitOpsAssumption DEF Request, Deployed, Typed, TypeOK
  <2>4. x[2] \in Kept'
    BY <2>1, <2>2, <2>3 DEF Kept, Bases, FullyRemoved
  <2> QED BY <2>1, <2>2, <2>3, <2>4 DEF Targets, EnvBases
<1>3. Housed'
  BY <1>2 DEF Housed
<1> QED BY <1>1, <1>3 DEF InRun

\* The steps of a run that leave the repository alone.
LEMMA AsideInRun ==
  ASSUME Typed, InRun, UNCHANGED <<dbVars, main, branch, pr>>,
         pc # "idle" \/ pc' = "idle",
         pc' \in {"idle", "begin", "scaffold", "render", "extract"},
         pc' = "extract" => /\ (claim').todo \subseteq Served
                            /\ pc \in {"merge", "report", "extract", "ref", "inject", "commit"}
  PROVE  InRun'
<1>1. Serving' /\ Listed' /\ Fresh'
  BY SameServed DEF Serving, Listed, Fresh
<1>2. Housed'
  BY SameServed, SameRequest DEF InRun, Housed
<1>3. Spared'
  BY SameServed DEF InRun, Spared, Takes
<1> QED BY <1>1, <1>2, <1>3 DEF InRun

LEMMA BeginInRun == ASSUME Typed, InRun, Begin PROVE InRun'
<1>0. /\ UNCHANGED <<dbVars, main, branch, pr>> /\ pc = "begin" /\ pc' \in {"sync", "scaffold"}
      /\ request' = request
  BY DEF Begin, gitVars, dbVars
<1>1. Serving' /\ Fresh' /\ Spared'
  BY <1>0 DEF Serving, Fresh, Spared
<1>2. Housed'
  BY <1>0, SameServed, SameRequest DEF InRun, Housed
<1>3. Listed'
  <2>1. CASE pc' = "scaffold"
    BY <2>1 DEF Listed
  <2>2. CASE pc' = "sync"
    <3>1. /\ DOMAIN (work').files = {}
          /\ request.env # NoEnv => (work').deletes = TeardownPaths
          /\ request.env = NoEnv => Kept = {}
      BY <2>2, NoFilesTyped DEF Begin
    <3>2. Served = {}
      <4>1. \A e : Kept = {} => EnvBases(e) = {}
        BY DEF EnvBases
      <4> QED BY <1>0, <3>1, <4>1 DEF InRun, Housed, Served
    <3> QED BY <1>0, <3>1, <3>2, SameServed, SameRequest DEF Listed
  <2> QED BY <1>0, <2>1, <2>2
<1> QED BY <1>1, <1>2, <1>3 DEF InRun

LEMMA RenderListed ==
  ASSUME Typed, NEW e \in Envs, Kust(e) \in RenderedPaths
  PROVE  /\ e \in Targets /\ EnvBases(e) # {}
         /\ \A s \in RenderedFiles[Kust(e)].services :
              /\ Patch(e, s) \in RenderedPaths /\ RenderedFiles[Patch(e, s)] # NoFile
              /\ Folder(s) \in RenderedPaths /\ RenderedFiles[Folder(s)] # NoFile
         /\ \A k \in RenderedFiles[Kust(e)].resources :
              k \in Lines(main[Kust(e)]).resources \ RemovedSlugs(e)
         /\ \A k \in RenderedFiles[Kust(e)].patches :
              k \in Lines(main[Kust(e)]).patches \ RemovedSlugs(e)
<1>1. e \in Emitted /\ EnvBases(e) # {}
  <2>1. ~\E s \in Kept : Kust(e) = Folder(s)
    BY KindOf
  <2>2. \A d \in Emitted : ~\E s \in EnvBases(d) : Kust(e) = Patch(d, s)
    BY KindOf
  <2>3. \A d \in Emitted : Kust(d) = Kust(e) => d = e
    BY KindOf
  <2> QED BY <2>1, <2>2, <2>3 DEF RenderedPaths
<1>2. e \in Targets
  BY <1>1, RenderedTargets
<1>3. RenderedFiles[Kust(e)] = Regenerated(e)
  BY KindOf DEF RenderedFiles
<1>4. ASSUME NEW s \in EnvBases(e)
      PROVE  /\ Patch(e, s) \in RenderedPaths /\ RenderedFiles[Patch(e, s)] # NoFile
             /\ Folder(s) \in RenderedPaths /\ RenderedFiles[Folder(s)] # NoFile
  <2>1. Patch(e, s) \in RenderedPaths /\ Folder(s) \in RenderedPaths
    BY <1>1, RowsTyped DEF RenderedPaths
  <2>2. RenderedFiles[Patch(e, s)] = CurrentTag(e, s)
    BY <2>1, KindOf DEF RenderedFiles
  <2>3. CurrentTag(e, s) # NoFile
    BY GitOpsAssumption DEF CurrentTag
  <2>4. RenderedFiles[Folder(s)] = "rendered"
    BY <2>1, KindOf DEF RenderedFiles
  <2> QED BY <2>1, <2>2, <2>3, <2>4, GitOpsAssumption
<1> QED BY <1>1, <1>2, <1>3, <1>4 DEF Regenerated

\* What of a claim's files Step 1 removes in an update: those of the claims
\* that are released, and those of overlays that go.
LEMMA RemovedOfClaims ==
  ASSUME Typed, NEW e \in Targets, EnvBases(e) # {}, NEW k \in Slugs, k \notin RemovedSlugs(e)
  PROVE  Secret(e, k) \notin RemovedPaths /\ Inject(e, k) \notin RemovedPaths
<1> SUFFICES ASSUME NEW p \in {Secret(e, k), Inject(e, k)} PROVE p \notin RemovedPaths
  OBVIOUS
<1>0. p[2] = e /\ p[3] = k /\ p[1] \in {"external-secret", "inject"}
  BY KindOf
<1>1. \A d : p \in Overlay(d) => d = e
  BY <1>0, KindOf DEF Overlay
<1>2. p \notin UNION {Overlay(d) : d \in {x \in Emitted : EnvBases(x) = {}}}
  BY <1>1
<1>3. p \notin UNION {Overlay(d) : d \in {x \in Envs \ Targets : main[Kust(x)] # NoFile}}
  BY <1>1
<1>4. p \notin {Patch(x[1], x[2]) : x \in request.remove}
  BY <1>0, KindOf
<1>5. \A c \in Claims : p \in {Inject(c[1], c[2]), Secret(c[1], c[2])} => c[1] = e /\ c[2] = k
  BY <1>0, KindOf
<1>6. p \notin UNION {{Inject(c[1], c[2]), Secret(c[1], c[2])} :
                    c \in {d \in Claims : d[2] \in RemovedSlugs(d[1])}}
  BY <1>5
<1>7. p \notin {Folder(s) : s \in FullyRemoved}
  BY <1>0, KindOf
<1> QED BY <1>2, <1>3, <1>4, <1>6, <1>7 DEF RemovedPaths

LEMMA RenderInRun == ASSUME Typed, InRun, Tidy, Render PROVE InRun'
<1>0. /\ UNCHANGED <<dbVars, main, branch, pr>> /\ pc = "render" /\ pc' = "sync"
      /\ request' = request /\ request.env = NoEnv
      /\ (work').files = RenderedFiles /\ (work').deletes = RemovedPaths /\ (work').seen = main
  BY DEF Render, Tidy, Renders, gitVars, dbVars
<1>1. Serving' /\ Fresh' /\ Spared'
  BY <1>0 DEF Serving, Fresh, Spared
<1>2. Housed'
  BY <1>0, SameServed, SameRequest DEF InRun, Housed
<1>3. ASSUME NEW e \in Envs, Kust(e) \in RenderedPaths
      PROVE  /\ \A s \in RenderedFiles[Kust(e)].services :
                  /\ Patch(e, s) \in RenderedPaths /\ RenderedFiles[Patch(e, s)] # NoFile
                  /\ Folder(s) \in RenderedPaths /\ RenderedFiles[Folder(s)] # NoFile
             /\ \A k \in RenderedFiles[Kust(e)].resources :
                  k \in Lines(main[Kust(e)]).resources /\ Secret(e, k) \notin RemovedPaths
             /\ \A k \in RenderedFiles[Kust(e)].patches :
                  k \in Lines(main[Kust(e)]).patches /\ Inject(e, k) \notin RemovedPaths
  <2>1. Lines(main[Kust(e)]) \in Kustomization
    BY LinesTyped DEF Typed, TypeOK
  <2>2. \A k \in Lines(main[Kust(e)]).resources \cup Lines(main[Kust(e)]).patches : k \in Slugs
    BY <2>1 DEF Kustomization
  <2> QED BY <1>3, <2>2, RenderListed, RemovedOfClaims
<1>4. \A e \in Envs, k \in Slugs :
        Secret(e, k) \notin RenderedPaths /\ Inject(e, k) \notin RenderedPaths
  BY KindOf DEF RenderedPaths
<1>5. ASSUME NEW c \in Served
      PROVE  Secret(c[1], c[2]) \notin RemovedPaths /\ Inject(c[1], c[2]) \notin RemovedPaths
  <2>1. c[1] \in Targets /\ EnvBases(c[1]) # {}
    BY <1>0 DEF InRun, Housed
  <2>2. c = <<c[1], c[2]>> /\ c[2] \in Slugs /\ c \notin request.unclaim
    BY <1>0, RowsTyped DEF Served, Released
  <2>3. c[2] \notin RemovedSlugs(c[1])
    BY <2>2 DEF RemovedSlugs
  <2> QED BY <2>1, <2>2, <2>3, RemovedOfClaims
<1>6. Listed'
  <2>1. DOMAIN RenderedFiles = RenderedPaths
    BY RenderTyped
  <2> HIDE DEF RenderedFiles, RenderedPaths, RemovedPaths
  <2> QED BY <1>0, <1>3, <1>4, <1>5, <2>1, SameServed DEF Listed
<1> QED BY <1>1, <1>2, <1>6 DEF InRun

LEMMA SyncInRun == ASSUME Typed, InRun, SyncBranch PROVE InRun'
<1>0. /\ UNCHANGED <<dbVars, main, pr, work, claim>> /\ pc = "sync" /\ pc' = "push"
      /\ request' = request
  BY DEF SyncBranch, dbVars
<1>1. Serving' /\ Fresh' /\ Spared'
  BY <1>0 DEF Serving, Fresh, Spared
<1>2. Housed'
  BY <1>0, SameServed, SameRequest DEF InRun, Housed
<1>3. Listed'
  BY <1>0, SameServed, SameRequest DEF InRun, Listed
<1> QED BY <1>1, <1>2, <1>3 DEF InRun

LEMMA SyncOnMain == ASSUME Typed, OnMain, SyncBranch PROVE OnMain'
<1>0. /\ UNCHANGED <<main, pr, stale>> /\ (branch').base = main /\ (branch').tree = main
  BY DEF SyncBranch
<1>1. StaleThere' /\ OverlaysResolve'
  BY <1>0 DEF OnMain, StaleThere, OverlaysResolve, Resolves
<1>2. TreeResolves'
  BY <1>0 DEF OnMain, OverlaysResolve, TreeResolves, Resolves
<1>3. Grown' /\ NotTaken'
  BY <1>0 DEF Grown, NotTaken, Takes
<1> QED BY <1>1, <1>2, <1>3 DEF OnMain, Mergeable

\* What a resolving overlay lists are paths.
LEMMA ListedPaths ==
  ASSUME NEW t, IsTree(t), NEW e \in Envs, t[Kust(e)] # NoFile
  PROVE  /\ \A s \in t[Kust(e)].services : s \in Services
         /\ \A k \in t[Kust(e)].resources \cup t[Kust(e)].patches : k \in Slugs
<1>1. t[Kust(e)] \in Kustomization
  BY InPaths, ContentKinds DEF IsTree
<1> QED BY <1>1 DEF Kustomization

LEMMA NearResolves ==
  ASSUME NEW t, IsTree(t), NEW u, Near(t, u), NEW e \in Envs, Resolves(u, e)
  PROVE  Resolves(t, e)
<1>1. t[Kust(e)] = u[Kust(e)]
  BY InPaths, KindOf DEF Near
<1>2. \A p \in Paths : u[p] # NoFile => t[p] # NoFile
  BY DEF Near
<1> QED BY <1>1, <1>2, ListedPaths, InPaths DEF Resolves

\* What was pushed resolves, where it was not rendered from contents that had
\* changed since.
LEMMA PushResolves ==
  ASSUME Typed, Careful, Tidy, InRun, OnMain, pc = "push", branch.there,
         NEW e \in Envs, e \notin stale, Kust(e) \notin branch.behind
  PROVE  Resolves(Committed(branch.tree, work.files, work.deletes), e)
<1> DEFINE tree == Committed(branch.tree, work.files, work.deletes)
<1>0. branch.tree = branch.base /\ IsTree(branch.base)
  BY DEF Careful, Synced, Typed, TypeOK
<1>1. Resolves(branch.base, e)
  <2>1. Near(main, branch.base)
    BY DEF Tidy, Settled
  <2>2. Near(branch.base, main)
    BY <2>1 DEF Near
  <2>3. Resolves(main, e)
    BY DEF OnMain, OverlaysResolve
  <2> QED BY <1>0, <2>2, <2>3, NearResolves
<1>2. \A p \in Paths : tree[p] = IF p \in work.deletes THEN NoFile
                                ELSE IF p \in DOMAIN work.files THEN work.files[p]
                                ELSE branch.base[p]
  BY <1>0 DEF Committed
<1>3. DOMAIN work.files \cap work.deletes = {}
  BY DEF Typed, TypeOK
<1> HIDE DEF tree
<1>4. SUFFICES ASSUME tree[Kust(e)] # NoFile PROVE Resolves(tree, e)
  BY DEF Resolves, tree
<1>5. CASE Kust(e) \in DOMAIN work.files
  <2>1. tree[Kust(e)] = work.files[Kust(e)]
    BY <1>2, <1>3, <1>5, InPaths
  <2>2. branch.base[Kust(e)] = work.seen[Kust(e)]
    BY <1>5 DEF Careful, Synced
  <2>3. /\ \A s \in work.files[Kust(e)].services :
             /\ Patch(e, s) \in DOMAIN work.files /\ work.files[Patch(e, s)] # NoFile
             /\ Folder(s) \in DOMAIN work.files /\ work.files[Folder(s)] # NoFile
        /\ \A k \in work.files[Kust(e)].resources :
             k \in Lines(branch.base[Kust(e)]).resources /\ Secret(e, k) \notin work.deletes
        /\ \A k \in work.files[Kust(e)].patches :
             k \in Lines(branch.base[Kust(e)]).patches /\ Inject(e, k) \notin work.deletes
    BY <1>5, <2>2 DEF InRun, Listed
  <2>4. \A s \in tree[Kust(e)].services : tree[Patch(e, s)] # NoFile /\ tree[Folder(s)] # NoFile
    <3>1. \A p \in DOMAIN work.files : tree[p] = work.files[p]
      BY <1>2, <1>3 DEF Typed, TypeOK
    <3> QED BY <2>1, <2>3, <3>1
  <2>5. \A k \in Slugs : /\ Secret(e, k) \notin work.deletes
                            => tree[Secret(e, k)] = branch.base[Secret(e, k)]
                         /\ Inject(e, k) \notin work.deletes
                            => tree[Inject(e, k)] = branch.base[Inject(e, k)]
    BY <1>2, InPaths DEF InRun, Listed
  <2>6. ASSUME NEW k, k \in Lines(branch.base[Kust(e)]).resources
        PROVE  k \in Slugs /\ branch.base[Secret(e, k)] # NoFile
    <3>1. branch.base[Kust(e)] # NoFile /\ k \in branch.base[Kust(e)].resources
      BY <2>6 DEF Lines, NoLines
    <3> QED BY <1>0, <1>1, <3>1, ListedPaths DEF Resolves
  <2>7. ASSUME NEW k, k \in Lines(branch.base[Kust(e)]).patches
        PROVE  k \in Slugs /\ branch.base[Inject(e, k)] # NoFile
    <3>1. branch.base[Kust(e)] # NoFile /\ k \in branch.base[Kust(e)].patches
      BY <2>7 DEF Lines, NoLines
    <3> QED BY <1>0, <1>1, <3>1, ListedPaths DEF Resolves
  <2> QED BY <2>1, <2>3, <2>4, <2>5, <2>6, <2>7 DEF Resolves
<1>6. CASE Kust(e) \notin DOMAIN work.files
  <2>1. tree[Kust(e)] = branch.base[Kust(e)] /\ Kust(e) \notin work.deletes
    BY <1>2, <1>4, <1>6, InPaths
  <2>2. request.env # NoEnv
    <3>1. ASSUME request.env = NoEnv PROVE FALSE
      <4>1. ~(e \in Emitted /\ EnvBases(e) # {})
        BY <1>6, <3>1 DEF Tidy, Plan
      <4>2. Kust(e) \in work.deletes \/ branch.base[Kust(e)] = NoFile
        BY <3>1, <4>1 DEF Tidy, Plan
      <4> QED BY <1>4, <2>1, <4>2
    <3> QED BY <3>1
  <2>3. DOMAIN work.files = {} /\ work.deletes = TeardownPaths
    BY <2>2 DEF Tidy, Plan, InRun, Listed
  <2>4. work.deletes = Overlay(request.env)
    BY <2>1, <2>3, InPaths DEF TeardownPaths
  <2>5. e # request.env
    BY <2>1, <2>4 DEF Overlay
  <2>6. /\ \A s : Patch(e, s) \notin work.deletes /\ Folder(s) \notin work.deletes
        /\ \A k : Secret(e, k) \notin work.deletes /\ Inject(e, k) \notin work.deletes
    BY <2>4, <2>5, KindOf DEF Overlay
  <2>7. \A p \in Paths \ work.deletes : tree[p] = branch.base[p]
    BY <1>2, <2>3
  <2>8. branch.base[Kust(e)] # NoFile
    BY <1>4, <2>1
  <2> QED BY <1>0, <1>1, <2>1, <2>6, <2>7, <2>8, ListedPaths, InPaths DEF Resolves
<1> QED BY <1>5, <1>6

LEMMA PushFacts ==
  ASSUME Typed, Careful, PushTree
  PROVE  /\ UNCHANGED <<dbVars, main, stale, claim>> /\ request' = request
         /\ pc = "push" /\ branch.there /\ pc' \in {"merge", "report"}
         /\ (branch').base = branch.base /\ (branch').behind = branch.behind
         /\ (branch').tree = Committed(branch.tree, work.files, work.deletes)
         /\ branch.tree = branch.base
  BY DEF PushTree, Typed, Shape, Careful, Synced, dbVars

LEMMA PushInRun == ASSUME Typed, Careful, Tidy, InRun, PushTree PROVE InRun'
<1>1. Serving' /\ Fresh' /\ Listed'
  BY PushFacts DEF Serving, Fresh, Listed
<1>2. Housed'
  BY PushFacts, SameServed, SameRequest DEF InRun, Housed
<1>3. ASSUME NEW c \in Served
      PROVE  ~Takes(Secret(c[1], c[2]))' /\ ~Takes(Inject(c[1], c[2]))'
  <2>1. c[1] \in Envs /\ c[2] \in Slugs
    BY RowsTyped DEF Served
  <2>2. ASSUME NEW p \in {Secret(c[1], c[2]), Inject(c[1], c[2])}
        PROVE  ~Takes(p)'
    <3>1. p \in Paths /\ p \notin work.deletes /\ p \notin DOMAIN work.files
      BY <2>1, PushFacts, InPaths DEF InRun, Listed
    <3> QED BY <3>1, PushFacts DEF Takes, Committed
  <2> QED BY <2>2 DEF Takes, Secret, Inject
<1>4. Spared'
  BY <1>3, PushFacts, SameServed DEF Spared
<1> QED BY <1>1, <1>2, <1>4 DEF InRun

LEMMA PushOnMain == ASSUME Typed, Careful, Tidy, InRun, OnMain, PushTree PROVE OnMain'
<1>1. StaleThere' /\ OverlaysResolve'
  BY PushFacts DEF OnMain, StaleThere, OverlaysResolve, Resolves
<1>2. Near(main, branch.base)
  BY PushFacts DEF Tidy, Settled
<1>3. TreeResolves'
  <2>1. ASSUME NEW e \in Envs \ stale, Kust(e) \notin branch.behind
        PROVE  Resolves((branch').tree, e)
    BY <2>1, PushFacts, PushResolves
  <2> QED BY <2>1, PushFacts DEF TreeResolves, Resolves
<1>4. \A e \in Envs : main[Kust(e)] = branch.base[Kust(e)]
  BY <1>2, InPaths, KindOf DEF Near
<1>5. Grown' /\ NotTaken'
  BY <1>2, <1>4, PushFacts DEF Grown, NotTaken, Near
<1> QED BY <1>1, <1>3, <1>5 DEF OnMain, Mergeable

\* A merge without conflict: what main then lists was on main or is on the
\* branch, and nothing of it was taken away.
LEMMA MergeResolves ==
  ASSUME Typed, OnMain, Open, ~Conflicts(branch), NEW e \in Envs, e \notin stale,
         Kust(e) \notin branch.behind
  PROVE  Resolves(Merged(branch), e)
<1> DEFINE M == Merged(branch)
<1>0. /\ \A p \in Paths : branch.tree[p] # branch.base[p] => M[p] = branch.tree[p]
      /\ \A p \in Paths : branch.tree[p] = branch.base[p] => M[p] = main[p]
  BY DEF Merged, Changed
<1> HIDE DEF M
<1>1. Resolves(branch.tree, e) /\ Resolves(main, e)
  BY DEF OnMain, OverlaysResolve, Mergeable, TreeResolves
<1>2. IsTree(branch.tree) /\ IsTree(main) /\ Kust(e) \in Paths
  BY InPaths DEF Typed, TypeOK
<1>3. \A p \in Paths : branch.base[p] # NoFile => main[p] # NoFile
  BY DEF OnMain, Mergeable, Grown
<1>4. \A p \in Paths : branch.tree[p] # NoFile => M[p] # NoFile
  BY <1>0, <1>3
<1>5. SUFFICES ASSUME M[Kust(e)] # NoFile PROVE Resolves(M, e)
  BY DEF Resolves, M
<1>6. CASE branch.tree[Kust(e)] # branch.base[Kust(e)]
  <2>1. M[Kust(e)] = branch.tree[Kust(e)]
    BY <1>0, <1>2, <1>6
  <2> QED BY <1>1, <1>2, <1>4, <1>5, <2>1, ListedPaths, InPaths DEF Resolves
<1>7. CASE branch.tree[Kust(e)] = branch.base[Kust(e)]
  <2>1. M[Kust(e)] = main[Kust(e)]
    BY <1>0, <1>2, <1>7
  <2>2. main[Kust(e)].services = Lines(branch.tree[Kust(e)]).services
    BY <1>5, <1>7, <2>1 DEF OnMain, Mergeable, Grown, Lines
  <2>3. ASSUME NEW s \in main[Kust(e)].services
        PROVE  M[Patch(e, s)] # NoFile /\ M[Folder(s)] # NoFile
    <3>1. branch.tree[Kust(e)] # NoFile /\ s \in branch.tree[Kust(e)].services
      BY <2>2, <2>3 DEF Lines, NoLines
    <3> QED BY <1>1, <1>2, <1>4, <3>1, ListedPaths, InPaths DEF Resolves
  <2>4. ASSUME NEW k \in main[Kust(e)].resources
        PROVE  M[Secret(e, k)] # NoFile
    <3>1. k \in Slugs /\ Secret(e, k) \in Paths /\ main[Secret(e, k)] # NoFile
      BY <1>1, <1>2, <1>5, <2>1, <2>4, ListedPaths, InPaths DEF Resolves
    <3>2. ASSUME Takes(Secret(e, k)) PROVE FALSE
      <4>1. k \in Lines(branch.base[Kust(e)]).resources
        BY <1>5, <2>1, <2>4, <3>1, <3>2 DEF OnMain, Mergeable, NotTaken, Lines
      <4>2. branch.tree[Kust(e)] # NoFile /\ k \in branch.tree[Kust(e)].resources
        BY <1>7, <4>1 DEF Lines, NoLines
      <4>3. branch.tree[Secret(e, k)] # NoFile
        BY <1>1, <4>2 DEF Resolves
      <4> QED BY <3>2, <4>3 DEF Takes
    <3> QED BY <1>0, <3>1, <3>2 DEF Takes
  <2>5. ASSUME NEW k \in main[Kust(e)].patches
        PROVE  M[Inject(e, k)] # NoFile
    <3>1. k \in Slugs /\ Inject(e, k) \in Paths /\ main[Inject(e, k)] # NoFile
      BY <1>1, <1>2, <1>5, <2>1, <2>5, ListedPaths, InPaths DEF Resolves
    <3>2. ASSUME Takes(Inject(e, k)) PROVE FALSE
      <4>1. k \in Lines(branch.base[Kust(e)]).patches
        BY <1>5, <2>1, <2>5, <3>1, <3>2 DEF OnMain, Mergeable, NotTaken, Lines
      <4>2. branch.tree[Kust(e)] # NoFile /\ k \in branch.tree[Kust(e)].patches
        BY <1>7, <4>1 DEF Lines, NoLines
      <4>3. branch.tree[Inject(e, k)] # NoFile
        BY <1>1, <4>2 DEF Resolves
      <4> QED BY <3>2, <4>3 DEF Takes
    <3> QED BY <1>0, <3>1, <3>2 DEF Takes
  <2> QED BY <1>5, <2>1, <2>3, <2>4, <2>5 DEF Resolves
<1> QED BY <1>6, <1>7

LEMMA SquashOnMain == ASSUME Typed, OnMain, SquashMerge PROVE OnMain'
<1>1. StaleThere'
  BY DEF SquashMerge, StaleThere
<1>2. OverlaysResolve'
  <2> SUFFICES ASSUME NEW e \in Envs \ stale' PROVE Resolves(main', e)
    BY DEF OverlaysResolve, Resolves
  <2>1. CASE main'[Kust(e)] = NoFile
    BY <2>1 DEF Resolves
  <2>2. CASE main'[Kust(e)] # NoFile
    <3>1. e \notin stale /\ Kust(e) \notin branch.behind
      BY <2>2 DEF SquashMerge
    <3>2. Open /\ ~Conflicts(branch) /\ main' = Merged(branch)
      BY DEF SquashMerge, Open
    <3> QED BY <3>1, <3>2, MergeResolves
  <2> QED BY <2>1, <2>2
<1>3. Mergeable'
  BY DEF SquashMerge, Mergeable, Open
<1> QED BY <1>1, <1>2, <1>3 DEF OnMain

LEMMA MergeInRun == ASSUME Typed, InRun, TryMerge PROVE InRun'
<1>0. /\ UNCHANGED <<dbVars, branch, claim>> /\ pc = "merge" /\ pc' = "report"
  BY DEF TryMerge
<1>1. Serving' /\ Fresh' /\ Listed'
  BY <1>0 DEF Serving, Fresh, Listed
<1>2. Housed' /\ Spared'
  BY <1>0, SameServed, SameRequest DEF InRun, Housed, Spared, Takes
<1> QED BY <1>1, <1>2 DEF InRun

LEMMA MergeOnMain == ASSUME Typed, OnMain, TryMerge PROVE OnMain'
  BY SquashOnMain, StayOnMain DEF TryMerge

LEMMA ReviewInRun == ASSUME Typed, InRun, Review PROVE InRun'
<1>0. /\ UNCHANGED <<dbVars, pc, work, claim>> /\ pr' = FALSE /\ branch' \in {branch, NoBranch}
      /\ request' = request
  BY DEF Review, SquashMerge, dbVars
<1>1. Serving' /\ Housed' /\ Listed' /\ Fresh'
  BY <1>0, SameServed, SameRequest DEF InRun, Serving, Housed, Listed, Fresh, Open
<1>2. Spared'
  <2>1. ASSUME NEW p \in Paths, ~Takes(p) PROVE ~Takes(p)'
    BY <1>0, <2>1 DEF Takes, NoBranch, EmptyTree
  <2>2. \A c \in Served : Secret(c[1], c[2]) \in Paths /\ Inject(c[1], c[2]) \in Paths
    BY RowsTyped, InPaths DEF Served
  <2> QED BY <1>0, <2>1, <2>2, SameServed DEF InRun, Spared
<1> QED BY <1>1, <1>2 DEF InRun

\* The steps of extract that leave the repository alone.
LEMMA ExtractInRun ==
  ASSUME Typed, InRun, UNCHANGED <<dbVars, main, branch, pr>>,
         pc \in {"extract", "ref", "inject", "commit"},
         pc' \in {"extract", "ref", "inject", "commit"},
         (claim').todo \subseteq claim.todo,
         pc' # "extract" => (claim').at \subseteq Served,
         pc' \in {"ref", "commit"} /\ Open => (claim').seen = Lines(main[Kust(InHand[1])])',
         Served' = Served
  PROVE  InRun'
<1>1. Serving' /\ Listed'
  BY DEF InRun, Serving, Listed
<1>2. Housed' /\ Spared'
  BY SameRequest DEF InRun, Housed, Spared, Takes
<1>3. Fresh'
  BY DEF Fresh, Open
<1> QED BY <1>1, <1>2, <1>3 DEF InRun

LEMMA TakeInRun == ASSUME Typed, InRun, NEW c \in Claims, TakeClaim(c) PROVE InRun'
<1>0. /\ UNCHANGED <<dbVars, main, branch, pr>> /\ pc = "extract" /\ pc' = "ref"
      /\ (claim').todo \subseteq claim.todo /\ (claim').at = {c} /\ c \in claim.todo
      /\ (claim').seen = Lines(main[Kust(c[1])])
  BY DEF TakeClaim, Typed, Shape, gitVars
<1>1. InHand' = c
  BY <1>0 DEF InHand
<1>2. c \in Served
  BY <1>0 DEF InRun, Serving
<1> QED BY <1>0, <1>1, <1>2, SameServed, ExtractInRun

LEMMA ReadKustInRun == ASSUME Typed, InRun, ReadKustomization PROVE InRun'
<1>0. /\ UNCHANGED <<dbVars, main, branch, pr>> /\ pc = "inject" /\ pc' = "ref"
      /\ (claim').todo = claim.todo /\ (claim').at = claim.at
      /\ (claim').seen = Lines(main[Kust(InHand[1])])
  BY DEF ReadKustomization, Typed, Shape, gitVars
<1>1. InHand' = InHand
  BY <1>0 DEF InHand
<1> QED BY <1>0, <1>1, SameServed, ExtractInRun DEF InRun, Serving

LEMMA ReadHeadInRun == ASSUME Typed, InRun, ReadHead PROVE InRun'
<1>0. /\ UNCHANGED <<dbVars, main, branch, pr>> /\ pc = "ref"
      /\ pc' \in {"inject", "extract", "commit"}
      /\ (claim').todo = claim.todo /\ (claim').at = claim.at /\ (claim').seen = claim.seen
  BY DEF ReadHead, AfterCommit, Typed, Shape
<1>1. InHand' = InHand
  BY <1>0 DEF InHand
<1> QED BY <1>0, <1>1, SameServed, ExtractInRun DEF InRun, Serving, Fresh

\* What extract commits, file by file.
LEMMA ClaimFilesHold ==
  ASSUME Typed, pc \in {"ref", "inject", "commit"}
  PROVE  LET e == InHand[1]
             k == InHand[2]
         IN  /\ \A p \in DOMAIN ClaimFiles : ClaimFiles[p] # NoFile
             /\ (IF claim.kind = "secret" THEN Secret(e, k) ELSE Inject(e, k)) \in DOMAIN ClaimFiles
             /\ Kust(e) \in DOMAIN ClaimFiles =>
                  /\ ClaimFiles[Kust(e)].services = claim.seen.services
                  /\ ClaimFiles[Kust(e)].resources \subseteq
                       claim.seen.resources \cup (IF claim.kind = "secret" THEN {k} ELSE {})
                  /\ ClaimFiles[Kust(e)].patches \subseteq
                       claim.seen.patches \cup (IF claim.kind = "secret" THEN {} ELSE {k})
<1> DEFINE e == InHand[1]
           k == InHand[2]
           file == IF claim.kind = "secret" THEN Secret(e, k) ELSE Inject(e, k)
           lines == IF claim.kind = "secret"
                      THEN [claim.seen EXCEPT !.resources = @ \cup {k}]
                      ELSE [claim.seen EXCEPT !.patches = @ \cup {k}]
<1>1. file # Kust(e)
  BY KindOf
<1>2. /\ lines.services = claim.seen.services
      /\ lines.resources \subseteq
           claim.seen.resources \cup (IF claim.kind = "secret" THEN {k} ELSE {})
      /\ lines.patches \subseteq
           claim.seen.patches \cup (IF claim.kind = "secret" THEN {} ELSE {k})
      /\ lines \in Kustomization
  BY InHandTyped DEF Typed, TypeOK, Kustomization
<1>3. lines # NoFile /\ "rendered" # NoFile
  BY <1>2, GitOpsAssumption DEF Kustomization
<1> HIDE DEF file, lines, e, k
<1>4. ClaimFiles = IF lines = claim.seen THEN [p \in {file} |-> "rendered"]
        ELSE [p \in {file, Kust(e)} |-> IF p = file THEN "rendered" ELSE lines]
  BY DEF ClaimFiles, file, lines, e, k
<1>5. /\ \A p \in DOMAIN ClaimFiles : ClaimFiles[p] # NoFile
      /\ file \in DOMAIN ClaimFiles
      /\ Kust(e) \in DOMAIN ClaimFiles => ClaimFiles[Kust(e)] = lines
  BY <1>1, <1>3, <1>4
<1> QED BY <1>2, <1>5 DEF e, k, file

LEMMA CommitInRun == ASSUME Typed, InRun, CommitClaim PROVE InRun'
<1>0. /\ UNCHANGED <<dbVars, branch, pr>> /\ pc = "commit" /\ pc' \in {"inject", "extract"}
      /\ (claim').todo = claim.todo /\ (claim').at = claim.at
  BY DEF CommitClaim, AfterCommit, Typed, Shape
<1>1. Serving' /\ Listed' /\ Fresh'
  BY <1>0, SameServed DEF InRun, Serving, Listed, Fresh
<1>2. Housed' /\ Spared'
  BY <1>0, SameServed, SameRequest DEF InRun, Housed, Spared, Takes
<1> QED BY <1>1, <1>2 DEF InRun

LEMMA CommitOnMain == ASSUME Typed, Careful, InRun, OnMain, CommitClaim PROVE OnMain'
<1> DEFINE d == InHand[1]
           c == InHand[2]
<1>0. /\ UNCHANGED <<dbVars, branch, pr>> /\ pc = "commit"
  BY DEF CommitClaim
<1>1. CASE moved
  BY <1>0, <1>1, StayOnMain DEF CommitClaim
<1>2. CASE ~moved
  <2>0. /\ main' = Committed(main, ClaimFiles, {})
        /\ stale' = stale \cup {e \in Envs : /\ Kust(e) \in DOMAIN ClaimFiles
                                            /\ Lines(main[Kust(e)]) # claim.seen}
    BY <1>0, <1>2 DEF CommitClaim, Careful, OnHead
  <2>1. d \in Envs /\ c \in Slugs /\ InHand = <<d, c>> /\ InHand \in Served
    BY <1>0, InHandTyped DEF InRun, Serving
  <2>2. /\ \A p \in Paths : p \in DOMAIN ClaimFiles => main'[p] = ClaimFiles[p] /\ main'[p] # NoFile
        /\ \A p \in Paths : p \notin DOMAIN ClaimFiles => main'[p] = main[p]
    BY <1>0, <2>0, ClaimFilesHold DEF Committed
  <2>3. /\ (IF claim.kind = "secret" THEN Secret(d, c) ELSE Inject(d, c)) \in DOMAIN ClaimFiles
        /\ Kust(d) \in DOMAIN ClaimFiles =>
             /\ main'[Kust(d)].services = claim.seen.services
             /\ main'[Kust(d)].resources \subseteq
                  claim.seen.resources \cup (IF claim.kind = "secret" THEN {c} ELSE {})
             /\ main'[Kust(d)].patches \subseteq
                  claim.seen.patches \cup (IF claim.kind = "secret" THEN {} ELSE {c})
    BY <1>0, <2>1, <2>2, ClaimFilesHold, InPaths
  <2>4. \A e \in Envs : e # d \/ Kust(d) \notin DOMAIN ClaimFiles => main'[Kust(e)] = main[Kust(e)]
    <3>1. \A e \in Envs : e # d => Kust(e) \notin DOMAIN ClaimFiles
      BY <1>0, ClaimFilesAre, KindOf
    <3> QED BY <2>2, <3>1, InPaths
  <2>5. \A p \in Paths : main[p] # NoFile => main'[p] # NoFile
    BY <2>2
  <2>6. main'[IF claim.kind = "secret" THEN Secret(d, c) ELSE Inject(d, c)] # NoFile
    BY <2>1, <2>2, <2>3, InPaths
  <2> HIDE DEF d, c
  <2>7. StaleThere'
    BY <2>0, <2>2, <2>5, InPaths DEF OnMain, StaleThere, Typed, TypeOK
  <2>8. OverlaysResolve'
    <3> SUFFICES ASSUME NEW e \in Envs \ stale' PROVE Resolves(main', e)
      BY DEF OverlaysResolve, Resolves
    <3>1. e \notin stale /\ Resolves(main, e)
      BY <2>0 DEF OnMain, OverlaysResolve
    <3>2. IsTree(main)
      BY DEF Typed, TypeOK
    <3>3. CASE e # d \/ Kust(d) \notin DOMAIN ClaimFiles
      BY <2>4, <2>5, <3>1, <3>2, <3>3, ListedPaths, InPaths DEF Resolves
    <3>4. CASE e = d /\ Kust(d) \in DOMAIN ClaimFiles
      <4>1. claim.seen = Lines(main[Kust(e)])
        BY <2>0, <3>4
      <4>2. ASSUME NEW s \in main'[Kust(e)].services
            PROVE  main'[Patch(e, s)] # NoFile /\ main'[Folder(s)] # NoFile
        <5>1. main[Kust(e)] # NoFile /\ s \in main[Kust(e)].services
          BY <2>3, <3>4, <4>1, <4>2 DEF Lines, NoLines
        <5> QED BY <2>5, <3>1, <3>2, <5>1, ListedPaths, InPaths DEF Resolves
      <4>3. ASSUME NEW k \in main'[Kust(e)].resources
            PROVE  main'[Secret(e, k)] # NoFile
        <5>1. CASE k \in claim.seen.resources
          <6>1. main[Kust(e)] # NoFile /\ k \in main[Kust(e)].resources
            BY <4>1, <5>1 DEF Lines, NoLines
          <6> QED BY <2>5, <3>1, <3>2, <6>1, ListedPaths, InPaths DEF Resolves
        <5>2. CASE k \notin claim.seen.resources
          BY <2>3, <2>6, <3>4, <4>3, <5>2
        <5> QED BY <5>1, <5>2
      <4>4. ASSUME NEW k \in main'[Kust(e)].patches
            PROVE  main'[Inject(e, k)] # NoFile
        <5>1. CASE k \in claim.seen.patches
          <6>1. main[Kust(e)] # NoFile /\ k \in main[Kust(e)].patches
            BY <4>1, <5>1 DEF Lines, NoLines
          <6> QED BY <2>5, <3>1, <3>2, <6>1, ListedPaths, InPaths DEF Resolves
        <5>2. CASE k \notin claim.seen.patches
          BY <2>3, <2>6, <3>4, <4>4, <5>2
        <5> QED BY <5>1, <5>2
      <4> QED BY <4>2, <4>3, <4>4 DEF Resolves
    <3> QED BY <3>3, <3>4
  <2>9. Mergeable'
    <3> SUFFICES ASSUME Open PROVE TreeResolves' /\ Grown' /\ NotTaken'
      BY <1>0 DEF Mergeable, Open
    <3>0. TreeResolves /\ Grown /\ NotTaken /\ claim.seen = Lines(main[Kust(d)])
      BY <1>0 DEF OnMain, Mergeable, InRun, Fresh, d
    <3>1. TreeResolves'
      BY <1>0, <2>0, <3>0 DEF TreeResolves, Resolves
    <3>2. ASSUME NEW e \in Envs
          PROVE  /\ Lines(main'[Kust(e)]).services = Lines(main[Kust(e)]).services
                 /\ \A k \in Lines(main'[Kust(e)]).resources :
                      k \in Lines(main[Kust(e)]).resources \/ <<e, k>> = InHand
                 /\ \A k \in Lines(main'[Kust(e)]).patches :
                      k \in Lines(main[Kust(e)]).patches \/ <<e, k>> = InHand
      <4>1. CASE e # d \/ Kust(d) \notin DOMAIN ClaimFiles
        BY <2>4, <4>1
      <4>2. CASE e = d /\ Kust(d) \in DOMAIN ClaimFiles
        <5>1. Lines(main'[Kust(e)]) = main'[Kust(e)]
          BY <2>1, <2>2, <4>2, InPaths DEF Lines
        <5> QED BY <2>1, <2>3, <3>0, <4>2, <5>1
      <4> QED BY <4>1, <4>2
    <3>3. Grown'
      BY <1>0, <2>5, <3>0, <3>2 DEF Grown
    <3>4. ~Takes(Secret(d, c)) /\ ~Takes(Inject(d, c))
      BY <1>0, <2>1 DEF InRun, Spared, d, c
    <3>5. NotTaken'
      <4> SUFFICES ASSUME NEW e \in Envs, NEW k \in Slugs
                   PROVE  /\ Takes(Secret(e, k)) /\ k \in Lines(main'[Kust(e)]).resources
                               => k \in Lines(branch.base[Kust(e)]).resources
                          /\ Takes(Inject(e, k)) /\ k \in Lines(main'[Kust(e)]).patches
                               => k \in Lines(branch.base[Kust(e)]).patches
        BY <1>0 DEF NotTaken, Takes
      <4>1. CASE <<e, k>> = InHand
        BY <2>1, <3>4, <4>1
      <4>2. CASE <<e, k>> # InHand
        BY <3>0, <3>2, <4>2 DEF NotTaken
      <4> QED BY <4>1, <4>2
    <3> QED BY <3>1, <3>3, <3>5
  <2> QED BY <2>7, <2>8, <2>9 DEF OnMain
<1> QED BY <1>1, <1>2

LEMMA OthersInRun ==
  ASSUME Typed, InRun, UNCHANGED <<dbVars, pc, work, claim, branch, pr>>,
         \A e \in Envs : main'[Kust(e)] = main[Kust(e)]
  PROVE  InRun'
<1>0. request' = request /\ InHand' = InHand
  BY DEF dbVars, InHand
<1>1. Serving' /\ Housed' /\ Listed' /\ Spared'
  BY <1>0, SameServed, SameRequest DEF InRun, Serving, Housed, Listed, Spared, Takes
<1>2. Fresh'
  BY <1>0, InHandTyped DEF InRun, Fresh, Open
<1> QED BY <1>1, <1>2 DEF InRun

LEMMA BumpResolves ==
  ASSUME Typed, InRun, OnMain, NEW e \in Envs, NEW s \in Services, Bump(e, s)
  PROVE  InRun' /\ OnMain'
<1>0. /\ UNCHANGED <<dbVars, pc, work, claim, branch, pr, stale>>
      /\ main' = [main EXCEPT ![Patch(e, s)] = builds + 1] /\ builds + 1 # NoFile
      /\ DOMAIN main = Paths
  BY GitOpsAssumption DEF Bump, Typed, TypeOK, IsTree
<1>1. /\ \A d \in Envs : main'[Kust(d)] = main[Kust(d)]
      /\ \A p \in Paths : main[p] # NoFile => main'[p] # NoFile
  BY <1>0, KindOf, InPaths
<1>2. InRun'
  BY <1>0, <1>1, OthersInRun
<1>3. StaleThere'
  BY <1>0, <1>1 DEF OnMain, StaleThere, Typed, TypeOK
<1>4. OverlaysResolve'
  <2>1. ASSUME NEW d \in Envs \ stale PROVE Resolves(main', d)
    <3>1. Resolves(main, d) /\ IsTree(main)
      BY DEF OnMain, OverlaysResolve, Typed, TypeOK
    <3> QED BY <1>1, <3>1, ListedPaths, InPaths DEF Resolves
  <2> QED BY <1>0, <2>1 DEF OverlaysResolve, Resolves
<1>5. Mergeable'
  BY <1>0, <1>1 DEF OnMain, Mergeable, Open, TreeResolves, Grown, NotTaken, Takes, Resolves
<1> QED BY <1>2, <1>3, <1>4, <1>5 DEF OnMain

LEMMA FinishInRun == ASSUME Typed, InRun, Finish PROVE InRun'
  BY DEF Finish, InRun, Serving, Housed, Listed, Spared, Fresh

LEMMA InitResolves == Init => InRun /\ OnMain
<1> SUFFICES ASSUME Init PROVE InRun /\ OnMain
  OBVIOUS
<1>1. InRun
  BY DEF Init, InRun, Serving, Housed, Listed, Spared, Fresh
<1>2. OnMain
  BY InPaths DEF Init, OnMain, StaleThere, OverlaysResolve, Resolves, Mergeable, Open, EmptyTree
<1> QED BY <1>1, <1>2

LEMMA NextResolves ==
  Typed /\ Careful /\ Tidy /\ InRun /\ OnMain /\ [Next]_vars => InRun' /\ OnMain'
<1> SUFFICES ASSUME Typed, Careful, Tidy, InRun, OnMain, [Next]_vars PROVE InRun' /\ OnMain'
  OBVIOUS
<1>1. CASE UNCHANGED vars
  <2>1. UNCHANGED <<dbVars, pc, work, claim, main, branch, pr, stale>>
    BY <1>1 DEF vars, gitVars
  <2> QED BY <2>1, OthersInRun, StayOnMain
<1>2. CASE \E r \in Requests : Submit(r)
  BY <1>2, SubmitInRun, StayOnMain DEF Submit, gitVars
<1>3. CASE Begin
  BY <1>3, BeginInRun, StayOnMain DEF Begin, gitVars
<1>4. CASE Scaffold
  BY <1>4, AsideInRun, StayOnMain DEF Scaffold, gitVars
<1>5. CASE Render
  BY <1>5, RenderInRun, StayOnMain DEF Render, gitVars
<1>6. CASE EnterExtract
  <2>1. (claim').todo = Served
    BY <1>6 DEF EnterExtract, NoClaim, Served
  <2> QED BY <1>6, <2>1, AsideInRun, StayOnMain DEF EnterExtract, gitVars
<1>7. CASE \E c \in Claims : TakeClaim(c)
  BY <1>7, TakeInRun, StayOnMain DEF TakeClaim, gitVars
<1>8. CASE ReadKustomization
  BY <1>8, ReadKustInRun, StayOnMain DEF ReadKustomization, gitVars
<1>9. CASE ReadHead
  BY <1>9, ReadHeadInRun, StayOnMain DEF ReadHead
<1>10. CASE ClaimFails
  <2>1. /\ (claim').todo = claim.todo /\ UNCHANGED <<dbVars, main, branch, pr, stale>>
        /\ pc \in {"ref", "inject"} /\ pc' = "extract"
    BY <1>10 DEF ClaimFails, Typed, Shape, gitVars
  <2>2. (claim').todo \subseteq Served
    BY <2>1 DEF InRun, Serving
  <2> QED BY <2>1, <2>2, AsideInRun, StayOnMain
<1>11. CASE Finish
  BY <1>11, FinishInRun, StayOnMain DEF Finish, gitVars
<1>12. CASE Fail
  BY <1>12, AsideInRun, StayOnMain DEF Fail, gitVars
<1>13. CASE Restart
  <2>1. UNCHANGED <<dbVars, main, branch, pr, stale>> /\ pc # "idle"
    BY <1>13 DEF Restart, InStep1, gitVars
  <2>2. CASE pc' = "begin"
    BY <2>1, <2>2, AsideInRun, StayOnMain
  <2>3. CASE pc' = "extract" /\ pc \in {"ref", "inject", "commit"}
                             /\ (claim').todo = rows.claims \ Released
    <3>1. request.env = NoEnv
      <4>1. InHand \in Served
        BY <2>3, InHandTyped DEF InRun, Serving
      <4> QED BY <4>1 DEF Served
    <3>2. (claim').todo = Served
      BY <2>3, <3>1 DEF Served
    <3> QED BY <2>1, <2>3, <3>2, AsideInRun, StayOnMain
  <2> QED BY <1>13, <2>2, <2>3 DEF Restart, NoClaim
<1>14. CASE Review
  BY <1>14, ReviewInRun, SquashOnMain DEF Review
<1>15. CASE Elsewhere
  BY <1>15, OthersInRun, StayOnMain DEF Elsewhere
<1> QED
  BY <1>1, <1>2, <1>3, <1>4, <1>5, <1>6, <1>7, <1>8, <1>9, <1>10, <1>11, <1>12, <1>13, <1>14, <1>15,
     SyncInRun, SyncOnMain, PushInRun, PushOnMain, MergeInRun, MergeOnMain, CommitInRun,
     CommitOnMain, BumpResolves
     DEF Next

\* Under the same assumption on updates: what an overlay on main lists is there,
\* whatever Step 1, extract, CI and a late reviewer each took away or added,
\* except where a worker wrote the overlay from contents another had changed.
THEOREM OverlaysBuild == Spec /\ []Homed => []OverlaysResolve
<1>1. OnMain => OverlaysResolve
  BY DEF OnMain
<1> QED
  BY <1>1, AlwaysTyped, AlwaysCareful, AlwaysTidy, InitResolves, NextResolves, PTL DEF Spec
=============================================================================
