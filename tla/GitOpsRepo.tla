----------------------------- MODULE GitOpsRepo -----------------------------
(***************************************************************************)
(* The folder argocd/apps/<app>/ of the platform repository, which ArgoCD  *)
(* deploys from main, and everybody who writes to it.                      *)
(*                                                                         *)
(* Step 1 renders the folder anew for every request, from the rows and     *)
(* from what it reads of main, pushes it to the application's long-lived   *)
(* branch and merges that by a pull request.  Step 2's extract commits the *)
(* secrets it mirrored straight to main.  The services' CI puts image tags *)
(* on main, a reviewer merges a pull request that GitHub would not merge   *)
(* for Step 1, and other applications commit next door.                    *)
(*                                                                         *)
(* No writer locks anything.  A commit to main is refused when main moved  *)
(* since its parent was read, but the CONTENTS a worker commits were read  *)
(* by an earlier call.                                                     *)
(*                                                                         *)
(* One execution per application is under way at a time (RequestLifecycle).*)
(* Which rows an update may change is DesiredState's concern; here they    *)
(* come from the set Requests.                                             *)
(***************************************************************************)
EXTENDS Naturals, FiniteSets

CONSTANTS
    Envs,         \* GITOPS_ENVIRONMENTS
    Services,     \* base service names
    Slugs,        \* claim slugs
    Requests,     \* what callers ask for
    MaxRequests,  \* bound: requests of the application
    MaxBuilds,    \* bound: image tags CI puts on main
    Faults,       \* which of FaultKinds the environment may inflict
    NoFile, NoEnv

FaultKinds == {
    "github",  \* a call raises, or the Lambda dies: the run ends there
    "restart", \* the Lambda is started over
    "review"   \* GitHub refuses to merge: the pull request waits for a reviewer
    }

Deployed == Envs \X Services
Claims   == Envs \X Slugs

\* add, remove, claim and unclaim are an update's (a create only adds); a
\* delete names its environment.
Request == [env : Envs \cup {NoEnv}, add : SUBSET Deployed, remove : SUBSET Deployed,
            claim : SUBSET Claims, unclaim : SUBSET Claims]
NoRequest == [env |-> NoEnv, add |-> {}, remove |-> {}, claim |-> {}, unclaim |-> {}]

ASSUME GitOpsAssumption ==
    /\ Requests \subseteq Request
    /\ MaxRequests \in Nat /\ MaxBuilds \in Nat
    /\ Faults \subseteq FaultKinds
    /\ NoEnv \notin Envs
    /\ NoFile \notin Nat \cup {"rendered"}
    /\ NoFile \notin [services : SUBSET Services, resources : SUBSET Slugs,
                      patches : SUBSET Slugs]

VARIABLES
    rows,     \* the desired state: [services, claims]
    sent,     \* how many requests were committed
    request,  \* the one that runs, or ran last
    pc,       \* the call the run makes next
    work,     \* Step 1's locals: [files, deletes, seen, merged]
    claim,    \* extract's locals: [todo, at, kind, seen, base, failed]
    main,     \* the folder on main
    moved,    \* whether main has moved since extract read its head
    branch,   \* makeway/apps/<app>: [there, base, tree], and history: [behind, by]
    pr,       \* whether its pull request is open
    stale,    \* history: environments whose overlay was once written from
              \* contents that another writer had changed since they were read,
              \* until it is removed (a fresh write in between may have mended it)
    builds,   \* image tags CI has put on main
    workflows \* services with a CI workflow in the services repository

dbVars  == <<rows, sent, request>>
gitVars == <<main, moved, branch, pr, stale>>
vars    == <<dbVars, pc, work, claim, gitVars, builds, workflows>>

-----------------------------------------------------------------------------
(* Trees *)

Kust(e)      == <<"kustomization", e>>
Patch(e, s)  == <<"patch", e, s>>
Secret(e, k) == <<"external-secret", e, k>>
Inject(e, k) == <<"inject", e, k>>
Folder(s)    == <<"apps", s>>

\* Everything under envs/<env>/.
Overlay(e) == {Kust(e)} \cup {Patch(e, s) : s \in Services}
                \cup {Secret(e, k) : k \in Slugs} \cup {Inject(e, k) : k \in Slugs}
Paths == (UNION {Overlay(e) : e \in Envs}) \cup {Folder(s) : s \in Services}

\* A kustomization by the entries it lists; an image tag by CI's build, 0 for
\* the placeholder; of other files only that they are there.
Kustomization == [services : SUBSET Services, resources : SUBSET Slugs, patches : SUBSET Slugs]
NoLines == [services |-> {}, resources |-> {}, patches |-> {}]
Lines(file) == IF file = NoFile THEN NoLines ELSE file

Content(p) == {NoFile} \cup
    CASE p[1] = "kustomization" -> Kustomization
      [] p[1] = "patch"         -> 0..MaxBuilds
      [] OTHER                  -> {"rendered"}
IsTree(t) == DOMAIN t = Paths /\ \A p \in Paths : t[p] \in Content(p)
EmptyTree == [p \in Paths |-> NoFile]

\* A commit: files written, paths removed.
Committed(t, files, deletes) ==
    [p \in Paths |-> IF p \in deletes THEN NoFile
                     ELSE IF p \in DOMAIN files THEN files[p] ELSE t[p]]

\* What a pull request changes, since the commit the branch started from.
Changed(b) == {p \in Paths : b.tree[p] # b.base[p]}
Conflicts(b) == \E p \in Changed(b) : main[p] \notin {b.base[p], b.tree[p]}
Merged(b) == [p \in Paths |-> IF p \in Changed(b) THEN b.tree[p] ELSE main[p]]

NoBranch == [there |-> FALSE, base |-> EmptyTree, tree |-> EmptyTree, behind |-> {}, by |-> 0]
NoWork   == [files |-> <<>>, deletes |-> {}, seen |-> EmptyTree, merged |-> FALSE]
NoClaim  == [todo |-> {}, at |-> {}, kind |-> "secret", seen |-> NoLines,
             base |-> EmptyTree, failed |-> FALSE]

-----------------------------------------------------------------------------
(* What a run makes of the rows *)

\* The rows the request removes.
Leaving == {x \in rows.services : x \in request.remove \/ x[1] = request.env}
Released == {c \in rows.claims : c \in request.unclaim \/ c[1] = request.env}

Bases == {x[2] : x \in rows.services}

\* _fully_removed_bases
FullyRemoved == {s \in Bases : \A x \in rows.services : x[2] = s => x \in request.remove}

\* base_services: of every environment, whatever the overlay.
Kept == Bases \ FullyRemoved

\* details["environments"]: those of the services' clusters.
Targets == {x[1] : x \in rows.services}

\* Variant: every tier, whatever the application is deployed to.
EmittedEverywhere == Envs

\* env_set and emit_envs: all tiers rather than none.
Emitted == IF Targets = {} THEN Envs ELSE Targets

\* Variant: the services that are being removed are rendered too.
EnvBasesKept(e) == Kept

\* env_bases
EnvBases(e) == {s \in Kept : <<e, s>> \notin request.remove}

\* _capability_slugs / _removed_slugs_by_env
RemovedSlugs(e) == {k \in Slugs : <<e, k>> \in rows.claims /\ <<e, k>> \in request.unclaim}

\* Variant: the entries of the claims that are released are carried over too.
RegeneratedWithReleased(e) ==
    [Lines(main[Kust(e)]) EXCEPT !.services = EnvBases(e)]

\* _preserve_gitops_extras: extract's entries are carried over.
Regenerated(e) ==
    LET current == Lines(main[Kust(e)])
    IN  [services  |-> EnvBases(e),
         resources |-> current.resources \ RemovedSlugs(e),
         patches   |-> current.patches \ RemovedSlugs(e)]

\* Variant: the placeholder is rendered again.
CurrentTagOrPlaceholder(e, s) == 0

\* The patch file is CI's after the first build.
CurrentTag(e, s) == IF main[Patch(e, s)] = NoFile THEN 0 ELSE main[Patch(e, s)]

\* _argocd_app_files: the files of the overlays that are emitted ...
RenderedPaths ==
    {Folder(s) : s \in Kept}
      \cup UNION {{Kust(e)} \cup {Patch(e, s) : s \in EnvBases(e)} :
                    e \in {d \in Emitted : EnvBases(d) # {}}}
RenderedFiles ==
    [p \in RenderedPaths |->
        CASE p[1] = "kustomization" -> Regenerated(p[2])
          [] p[1] = "patch"         -> CurrentTag(p[2], p[3])
          [] OTHER                  -> "rendered"]

\* ... and what goes in the same push.
RemovedPaths ==
    (UNION {Overlay(e) : e \in {d \in Emitted : EnvBases(d) = {}}})
      \cup (UNION {Overlay(e) : e \in {d \in Envs \ Targets : main[Kust(d)] # NoFile}})
      \cup {Patch(x[1], x[2]) : x \in request.remove}
      \cup (UNION {{Inject(c[1], c[2]), Secret(c[1], c[2])} :
                    c \in {d \in Claims : d[2] \in RemovedSlugs(d[1])}})
      \cup {Folder(s) : s \in FullyRemoved}

\* A delete's prefix: the environment's, or all if it is the last one.
TeardownPaths == IF Targets \ {request.env} # {} THEN Overlay(request.env) ELSE Paths

\* _push_services_repo: every kept service gets its workflow, whatever its
\* folder holds by now; those of fully removed services go, their folders stay.
Workflows == (workflows \cup Kept) \ FullyRemoved

-----------------------------------------------------------------------------
(* Requests *)

Init ==
    /\ rows = [services |-> {}, claims |-> {}]
    /\ sent = 0
    /\ request = NoRequest
    /\ pc = "idle"
    /\ work = NoWork
    /\ claim = NoClaim
    /\ main = EmptyTree
    /\ moved = FALSE
    /\ branch = NoBranch
    /\ pr = FALSE
    /\ stale = {}
    /\ builds = 0
    /\ workflows = {}

\* A request is committed: its additions are rows from now on, its removals
\* stay rows until the run has succeeded.  An update names rows that are there
\* and leaves every claim a service in its environment; a delete names an
\* environment the application has.
Submit(r) ==
    /\ pc = "idle"
    /\ sent < MaxRequests
    /\ r.remove \subseteq rows.services
    /\ r.unclaim \subseteq rows.claims
    /\ r.env # NoEnv => r.env \in Targets
    /\ \A c \in (rows.claims \cup r.claim) \ r.unclaim :
          \E x \in (rows.services \cup r.add) \ r.remove : x[1] = c[1]
    /\ rows' = [services |-> rows.services \cup r.add, claims |-> rows.claims \cup r.claim]
    /\ sent' = sent + 1
    /\ request' = r
    /\ pc' = "begin"
    /\ work' = NoWork
    /\ claim' = NoClaim
    /\ UNCHANGED <<gitVars, builds, workflows>>

-----------------------------------------------------------------------------
(* Step 1 *)

\* The request details decide what the run does: a delete, and an update that
\* leaves no service, only strip the tree.
Begin ==
    /\ pc = "begin"
    /\ IF request.env # NoEnv \/ Kept = {}
         THEN /\ pc' = "sync"
              /\ work' = [files |-> <<>>,
                           deletes |-> IF request.env # NoEnv THEN TeardownPaths ELSE Paths,
                           seen |-> main, merged |-> FALSE]
         ELSE /\ pc' = "scaffold"
              /\ work' = NoWork
    /\ UNCHANGED <<dbVars, claim, gitVars, builds, workflows>>

\* The services repository and its CI credentials are set up, then pushed to.
Scaffold ==
    /\ pc = "scaffold"
    /\ workflows' = Workflows
    /\ pc' = "render"
    /\ UNCHANGED <<dbVars, work, claim, gitVars, builds>>

\* _argocd_app_files reads the kustomizations and patches of main.  Its reads
\* are taken together: what another writer changes between two of them is
\* changed, or not, at a file read once.
Render ==
    /\ pc = "render"
    /\ work' = [files |-> RenderedFiles, deletes |-> RemovedPaths, seen |-> main,
                merged |-> FALSE]
    /\ pc' = "sync"
    /\ UNCHANGED <<dbVars, claim, gitVars, builds, workflows>>

\* Variant: a branch that is there is used as it is (the code before the
\* regression _smoke_step1.py section 16 tells of).
SyncMissingBranch ==
    /\ pc = "sync"
    /\ branch' = IF branch.there THEN branch
                 ELSE [there |-> TRUE, base |-> main, tree |-> main, behind |-> {}, by |-> sent]
    /\ pc' = "push"
    /\ UNCHANGED <<dbVars, work, claim, main, moved, pr, stale, builds, workflows>>

\* _sync_branch_with_main: the branch is created from main or forced back to
\* it.  `behind' and `by' are history: the files another writer changed on main
\* since Step 1 read them, and the request.
SyncBranch ==
    /\ pc = "sync"
    /\ branch' = [there |-> TRUE, base |-> main, tree |-> main,
                  behind |-> IF work.files = <<>> THEN {}
                             ELSE {p \in Paths : main[p] # work.seen[p]},
                  by |-> sent]
    /\ pc' = "push"
    /\ UNCHANGED <<dbVars, work, claim, main, moved, pr, stale, builds, workflows>>

\* _push_tree on the branch, which nobody else writes: one commit with what
\* differs by content.  Without a difference and without an open pull request
\* there is nothing to merge; a reviewer may have deleted the branch meanwhile.
PushTree ==
    /\ pc = "push"
    /\ branch.there
    /\ LET tree    == Committed(branch.tree, work.files, work.deletes)
           changed == tree # branch.tree
       IN  /\ branch' = [branch EXCEPT !.tree = tree]
           /\ pc' = IF changed \/ pr THEN "merge" ELSE "report"
           /\ work' = [NoWork EXCEPT !.merged = ~changed /\ ~pr]
           /\ pr' = (changed \/ pr)
    /\ UNCHANGED <<dbVars, claim, main, moved, stale, builds, workflows>>

\* GitHub squashes the pull request into one commit on main.  With nothing
\* left to merge it may as well refuse.
SquashMerge ==
    /\ pr
    /\ branch.there
    /\ ~Conflicts(branch)
    /\ main' = Merged(branch)
    /\ moved' = (pc = "commit")
    /\ pr' = FALSE
    /\ stale' = {e \in stale \cup {d \in Envs : Kust(d) \in branch.behind} :
                   main'[Kust(e)] # NoFile}

\* _try_merge: merged, or refused and left open for review.
TryMerge ==
    /\ pc = "merge"
    /\ \/ /\ SquashMerge
          /\ work' = [work EXCEPT !.merged = TRUE]
          /\ UNCHANGED branch
       \/ /\ "review" \in Faults \/ ~pr \/ Conflicts(branch)
          /\ work' = [work EXCEPT !.merged = FALSE]
          /\ UNCHANGED <<main, moved, branch, pr, stale>>
    /\ pc' = "report"
    /\ UNCHANGED <<dbVars, claim, builds, workflows>>

\* Step 1 reports and returns; apply and check do not touch the repository.
EnterExtract ==
    /\ pc = "report"
    /\ pc' = "extract"
    /\ claim' = [NoClaim EXCEPT !.todo = IF request.env = NoEnv THEN rows.claims \ Released
                                         ELSE {}]
    /\ UNCHANGED <<dbVars, work, gitVars, builds, workflows>>

-----------------------------------------------------------------------------
(* Step 2's extract: two commits for each kept claim, straight to main *)

InHand == CHOOSE c \in claim.at : TRUE

\* The secret is mirrored; _gitops_external_secret reads the kustomization.
TakeClaim(c) ==
    /\ pc = "extract"
    /\ c \in claim.todo
    /\ claim' = [claim EXCEPT !.todo = @ \ {c}, !.at = {c}, !.kind = "secret",
                    !.seen = Lines(main[Kust(c[1])])]
    /\ pc' = "ref"
    /\ UNCHANGED <<dbVars, work, gitVars, builds, workflows>>

\* _gitops_inject_envs reads it again.
ReadKustomization ==
    /\ pc = "inject"
    /\ claim' = [claim EXCEPT !.kind = "inject", !.seen = Lines(main[Kust(InHand[1])])]
    /\ pc' = "ref"
    /\ UNCHANGED <<dbVars, work, gitVars, builds, workflows>>

\* _add_kustomization_resource / _add_kustomization_patch: a line that is there
\* is not added, and a kustomization that has it is not written.
ClaimFiles ==
    LET e == InHand[1]
        k == InHand[2]
        file == IF claim.kind = "secret" THEN Secret(e, k) ELSE Inject(e, k)
        lines == IF claim.kind = "secret"
                   THEN [claim.seen EXCEPT !.resources = @ \cup {k}]
                   ELSE [claim.seen EXCEPT !.patches = @ \cup {k}]
    IN  IF lines = claim.seen THEN [p \in {file} |-> "rendered"]
        ELSE [p \in {file, Kust(e)} |-> IF p = file THEN "rendered" ELSE lines]

AfterCommit == IF claim.kind = "secret" THEN "inject" ELSE "extract"

\* _git_upsert_files reads the head of main and its tree; nothing to do if the
\* files are there with this content.
ReadHead ==
    /\ pc = "ref"
    /\ IF Committed(main, ClaimFiles, {}) = main
         THEN pc' = AfterCommit /\ UNCHANGED claim
         ELSE pc' = "commit" /\ claim' = [claim EXCEPT !.base = main]
    /\ moved' = FALSE
    /\ UNCHANGED <<dbVars, work, main, branch, pr, stale, builds, workflows>>

\* Variant: the reference is forced to the new commit.
CommitForced ==
    /\ pc = "commit"
    /\ main' = Committed(claim.base, ClaimFiles, {})
    /\ claim' = [claim EXCEPT !.base = EmptyTree]
    /\ pc' = AfterCommit
    /\ UNCHANGED <<dbVars, work, moved, branch, pr, stale, builds, workflows>>

\* The commit is made on the tree that was read; the PATCH of the reference is
\* not forced, so it is refused when main has moved.
CommitClaim ==
    /\ pc = "commit"
    /\ IF moved
         THEN /\ claim' = [claim EXCEPT !.base = EmptyTree, !.failed = TRUE]
              /\ pc' = "extract"
              /\ UNCHANGED <<main, stale>>
         ELSE /\ main' = Committed(claim.base, ClaimFiles, {})
              /\ stale' = stale \cup {e \in Envs : /\ Kust(e) \in DOMAIN ClaimFiles
                                                /\ Lines(claim.base[Kust(e)]) # claim.seen}
              /\ claim' = [claim EXCEPT !.base = EmptyTree]
              /\ pc' = AfterCommit
    /\ UNCHANGED <<dbVars, work, moved, branch, pr, builds, workflows>>

\* A failed capability does not keep the others from being extracted.
ClaimFails ==
    /\ "github" \in Faults
    /\ pc \in {"ref", "inject"}
    /\ claim' = [claim EXCEPT !.failed = TRUE]
    /\ pc' = "extract"
    /\ UNCHANGED <<dbVars, work, gitVars, builds, workflows>>

\* The last report: SUCCESS purges what the request removes, FAILED nothing.
Finish ==
    /\ pc = "extract"
    /\ claim.todo = {}
    /\ pc' = "idle"
    /\ rows' = IF claim.failed THEN rows
               ELSE [services |-> rows.services \ Leaving, claims |-> rows.claims \ Released]
    /\ UNCHANGED <<sent, request, work, claim, gitVars, builds, workflows>>

-----------------------------------------------------------------------------
(* A run that fails, the other writers *)

InStep1 == {"begin", "scaffold", "render", "sync", "push", "merge"}

\* A call raises, is refused, or the Lambda dies: the run reports FAILED.
Fail ==
    /\ "github" \in Faults \/ (pc = "push" /\ ~branch.there)
    /\ pc \notin {"idle", "ref", "inject", "commit"}
    /\ pc' = "idle"
    /\ UNCHANGED <<dbVars, work, claim, gitVars, builds, workflows>>

\* A Lambda is started over: from the request details on.
Restart ==
    /\ "restart" \in Faults
    /\ \/ pc \in InStep1 \ {"begin"} /\ pc' = "begin" /\ work' = NoWork /\ UNCHANGED claim
       \/ /\ pc \in {"ref", "inject", "commit"}
          /\ pc' = "extract"
          /\ claim' = [NoClaim EXCEPT !.todo = rows.claims \ Released]
          /\ UNCHANGED work
    /\ UNCHANGED <<dbVars, gitVars, builds, workflows>>

\* ci-service.yaml: a build pins its tag in the patch of one environment, if
\* main has one.  Its push is refused when main moved since the clone, so it
\* changes what it saw or nothing.
Bump(e, s) ==
    /\ builds < MaxBuilds
    /\ s \in workflows
    /\ main[Patch(e, s)] # NoFile
    /\ builds' = builds + 1
    /\ main' = [main EXCEPT ![Patch(e, s)] = builds + 1]
    /\ moved' = (pc = "commit")
    /\ UNCHANGED <<dbVars, pc, work, claim, branch, pr, stale, workflows>>

\* A reviewer merges the pull request that was left open, and may delete its
\* branch.
Review ==
    /\ "review" \in Faults
    /\ SquashMerge
    /\ \/ branch' = NoBranch
       \/ UNCHANGED branch
    /\ UNCHANGED <<dbVars, pc, work, claim, builds, workflows>>

\* Another application's worker, or its CI, commits to main: only a commit that
\* is being made can tell.
Elsewhere ==
    /\ pc = "commit"
    /\ ~moved
    /\ moved' = TRUE
    /\ UNCHANGED <<dbVars, pc, work, claim, main, branch, pr, stale, builds, workflows>>

Next ==
    \/ \E r \in Requests : Submit(r)
    \/ Begin \/ Scaffold \/ Render \/ SyncBranch \/ PushTree \/ TryMerge \/ EnterExtract
    \/ \E c \in Claims : TakeClaim(c)
    \/ ReadKustomization \/ ReadHead \/ CommitClaim \/ ClaimFails \/ Finish
    \/ Fail \/ Restart
    \/ \E e \in Envs, s \in Services : Bump(e, s)
    \/ Review \/ Elsewhere

Spec == Init /\ [][Next]_vars

-----------------------------------------------------------------------------
(* Properties *)

\* Types; and no push both writes and deletes a file.
TypeOK ==
    /\ rows \in [services : SUBSET Deployed, claims : SUBSET Claims]
    /\ sent \in 0..MaxRequests
    /\ request \in Requests \cup {NoRequest}
    /\ pc \in InStep1 \cup {"idle", "report", "extract", "ref", "inject", "commit"}
    /\ DOMAIN work.files \subseteq Paths /\ work.deletes \subseteq Paths \ DOMAIN work.files
    /\ IsTree(work.seen) /\ work.merged \in BOOLEAN
    /\ claim.todo \subseteq Claims /\ claim.at \subseteq Claims /\ claim.failed \in BOOLEAN
    /\ claim.seen \in Kustomization /\ IsTree(claim.base)
    /\ IsTree(main)
    /\ IsTree(branch.base) /\ IsTree(branch.tree) /\ branch.behind \subseteq Paths
    /\ branch.by \in 0..MaxRequests
    /\ moved \in BOOLEAN /\ pr \in BOOLEAN /\ stale \subseteq Envs
    /\ builds \in 0..MaxBuilds
    /\ workflows \subseteq Services

\* What an overlay lists is there: kustomize refuses to build one that is not,
\* and ArgoCD then syncs nothing of the environment.
Resolves(t, e) ==
    t[Kust(e)] # NoFile =>
        /\ \A s \in t[Kust(e)].services : t[Patch(e, s)] # NoFile /\ t[Folder(s)] # NoFile
        /\ \A k \in t[Kust(e)].resources : t[Secret(e, k)] # NoFile
        /\ \A k \in t[Kust(e)].patches : t[Inject(e, k)] # NoFile

\* Every overlay on main resolves, but for those that were ever overwritten from
\* outdated contents and not removed since: a wider exception than the damage,
\* which the next run's render may repair.
OverlaysResolve == \A e \in Envs \ stale : Resolves(main, e)

\* Once Step 1 reports its pull request merged, main is what the request asks
\* for: a delete has left nothing of the environment, an update lists in each
\* overlay the services it keeps.
Published ==
    pc = "report" /\ work.merged =>
        IF request.env # NoEnv THEN \A p \in TeardownPaths : main[p] = NoFile
        ELSE \A e \in Envs :
               IF e \in Emitted /\ EnvBases(e) # {}
                 THEN main[Kust(e)] # NoFile /\ main[Kust(e)].services = EnvBases(e)
                 ELSE main[Kust(e)] = NoFile

\* An overlay comes (back) to main only for an environment that has rows: no
\* pull request left open and no late commit deploys what was torn down.
NoResurrection ==
    [][\A e \in Envs : main[Kust(e)] = NoFile /\ main'[Kust(e)] # NoFile
         => e \in Targets \/ \E k \in Slugs : <<e, k>> \in rows.claims]_vars

\* What another writer put on main stays.  A tag of CI never falls back, and
\* what the rows still ask for is not dropped from a kustomization ...
Wanted(e) == [
    services  |-> {s \in Services : <<e, s>> \in rows.services \ Leaving},
    resources |-> {k \in Slugs : <<e, k>> \in rows.claims \ Released},
    patches   |-> {k \in Slugs : <<e, k>> \in rows.claims \ Released}]
Reverted(p) ==
    /\ main[p] # NoFile /\ main'[p] # NoFile
    /\ CASE p[1] = "patch" -> main'[p] < main[p]
         [] p[1] = "kustomization" ->
              \E f \in DOMAIN NoLines : ~(main[p][f] \cap Wanted(p[2])[f] \subseteq main'[p][f])
         [] OTHER -> FALSE

\* ... unless it landed between a worker's read of the file and the head the
\* worker's commit is based on, or a reviewer merges the pull request of an
\* earlier request, which drops what that one removed and a later one added.
Overtaken(p) ==
    IF p[1] = "kustomization" THEN p[2] \in stale' \/ branch.by # sent
    ELSE p \in branch.behind

NothingLost == [][\A p \in Paths : Reverted(p) => Overtaken(p)]_vars
=============================================================================
