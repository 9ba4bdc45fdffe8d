---------------------------- MODULE DesiredState ----------------------------
(***************************************************************************)
(* The desired state of one application and what the workers make of it.   *)
(*                                                                         *)
(* The control plane keeps rows: services (one per environment), capability*)
(* rows with their config, and the access edges that bind a capability to  *)
(* services.  A capability row names no application and no environment:    *)
(* both are derived from its edges, so a capability without an edge cannot *)
(* be seen by anybody.  A create or an update writes the rows when it is   *)
(* submitted; what an update or a delete removes is purged only when its   *)
(* run reports SUCCESS.                                                    *)
(*                                                                         *)
(* A run turns the rows into GitOps overlays (Step 1), Crossplane          *)
(* instances (Step 2 apply and check), credentials and injection patches   *)
(* (Step 2 extract).  Every name is computed anew from application,        *)
(* environment and capability slug.                                        *)
(*                                                                         *)
(* One request is under way at a time: RequestLifecycle tells when that is *)
(* so.  Its message paths, retries and reports are not repeated here: a    *)
(* run may fail at any point (Fail) and a Lambda may be started over       *)
(* (Retry).                                                                *)
(***************************************************************************)
EXTENDS Naturals, Sequences

CONSTANTS
    Envs,        \* environments, each with its registered cluster
    Services,    \* base service names
    Types,       \* CapabilityType
    AwsTypes,    \* AWS_API_CAPABILITIES: the types pods reach with IAM keys
    Slugs,       \* instance slugs: queue names, the database name, "storage"
    MaxRequests, \* bound: requests of the application
    Twins,       \* bound: capabilities of one type and environment in a create
    Creations,   \* bound: the env_config lists callers create the app with
    Updates,     \* bound: the lists of deltas callers send
    Alike,       \* base names that read like the name of another environment's row
    Faults       \* which of FaultKinds the environment may inflict

FaultKinds == {
    "cleanup", \* a best-effort deletion of a secret or an IAM user is skipped
    "halfway", \* the Lambda dies after create_access_key, before the key is stored
    "unmerged" \* GitHub refuses to merge Step 1's pull request: it waits for review
    }

\* A capability row.  The request that adds it stands for the number of its id.
Capabilities == [by : 1..MaxRequests, env : Envs, type : Types, nr : Twins]

Service == Envs \X Services
Config  == SUBSET Slugs \ {{}}
Grant   == [type : Types, nr : Twins, config : Config, access : SUBSET Services]
Patch   == [capability : Capabilities, access : SUBSET Services]
Entry   == [env : Envs, services : SUBSET Services, capabilities : SUBSET Grant,
            removeServices : SUBSET Services, removeCapabilities : SUBSET Types,
            patches : SUBSET Patch]

ASSUME DesiredStateAssumption ==
    /\ AwsTypes \subseteq Types
    /\ MaxRequests \in Nat
    /\ Twins \subseteq Nat /\ 1 \in Twins
    /\ Creations \subseteq Seq(Entry) /\ Updates \subseteq Seq(Entry)
    /\ \A entries \in Creations \cup Updates : \A i, j \in DOMAIN entries :
          i # j => entries[i].env # entries[j].env
    /\ \A entries \in Updates : \A i \in DOMAIN entries :
          \A g, h \in entries[i].capabilities : g.type = h.type => g = h
    /\ \A entries \in Updates : \A i, j \in DOMAIN entries :
          \A p \in entries[i].patches, q \in entries[j].patches :
             p.capability = q.capability => i = j /\ p = q
    /\ Alike \subseteq Services \X Service
    /\ \A n, m \in Alike : n[2][1] = m[2][1] => (n[1] = m[1] <=> n[2] = m[2])
    /\ Faults \subseteq FaultKinds

VARIABLES
    rows,     \* the desired-state rows: [services, config, access]
    sent,     \* how many requests were committed
    request,  \* the latest one: [kind, env, updates]
    status,   \* and its requestStatus
    phase,    \* the Lambda its execution is in
    done,     \* the claims this Lambda has dealt with
    overlay,  \* envs/<env>/ on main: the services it deploys, {} if it is gone
    inject,   \* envs/<env>/inject/<slug>-env.yaml: the services it patches
    merged,   \* whether the last pull request of Step 1 is on main
    xr,       \* Crossplane instances: "lingering" is being deleted, with the
              \* conditions of a ready one; "terminating" shows it
    secret,   \* fields of the Secrets Manager secret makeway/<app>/<env>/<slug>
    key,      \* whether the IAM user makeway-<app>-<env>-<slug> has a key
    strayed,  \* history: the capabilities a patch bound in another environment
    misread   \* history: the instances the run's check took for ready although
              \* they were being deleted

gitVars  == <<overlay, inject, merged>>
credVars == <<secret, key>>
vars == <<rows, sent, request, status, phase, done, gitVars, xr, credVars, strayed, misread>>

runVars == <<rows, strayed, sent, request, status, misread>>

Instances == Envs \X Types \X Slugs
Fields    == {"connection", "id", "key"}
Phases    == {"idle", "step1", "apply", "check", "extract"}

NoRequest == [kind |-> "none", envs |-> {}, updates |-> <<>>]

-----------------------------------------------------------------------------
(* Reading the rows *)

Known(db, e) == {s \in Services : <<e, s>> \in db.services}

\* The services an access edge leads to.
Accessors(db, c) == {s \in db.services : <<c, s>> \in db.access}

\* capabilityRepository.get_by_app: joined over the edges.
Visible(db) == {c \in DOMAIN db.config : Accessors(db, c) # {}}

EnvsOf(db, c) == {s[1] : s \in Accessors(db, c)}

\* _capability_env: that of the first edge found.
CapabilityEnv(db, c) == CHOOSE e \in EnvsOf(db, c) : TRUE

\* Variant: the environment is not compared.
MatchingAnyEnv(db, e, t) == {c \in Visible(db) : c.type = t}

\* _find_capability: the rows it may return.
Matching(db, e, t) == {c \in Visible(db) : c.type = t /\ e \in EnvsOf(db, c)}

Names(e, set) == {e} \X set

-----------------------------------------------------------------------------
(* What a request asks for *)

Entries(r) == {r.updates[i] : i \in DOMAIN r.updates}

\* _removed_capability_keys / _capability_is_removed.
TornDown(c) ==
    LET e == CapabilityEnv(rows, c)
    IN  CASE request.kind = "delete" -> e \in request.envs
          [] request.kind = "update" ->
               \E u \in Entries(request) : u.env = e /\ c.type \in u.removeCapabilities
          [] OTHER -> FALSE

\* The Service rows the request removes.
Leaving == {s \in rows.services :
              \/ request.kind = "delete" /\ s[1] \in request.envs
              \/ request.kind = "update" /\ \E u \in Entries(request) :
                    u.env = s[1] /\ s[2] \in u.removeServices}

\* _claims_for: the claims of a capability, and the instance behind a claim.
Claims(c) == {c} \X rows.config[c]
Instance(x) == <<CapabilityEnv(rows, x[1]), x[1].type, x[2]>>

KeptClaims    == UNION {Claims(c) : c \in {d \in Visible(rows) : ~TornDown(d)}}
RemovedClaims == UNION {Claims(c) : c \in {d \in Visible(rows) : TornDown(d)}}

-----------------------------------------------------------------------------
(* Submitting *)

Commit(r, db) ==
    /\ status # "in_progress"
    /\ sent < MaxRequests
    /\ sent' = sent + 1
    /\ request' = r
    /\ rows' = db
    /\ status' = "in_progress"
    /\ phase' = "step1"
    /\ done' = {}
    /\ misread' = {}
    /\ UNCHANGED <<gitVars, xr, credVars>>

\* Rows of a capability a call adds.
NewRow(u, g) == [by |-> sent + 1, env |-> u.env, type |-> g.type, nr |-> g.nr]

\* An empty access_to means every service of the environment.
Bound(u, g) == IF g.access = {} THEN u.services ELSE g.access

Create(entries) ==
    LET added == UNION {{entries[i]} \X entries[i].capabilities : i \in DOMAIN entries}
    IN  /\ sent = 0
        /\ UNCHANGED strayed
        /\ \A p \in added : p[2].access \subseteq p[1].services
        /\ Commit([kind |-> "create", envs |-> {}, updates |-> <<>>],
             [services |-> UNION {Names(entries[i].env, entries[i].services) :
                                    i \in DOMAIN entries},
              config   |-> [c \in {NewRow(p[1], p[2]) : p \in added} |->
                              (CHOOSE p \in added : NewRow(p[1], p[2]) = c)[2].config],
              access   |-> UNION {{NewRow(p[1], p[2])}
                                    \X Names(p[1].env, Bound(p[1], p[2])) : p \in added}])

\* Variant: the removed services still count.
FutureAccessorsWithRemoved(u, c) ==
    {s \in Services : <<u.env, s>> \in Accessors(rows, c)}
      \cup UNION {g.access : g \in {h \in u.capabilities : h.type = c.type}}

\* _validate_removal_orphans: who could still reach a capability.
FutureAccessors(u, c) ==
    ({s \in Services : <<u.env, s>> \in Accessors(rows, c)} \ u.removeServices)
      \cup UNION {g.access : g \in {h \in u.capabilities : h.type = c.type}}

KeepsAccessors(u) ==
    u.removeServices # {} =>
      \A c \in Visible(rows) :
        CapabilityEnv(rows, c) = u.env /\ c.type \notin u.removeCapabilities
          => FutureAccessors(u, c) # {}

\* _validate_access_patch.
ValidPatch(u, p) ==
    /\ p.access # {}
    /\ p.capability \in DOMAIN rows.config
    /\ u.env \in EnvsOf(rows, p.capability)
    /\ p.capability.type \notin u.removeCapabilities
    /\ \A g \in u.capabilities : g.type # p.capability.type
    /\ p.access \subseteq (Known(rows, u.env) \cup u.services) \ u.removeServices

ValidEntry(u) ==
    LET services == Known(rows, u.env) \cup u.services
    IN  /\ u.services \cap u.removeServices = {}
        /\ u.removeServices \subseteq services
        /\ \A t \in u.removeCapabilities : Matching(rows, u.env, t) # {}
        /\ \A g \in u.capabilities :
             /\ g.type \notin u.removeCapabilities
             /\ g.access # {}
             /\ g.access \subseteq services \ u.removeServices
        /\ \A p \in u.patches : ValidPatch(u, p)
        /\ KeepsAccessors(u)

\* _apply_access_patch looks its names up in the services of the LAST entry that
\* was validated, whatever environment the patch is for.
LookedUp(entries) == entries[Len(entries)].env

\* The rows a patch of an entry binds to.  In another environment's services a
\* name finds the row that is called so in full ("a-prod"), if there is one.
Targets(entries, u, p) ==
    IF u.env = LookedUp(entries)
    THEN Names(u.env, p.access)
    ELSE {s \in rows.services :
            s[1] = LookedUp(entries) /\ \E n \in p.access : <<n, s>> \in Alike}

\* A name without a row raises, and nothing is written.
PatchesResolve(entries) ==
    \A i \in DOMAIN entries : entries[i].env # LookedUp(entries) =>
      \A p \in entries[i].patches : \A n \in p.access :
        \E s \in Targets(entries, entries[i], p) : <<n, s>> \in Alike

\* The capabilities that an update binds in the last entry's environment although
\* it patches them for another.
Astray(entries) ==
    UNION {{p.capability : p \in entries[i].patches} :
             i \in {j \in DOMAIN entries : entries[j].env # LookedUp(entries)}}

\* The row _upsert_capability writes: the one it finds, or a new one.  Of two
\* of a type, get_by_app decides which comes first: here always the same one.
\* The last entry finds what the patches before it bound there, too.
Row(entries, u, g) ==
    LET found == Matching(rows, u.env, g.type)
                   \cup {c \in Astray(entries) : c.type = g.type /\ u.env = LookedUp(entries)}
    IN  IF found = {} THEN NewRow(u, g) ELSE CHOOSE c \in found : TRUE

Place(entries, u) == CHOOSE i \in DOMAIN entries : entries[i] = u

\* The delta merged into the rows: entry by entry services, upserts, patches.
\* What one entry takes away or overwrites no other adds, but for a row that went
\* astray before: two entries may find it, and the later one's config stands.
Merged(entries) ==
    LET delta   == {entries[i] : i \in DOMAIN entries}
        grants  == UNION {{u} \X u.capabilities : u \in delta}
        patches == UNION {{u} \X u.patches : u \in delta}
        for(c)  == {q \in grants : Row(entries, q[1], q[2]) = c}
        written == {Row(entries, q[1], q[2]) : q \in grants}
        revoked == {a \in rows.access : \E q \in patches :
                      a[1] = q[2].capability /\ a[2][1] = LookedUp(entries)}
    IN  [services |-> rows.services \cup UNION {Names(u.env, u.services) : u \in delta},
         config   |-> [c \in DOMAIN rows.config \cup written |->
                         IF c \in written
                         THEN (CHOOSE q \in for(c) : \A r \in for(c) :
                                 Place(entries, r[1]) <= Place(entries, q[1]))[2].config
                         ELSE rows.config[c]],
         access   |-> (rows.access \ revoked)
                        \cup (UNION {{Row(entries, q[1], q[2])} \X Names(q[1].env, q[2].access) :
                                      q \in grants})
                        \cup (UNION {{q[2].capability} \X Targets(entries, q[1], q[2]) :
                                      q \in patches})]

Update(entries) ==
    /\ sent \in 1..MaxRequests - 1
    /\ status # "in_progress"
    /\ \A i \in DOMAIN entries : ValidEntry(entries[i])
    /\ PatchesResolve(entries)
    /\ Commit([kind |-> "update", envs |-> {}, updates |-> entries], Merged(entries))
    /\ strayed' = strayed \cup Astray(entries)

Delete(e) ==
    /\ sent > 0
    /\ Known(rows, e) # {}
    /\ UNCHANGED strayed
    /\ Commit([kind |-> "delete", envs |-> {e}, updates |-> <<>>], rows)

-----------------------------------------------------------------------------
(* Step 1: the GitOps tree *)

NoInject == [s \in Slugs |-> {}]

\* The environments Step 1 is told of, and the base services it deploys: those
\* with a row in any environment the request does not remove it from.
Environments == {s[1] : s \in rows.services}
BaseServices == {s[2] : s \in rows.services \ Leaving}

\* _argocd_app_files: an overlay lists every base service the request does not
\* remove from its environment; an empty one is dropped, as is every overlay of
\* an environment the application is not in.
Overlay(e) ==
    IF e \in Environments
    THEN {s \in BaseServices : <<e, s>> \notin Leaving}
    ELSE {}

\* _remove_gitops: the whole tree if no other environment remains.
Stripped(e) == e \in request.envs \/ Environments \subseteq request.envs

\* Variant: what extract put into the overlay is preserved whole.
ExtrasPreserved(e, services) == IF services = {} THEN NoInject ELSE inject[e]

\* Injection patches live in the overlay's directory; those of removed
\* capabilities are deleted in the same push.
Extras(e, services) ==
    IF services = {} THEN NoInject
    ELSE [s \in Slugs |->
            IF \E x \in RemovedClaims : Instance(x)[1] = e /\ x[2] = s
            THEN {} ELSE inject[e][s]]

Publish ==
    /\ overlay' = [e \in Envs |-> IF request.kind # "delete" THEN Overlay(e)
                                  ELSE IF Stripped(e) THEN {} ELSE overlay[e]]
    /\ inject' = [e \in Envs |-> IF request.kind = "delete" /\ ~Stripped(e)
                                 THEN inject[e] ELSE Extras(e, overlay'[e])]
    /\ merged' = TRUE

\* _publish_gitops_to_platform, _try_merge: success, whether merged or not.
Step1 ==
    /\ phase = "step1"
    /\ phase' = "apply"
    /\ \/ Publish
       \/ /\ "unmerged" \in Faults
          /\ merged' = FALSE
          /\ UNCHANGED <<overlay, inject>>
    /\ UNCHANGED <<runVars, done, xr, credVars>>

-----------------------------------------------------------------------------
(* Step 2 *)

Handled(x) == done' = done \cup {x}

\* _apply_claim: create or patch; a patch does not stop a deletion under way.
ApplyClaim(x) ==
    /\ phase = "apply"
    /\ x \in KeptClaims \ done
    /\ xr' = [xr EXCEPT ![Instance(x)] = IF @ = "absent" THEN "settling" ELSE @]
    /\ Handled(x)
    /\ UNCHANGED <<runVars, phase, gitVars, credVars>>

\* Best effort: a deletion that fails is logged and skipped.  A sweep is all or
\* nothing here; the deletions per claim before it leave any part behind.
Cleaned(set) == {set} \cup (IF "cleanup" \in Faults THEN {{}} ELSE {})

Drop(secrets, keys) ==
    /\ secret' = [i \in Envs \X Slugs |-> IF i \in secrets THEN {} ELSE secret[i]]
    /\ key' = [i \in Envs \X Slugs |-> IF i \in keys THEN FALSE ELSE key[i]]

\* _delete_claim: after every kept claim was applied.
DeleteClaim(x) ==
    LET i == Instance(x)
    IN  /\ phase = "apply"
        /\ KeptClaims \subseteq done
        /\ x \in RemovedClaims \ done
        /\ xr' = [xr EXCEPT ![i] = CASE @ = "ready" -> "lingering"
                                     [] @ = "settling" -> "terminating"
                                     [] OTHER -> @]
        /\ \E secrets \in Cleaned({<<i[1], i[3]>>}) : \E keys \in Cleaned({<<i[1], i[3]>>}) :
              Drop(secrets, keys)
        /\ Handled(x)
        /\ UNCHANGED <<runVars, phase, gitVars>>

\* The end of apply; a delete sweeps the environment's credentials.
EndApply ==
    /\ phase = "apply"
    /\ KeptClaims \cup RemovedClaims \subseteq done
    /\ \E secrets \in Cleaned(request.envs \X Slugs) :
         \E keys \in Cleaned(request.envs \X Slugs) : Drop(secrets, keys)
    /\ phase' = "check"
    /\ done' = {}
    /\ UNCHANGED <<runVars, gitVars, xr>>

\* What _claim_status reads: nobody looks at the deletionTimestamp.
ReadsReady(i) == xr[i] \in {"ready", "lingering"}

\* Variant: an instance that answers at all counts.
CheckReadyExists ==
    /\ phase = "check"
    /\ \A x \in KeptClaims : xr[Instance(x)] # "absent"
    /\ \A x \in RemovedClaims : xr[Instance(x)] = "absent"
    /\ phase' = "extract"
    /\ misread' = {Instance(x) : x \in {y \in KeptClaims : xr[Instance(y)] = "lingering"}}
    /\ UNCHANGED <<rows, strayed, sent, request, status, done, gitVars, xr, credVars>>

\* Variant: a removed instance need not be gone, only not ready.
CheckReadyEarly ==
    /\ phase = "check"
    /\ \A x \in KeptClaims : ReadsReady(Instance(x))
    /\ \A x \in RemovedClaims : ~ReadsReady(Instance(x))
    /\ phase' = "extract"
    /\ misread' = {Instance(x) : x \in {y \in KeptClaims : xr[Instance(y)] = "lingering"}}
    /\ UNCHANGED <<rows, strayed, sent, request, status, done, gitVars, xr, credVars>>

\* _check says ready: kept instances read ready, removed ones read 404.
CheckReady ==
    /\ phase = "check"
    /\ \A x \in KeptClaims : ReadsReady(Instance(x))
    /\ \A x \in RemovedClaims : xr[Instance(x)] = "absent"
    /\ phase' = "extract"
    /\ misread' = {Instance(x) : x \in {y \in KeptClaims : xr[Instance(y)] = "lingering"}}
    /\ UNCHANGED <<rows, strayed, sent, request, status, done, gitVars, xr, credVars>>

\* _ensure_aws_identity, _sm_merge_secret: AWS tells a secret key once, so a key
\* that exists contributes its id only, and the stored fields are merged into.
Credentials(x, i) ==
    {"connection"} \cup (IF x[1].type \notin AwsTypes THEN {}
                         ELSE IF key[i] THEN {"id"} ELSE {"id", "key"})

\* Variant: what was stored is overwritten.
StoreSecretAnew(x, i) == Credentials(x, i)

StoreSecret(x, i) == secret[i] \cup Credentials(x, i)

\* The base names of services in the overlay of e; one of another environment has
\* no suffix of e to strip, and goes by its row's name.
NamesIn(e, services) ==
    {n \in Services : <<e, n>> \in services
                       \/ \E s \in services : s[1] # e /\ <<n, s>> \in Alike}

\* Variant: services are added to a patch that is there already.
ExtractClaimAdds(x) ==
    LET e == CapabilityEnv(rows, x[1])
        i == <<e, x[2]>>
    IN  /\ phase = "extract"
        /\ x \in KeptClaims \ done
        /\ request.kind # "delete"
        /\ secret' = [secret EXCEPT ![i] = StoreSecret(x, i)]
        /\ key' = [key EXCEPT ![i] = @ \/ x[1].type \in AwsTypes]
        /\ inject' = [inject EXCEPT ![e][x[2]] = @ \cup NamesIn(e, Accessors(rows, x[1]))]
        /\ Handled(x)
        /\ UNCHANGED <<runVars, phase, overlay, merged, xr>>

\* One claim of extract: identity, secret, ExternalSecret and injection patch.
ExtractClaim(x) ==
    LET e == CapabilityEnv(rows, x[1])
        i == <<e, x[2]>>
    IN  /\ phase = "extract"
        /\ x \in KeptClaims \ done
        /\ request.kind # "delete"
        /\ secret' = [secret EXCEPT ![i] = StoreSecret(x, i)]
        /\ key' = [key EXCEPT ![i] = @ \/ x[1].type \in AwsTypes]
        /\ inject' = [inject EXCEPT ![e][x[2]] = NamesIn(e, Accessors(rows, x[1]))]
        /\ Handled(x)
        /\ UNCHANGED <<runVars, phase, overlay, merged, xr>>

\* The Lambda dies with a key in its hands.
ExtractDies(x) ==
    /\ "halfway" \in Faults
    /\ phase = "extract"
    /\ x \in KeptClaims \ done
    /\ request.kind # "delete"
    /\ x[1].type \in AwsTypes
    /\ key' = [key EXCEPT ![<<CapabilityEnv(rows, x[1]), x[2]>>] = TRUE]
    /\ done' = {}
    /\ UNCHANGED <<runVars, phase, gitVars, xr, secret>>

\* A Lambda is invoked again and starts over.
Retry ==
    /\ done # {}
    /\ done' = {}
    /\ UNCHANGED <<runVars, phase, gitVars, xr, credVars>>

-----------------------------------------------------------------------------
(* The callback that ends the run *)

\* Variant: the edges of removed services are left.
PurgedKeepsEdges ==
    LET caps == {c \in Visible(rows) : TornDown(c)}
    IN  [services |-> rows.services \ Leaving,
         config   |-> [c \in DOMAIN rows.config \ caps |-> rows.config[c]],
         access   |-> {a \in rows.access : a[1] \notin caps}]

\* _purge_removed_items, _purge_env, _purge_rows.
Purged ==
    LET caps == {c \in Visible(rows) : TornDown(c)}
    IN  [services |-> rows.services \ Leaving,
         config   |-> [c \in DOMAIN rows.config \ caps |-> rows.config[c]],
         access   |-> {a \in rows.access : a[1] \notin caps /\ a[2] \notin Leaving}]

Succeed ==
    /\ phase = "extract"
    /\ request.kind # "delete" => KeptClaims \subseteq done
    /\ rows' = Purged
    /\ status' = "success"
    /\ phase' = "idle"
    /\ done' = {}
    /\ UNCHANGED <<strayed, misread, sent, request, gitVars, xr, credVars>>

\* Work raised, the attempt budget ran out, the Lambda died.
Fail ==
    /\ phase # "idle"
    /\ status' = "failed"
    /\ phase' = "idle"
    /\ done' = {}
    /\ UNCHANGED <<rows, strayed, misread, sent, request, gitVars, xr, credVars>>

-----------------------------------------------------------------------------
(* Crossplane *)

Settle(i) ==
    /\ xr[i] = "settling"
    /\ xr' = [xr EXCEPT ![i] = "ready"]
    /\ UNCHANGED <<runVars, phase, done, gitVars, credVars>>

\* A deletion shows in the conditions; until then they are the last ones.
Notice(i) ==
    /\ xr[i] = "lingering"
    /\ xr' = [xr EXCEPT ![i] = "terminating"]
    /\ UNCHANGED <<runVars, phase, done, gitVars, credVars>>

Vanish(i) ==
    /\ xr[i] = "terminating"
    /\ xr' = [xr EXCEPT ![i] = "absent"]
    /\ UNCHANGED <<runVars, phase, done, gitVars, credVars>>

-----------------------------------------------------------------------------
Init ==
    /\ rows = [services |-> {}, config |-> <<>>, access |-> {}]
    /\ sent = 0
    /\ request = NoRequest
    /\ status = "none"
    /\ phase = "idle"
    /\ done = {}
    /\ overlay = [e \in Envs |-> {}]
    /\ inject = [e \in Envs |-> NoInject]
    /\ merged = TRUE
    /\ xr = [i \in Instances |-> "absent"]
    /\ secret = [i \in Envs \X Slugs |-> {}]
    /\ key = [i \in Envs \X Slugs |-> FALSE]
    /\ strayed = {}
    /\ misread = {}

Submit ==
    \/ \E entries \in Creations : Create(entries)
    \/ \E entries \in Updates : Update(entries)
    \/ \E e \in Envs : Delete(e)

Next ==
    \/ Submit
    \/ Step1
    \/ \E x \in KeptClaims : ApplyClaim(x)
    \/ \E x \in RemovedClaims : DeleteClaim(x)
    \/ EndApply
    \/ CheckReady
    \/ \E x \in KeptClaims : ExtractClaim(x) \/ ExtractDies(x)
    \/ Retry
    \/ Succeed
    \/ Fail
    \/ \E i \in Instances : Settle(i) \/ Notice(i) \/ Vanish(i)

Spec == Init /\ [][Next]_vars

-----------------------------------------------------------------------------
(* Properties *)

\* The variables have their types, and the foreign keys hold: an edge leads from
\* a live capability to a live service (children go first in _purge_rows).
TypeOK ==
    /\ rows.services \subseteq Service
    /\ DOMAIN rows.config \subseteq Capabilities
    /\ \A c \in DOMAIN rows.config : rows.config[c] \in Config
    /\ rows.access \subseteq (DOMAIN rows.config) \X rows.services
    /\ sent \in 0..MaxRequests
    /\ request.kind \in {"none", "create", "update", "delete"}
    /\ request.envs \subseteq Envs
    /\ request.updates \in Updates \cup {<<>>}
    /\ status \in {"none", "in_progress", "success", "failed"}
    /\ phase \in Phases /\ (phase = "idle" <=> status # "in_progress")
    /\ done \subseteq KeptClaims \cup RemovedClaims
    /\ overlay \in [Envs -> SUBSET Services]
    /\ inject \in [Envs -> [Slugs -> SUBSET Services]]
    /\ merged \in BOOLEAN
    /\ xr \in [Instances -> {"absent", "settling", "ready", "lingering", "terminating"}]
    /\ secret \in [Envs \X Slugs -> SUBSET Fields]
    /\ key \in [Envs \X Slugs -> BOOLEAN]
    /\ strayed \subseteq Capabilities
    /\ misread \subseteq Instances

\* The environment of a capability is well defined: whichever edge is found
\* first, it leads to the same one.  Everything that is derived from edges
\* (claims, namespaces, removals, purges) rests on this.  The code breaks it in
\* one way: a patch whose names another environment's services answer to.  What
\* becomes of such a capability depends on the edge that is found; the properties
\* below promise nothing of it (strayed), and all of the others beside it.
OneEnvironmentEach ==
    \A c \in DOMAIN rows.config \ strayed : \A s, t \in Accessors(rows, c) : s[1] = t[1]

Reachable(c) == c \in DOMAIN rows.config /\ Accessors(rows, c) # {}

Twin(c, d) == d # c /\ d.type = c.type /\ EnvsOf(rows, d) \cap EnvsOf(rows, c) # {}

\* No step leaves a capability behind without an accessor, where nobody would
\* see it and its infrastructure would be paid for ever: over the whole way
\* from the validation of a removal to its purge.  A second capability of the
\* type in the environment is not protected: the orphan rule counts grants that
\* the upsert gives to the other one.  Nor is one bound across environments.
NoOrphaning ==
    [][\A c \in DOMAIN rows.config :
          /\ Reachable(c) /\ c \in DOMAIN rows'.config \ strayed'
          /\ ~\E d \in DOMAIN rows.config : Twin(c, d)
          => Reachable(c)']_vars

\* A slug may be shared, by a queue and a database of the same name.
Owned(c, s) ==
    \A d \in DOMAIN rows.config \ {c} :
       d.env = c.env \/ d \in strayed => s \notin rows.config[d]

\* SUCCESS of a create or an update means that the application has what its rows
\* say: every service is deployed in its environment (once the pull request is
\* merged), every instance is ready, its connection is stored and every accessor is
\* injected.  An instance may be missing only if the check was deceived: an earlier
\* removal, that failed, had begun to delete it, and its conditions did not show.
\* (A delete provisions nothing: what an earlier failed update added elsewhere
\* waits for the next update.)
Provisioned ==
    status = "success" /\ request.kind # "delete" =>
        /\ merged => \A s \in rows.services : s[2] \in overlay[s[1]]
        /\ \A c \in Visible(rows) \ strayed : \A s \in rows.config[c] :
             LET i == Instance(<<c, s>>)
             IN  /\ xr[i] = "ready" \/ i \in misread
                 /\ Owned(c, s) =>
                      /\ "connection" \in secret[<<i[1], s>>]
                      /\ \A svc \in Accessors(rows, c) : svc[2] \in inject[i[1]][s]

\* ... and no access that they do not grant: a claim's patch injects nobody but
\* its accessors, whoever had access before, was revoked or handed over.  One
\* service is excepted, and the code does leave it in: one that this very request
\* removed, whose edges extract still sees.
AccessEnds ==
    status = "success" /\ request.kind # "delete" =>
        \A c \in Visible(rows) \ strayed : \A s \in rows.config[c] :
          LET e == CapabilityEnv(rows, c)
          IN  Owned(c, s) =>
                \A svc \in inject[e][s] :
                  \/ <<e, svc>> \in Accessors(rows, c)
                  \/ \E u \in Entries(request) : u.env = e /\ svc \in u.removeServices

\* What a success takes out of the tables is out of the environments: the overlay
\* no longer deploys the service, nothing injects the capability (once the pull
\* request is merged; a slug that is shared is still injected for the other).
RemovedIsWithdrawn ==
    [][status # "success" /\ status' = "success" /\ merged =>
         /\ \A s \in rows.services \ rows'.services : s[2] \notin overlay'[s[1]]
         /\ \A c \in DOMAIN rows.config \ (DOMAIN rows'.config \cup strayed) :
              \A s \in rows.config[c] : Owned(c, s) => inject'[c.env][s] = {}]_vars

\* A capability's row, the only record of the names to tear down, goes only when
\* every instance it stands for is gone.
PurgeAfterTeardown ==
    [][\A c \in DOMAIN rows.config \ DOMAIN rows'.config :
          \A s \in rows.config[c] : xr[Instance(<<c, s>>)] = "absent"]_vars

\* The secret key AWS told once is kept as long as its access key lives, through
\* every run over the capability, except by the removal of what it belongs to.
StoredKeySurvives ==
    [][\A i \in Envs \X Slugs :
          /\ "key" \in secret[i] /\ key[i] /\ key'[i]
          /\ i[1] \notin request.envs
          /\ \A x \in RemovedClaims : <<Instance(x)[1], x[2]>> # i
          => "key" \in secret'[i]]_vars

\* After a create or an update that succeeded, an environment's overlay deploys
\* the services the environment has and no others.
FootprintMatches ==
    status = "success" /\ request.kind # "delete" =>
        \A e \in Envs : overlay[e] = {s \in Services : <<e, s>> \in rows.services}
=============================================================================
