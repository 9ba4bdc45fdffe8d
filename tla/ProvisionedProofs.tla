-------------------------- MODULE ProvisionedProofs --------------------------
(***************************************************************************)
(* What a success of a create or an update is worth, for every value of    *)
(* the constants of DesiredState: the overlays, instances, secrets and     *)
(* injection patches the rows call for are there, access that was revoked  *)
(* and what was removed are not, and what is shown of a capability is so.  *)
(*                                                                         *)
(* Progress is inductive beside Inv: it says how far the run has come      *)
(* (Deployed after Step 1, Checked behind the check, Stored claim by claim *)
(* in extract), so that the callback finds all of it done.  Exact,         *)
(* Withdrawn and ShownInv rest on it.                                      *)
(***************************************************************************)
EXTENDS DesiredStateProofs, CapabilityStatus

-----------------------------------------------------------------------------
\* The environment of a claim.
At(x) == CapabilityEnv(rows, x[1])

\* No other capability that stays uses the slug of a claim in its environment.
Alone(x) ==
    \A d \in Visible(rows) :
      ~TornDown(d) /\ d # x[1] /\ CapabilityEnv(rows, d) = At(x) => x[2] \notin rows.config[d]

\* A Lambda starts with nothing done.
Fresh == phase \in {"idle", "step1", "check"} => done = {}

\* Step 1 has put the services that stay into the overlays.
Deployed ==
    phase \in {"apply", "check", "extract"} /\ merged /\ request.kind # "delete"
      => \A s \in rows.services \ Leaving : s[2] \in overlay[s[1]]

\* Behind the check, every instance that stays is ready or was taken for it.
Checked ==
    phase = "extract" =>
      \A x \in KeptClaims : xr[Instance(x)] = "ready" \/ Instance(x) \in misread

\* What extract has done stays done.
Stored ==
    phase = "extract" =>
      \A x \in KeptClaims \cap done :
        /\ "connection" \in secret[<<At(x), x[2]>>]
        /\ Alone(x) => NamesIn(At(x), Accessors(rows, x[1])) \subseteq inject[At(x)][x[2]]

Progress == Fresh /\ Deployed /\ Checked /\ Stored /\ Provisioned

\* A claim and its instance.
LEMMA ClaimParts ==
  ASSUME Inv, NEW x \in KeptClaims \cup RemovedClaims
  PROVE  /\ x = <<x[1], x[2]>> /\ x[1] \in Visible(rows) /\ x[2] \in rows.config[x[1]]
         /\ At(x) \in Envs /\ x[2] \in Slugs
         /\ Instance(x) = <<At(x), x[1].type, x[2]>> /\ Instance(x) \in Instances
<1>1. WellFormed(rows)
  BY InvSound DEF Sound
<1>2. PICK c \in Visible(rows) : x \in Claims(c)
  BY DEF KeptClaims, RemovedClaims
<1>3. x = <<x[1], x[2]>> /\ x[1] \in Visible(rows) /\ x[2] \in rows.config[x[1]]
  BY <1>2 DEF Claims
<1>4. /\ CapabilityEnv(rows, x[1]) \in Envs /\ x[2] \in Slugs
      /\ Instance(x) = <<CapabilityEnv(rows, x[1]), x[1].type, x[2]>>
      /\ Instance(x) \in Instances
  BY <1>1, ClaimTyped
<1> QED BY <1>3, <1>4 DEF At

\* They carry the environment of the capability's row, if it is not astray.
LEMMA ClaimHome ==
  ASSUME Inv, NEW c \in Visible(rows) \ strayed, NEW s
  PROVE  /\ CapabilityEnv(rows, c) = c.env
         /\ Instance(<<c, s>>) = <<c.env, c.type, s>>
<1>1. CapabilityEnv(rows, c) = c.env
  BY InvSound, EnvHome DEF Sound
<1> QED BY <1>1 DEF Instance

\* The overlay's names of services of its own environment are their base names.
LEMMA OwnNames ==
  ASSUME NEW e, NEW services, services \subseteq Service, \A s \in services : s[1] = e
  PROVE  NamesIn(e, services) = {s[2] : s \in services}
<1>1. \A s \in services : s = <<e, s[2]>> /\ s[2] \in Services
  BY DEF Service
<1>2. ASSUME NEW n \in NamesIn(e, services)
      PROVE  n \in {s[2] : s \in services}
  <2>1. <<e, n>> \in services
    BY <1>2 DEF NamesIn
  <2> QED BY <2>1
<1>3. ASSUME NEW s \in services
      PROVE  s[2] \in NamesIn(e, services)
  BY <1>1 DEF NamesIn
<1> QED BY <1>2, <1>3

\* So the accessors of a capability that is not astray go by them.
LEMMA AccessorNames ==
  ASSUME Inv, NEW c \in Visible(rows) \ strayed
  PROVE  NamesIn(c.env, Accessors(rows, c)) = {s[2] : s \in Accessors(rows, c)}
<1>1. Accessors(rows, c) \subseteq Service
  BY InvSound, AccessorsTyped DEF Sound
<1>2. \A s \in Accessors(rows, c) : s[1] = c.env
  BY EnvsHome DEF Inv
<1> QED BY <1>1, <1>2, OwnNames

\* A claim that is kept belongs to a capability that is not torn down.
LEMMA KeptStays ==
  ASSUME NEW x \in KeptClaims
  PROVE  x[1] \in Visible(rows) /\ ~TornDown(x[1])
<1>1. PICK c \in Visible(rows) : ~TornDown(c) /\ x \in Claims(c)
  BY DEF KeptClaims
<1> QED BY <1>1 DEF Claims

\* One that is removed belongs to a capability that is.
LEMMA RemovedGoes ==
  ASSUME NEW x \in RemovedClaims
  PROVE  x[1] \in Visible(rows) /\ TornDown(x[1])
<1>1. PICK c \in Visible(rows) : TornDown(c) /\ x \in Claims(c)
  BY DEF RemovedClaims
<1> QED BY <1>1 DEF Claims

\* A step of a run that leaves rows and request alone, and takes nothing back,
\* keeps what the run has reached.
LEMMA RunKeeps ==
  ASSUME Inv, Progress,
         UNCHANGED <<rows, strayed, misread, request, merged, overlay, inject, secret>>,
         status' = "success" => status = "success",
         phase' \in {"apply", "check", "extract"} => phase \in {"apply", "check", "extract"},
         phase' = "extract" => phase = "extract",
         phase' \in {"idle", "step1", "check"} => done' = {},
         done' \subseteq done \/ phase' # "extract",
         \A i \in Instances : xr[i] = "ready" => xr'[i] = "ready"
  PROVE  Progress'
<1>1. /\ KeptClaims' = KeptClaims /\ \A x : Instance(x)' = Instance(x)
      /\ \A c : TornDown(c)' = TornDown(c)
      /\ Leaving' = Leaving
  BY ClaimsStay DEF TornDown, Leaving, Entries
<1>2. \A x \in KeptClaims : Instance(x) \in Instances
  BY ClaimParts
<1>3. /\ Visible(rows)' = Visible(rows)
      /\ \A x : At(x)' = At(x) /\ Alone(x)' = Alone(x)
  BY <1>1 DEF Alone, At
<1>4. Fresh' /\ Deployed'
  BY <1>1 DEF Progress, Fresh, Deployed
<1>5. Checked'
  BY <1>1, <1>2 DEF Progress, Checked
<1>6. Stored'
  BY <1>1, <1>3 DEF Progress, Stored
<1>7. Provisioned'
  <2> SUFFICES ASSUME status' = "success", request.kind # "delete"
               PROVE  Provisioned'
    BY DEF Provisioned
  <2>1. /\ merged => \A s \in rows.services : s[2] \in overlay[s[1]]
        /\ \A c \in Visible(rows) \ strayed : \A s \in rows.config[c] :
             LET i == Instance(<<c, s>>)
             IN  /\ xr[i] = "ready" \/ i \in misread
                 /\ Owned(c, s) =>
                      /\ "connection" \in secret[<<i[1], s>>]
                      /\ \A svc \in Accessors(rows, c) : svc[2] \in inject[i[1]][s]
    BY DEF Progress, Provisioned
  <2>2. \A c \in Visible(rows) : \A s \in rows.config[c] : Instance(<<c, s>>) \in Instances
    <3> TAKE c \in Visible(rows)
    <3> TAKE s \in rows.config[c]
    <3>1. <<c, s>> \in Claims(c)
      BY DEF Claims
    <3>2. <<c, s>> \in KeptClaims \cup RemovedClaims
      BY <3>1 DEF KeptClaims, RemovedClaims
    <3> QED BY <3>2, ClaimParts
  <2>3. \A c, s : Owned(c, s)' = Owned(c, s)
    BY DEF Owned
  <2> QED BY <1>1, <1>3, <2>1, <2>2, <2>3 DEF Provisioned
<1> QED BY <1>4, <1>5, <1>6, <1>7 DEF Progress

\* A submission starts over.
LEMMA CommitProgress ==
  ASSUME NEW r, NEW db, Commit(r, db)
  PROVE  Progress'
  BY DEF Commit, Progress, Fresh, Deployed, Checked, Stored, Provisioned

\* Step 1 pushes the overlays of the services that stay.
LEMMA Step1Progress == ASSUME Inv, Progress, Step1 PROVE Progress'
<1>1. /\ phase = "step1" /\ phase' = "apply" /\ status = "in_progress"
      /\ UNCHANGED <<rows, request, status>>
  BY DEF Step1, Inv, TypeOK, runVars
<1>2. Deployed'
  <2> SUFFICES ASSUME merged', request.kind # "delete", NEW s \in rows.services \ Leaving'
               PROVE  s[2] \in overlay'[s[1]]
    BY <1>1 DEF Deployed
  <2>1. Leaving' = Leaving
    BY <1>1 DEF Leaving, Entries
  <2>2. Publish
    BY DEF Step1
  <2>3. s \in Service /\ s = <<s[1], s[2]>> /\ s[1] \in Envs
    BY InvSound DEF Sound, WellFormed, Service
  <2>4. s[1] \in Environments /\ s[2] \in BaseServices
    BY <2>1 DEF Environments, BaseServices
  <2>5. s[2] \in Overlay(s[1])
    BY <2>1, <2>3, <2>4 DEF Overlay
  <2> QED BY <2>2, <2>3, <2>5 DEF Publish
<1>3. Fresh' /\ Checked' /\ Stored' /\ Provisioned'
  BY <1>1 DEF Fresh, Checked, Stored, Provisioned
<1> QED BY <1>2, <1>3 DEF Progress

\* Until check has passed, only the overlays count.
LEMMA ApplyProgress ==
  ASSUME Inv, Progress, phase = "apply", phase' \in {"apply", "check"},
         phase' = "check" => done' = {},
         UNCHANGED <<rows, request, status, overlay, merged>>
  PROVE  Progress'
<1>1. status # "success" /\ Leaving' = Leaving
  BY DEF Inv, TypeOK, Leaving, Entries
<1> QED BY <1>1 DEF Progress, Fresh, Deployed, Checked, Stored, Provisioned

\* Check passes only if all claims that are kept read ready.
LEMMA CheckProgress == ASSUME Inv, Progress, CheckReady PROVE Progress'
<1>1. /\ phase = "check" /\ phase' = "extract" /\ done' = {} /\ status' # "success"
      /\ UNCHANGED <<rows, request, overlay, merged, xr>>
      /\ \A x \in KeptClaims : xr[Instance(x)] \in {"ready", "lingering"}
      /\ misread' = {Instance(x) : x \in {y \in KeptClaims : xr[Instance(y)] = "lingering"}}
  BY DEF CheckReady, ReadsReady, Progress, Fresh, Inv, TypeOK, gitVars
<1>2. KeptClaims' = KeptClaims /\ (\A x : Instance(x)' = Instance(x)) /\ Leaving' = Leaving
  BY <1>1, ClaimsStay DEF Leaving, Entries
<1> QED BY <1>1, <1>2 DEF Progress, Fresh, Deployed, Checked, Stored, Provisioned

\* A claim adds its own fields and patch; it overwrites the patch of another
\* claim only where two capabilities use one slug.
LEMMA ExtractProgress ==
  ASSUME Inv, Progress, NEW x \in KeptClaims, ExtractClaim(x)
  PROVE  Progress'
<1> DEFINE c == x[1]
           e == At(x)
           i == <<e, x[2]>>
           set == NamesIn(e, Accessors(rows, c))
<1>1. /\ x = <<c, x[2]>> /\ c \in Visible(rows) /\ x[2] \in rows.config[c]
      /\ e \in Envs /\ x[2] \in Slugs
  BY ClaimParts
<1>2. /\ phase = "extract" /\ phase' = "extract" /\ status # "success"
      /\ secret' = [secret EXCEPT ![i] = StoreSecret(x, i)]
      /\ inject' = [inject EXCEPT ![e][x[2]] = set]
      /\ done' = done \cup {x}
      /\ UNCHANGED <<rows, strayed, misread, request, status, overlay, merged, xr>>
  BY DEF ExtractClaim, At, Handled, runVars, Inv, TypeOK
<1>3. /\ KeptClaims' = KeptClaims /\ \A y : Instance(y)' = Instance(y)
      /\ \A d : TornDown(d)' = TornDown(d)
      /\ Leaving' = Leaving
  BY <1>2, ClaimsStay DEF TornDown, Leaving, Entries
<1>4. Visible(rows)' = Visible(rows) /\ \A y : At(y)' = At(y) /\ Alone(y)' = Alone(y)
  BY <1>2, <1>3 DEF Alone, At
<1>5. ~TornDown(c)
  BY KeptStays
<1>6. /\ secret \in [Envs \X Slugs -> SUBSET Fields]
      /\ inject \in [Envs -> [Slugs -> SUBSET Services]]
  BY DEF Inv, TypeOK
<1>7. "connection" \in secret'[i] /\ inject'[e][x[2]] = set
  BY <1>1, <1>2, <1>6 DEF StoreSecret, Credentials
<1>8. \A j \in Envs \X Slugs : secret[j] \subseteq secret'[j]
  BY <1>1, <1>2, <1>6 DEF StoreSecret
<1>9. \A f \in Envs, s \in Slugs : <<f, s>> # i => inject'[f][s] = inject[f][s]
  BY <1>2, <1>6
<1>10. ASSUME NEW y \in KeptClaims \cap done'
       PROVE  /\ "connection" \in secret'[<<At(y), y[2]>>]
              /\ Alone(y) => NamesIn(At(y), Accessors(rows, y[1]))
                               \subseteq inject'[At(y)][y[2]]
  <2>1. CASE y = x
    BY <1>7, <2>1
  <2>2. CASE y # x
    <3>1. /\ y = <<y[1], y[2]>> /\ At(y) \in Envs /\ y[2] \in Slugs
      BY ClaimParts
    <3>2. y \in KeptClaims \cap done
      BY <1>2, <2>2
    <3>3. /\ "connection" \in secret[<<At(y), y[2]>>]
          /\ Alone(y) => NamesIn(At(y), Accessors(rows, y[1])) \subseteq inject[At(y)][y[2]]
      BY <1>2, <3>2 DEF Progress, Stored
    <3>4. "connection" \in secret'[<<At(y), y[2]>>]
      BY <1>8, <3>1, <3>3
    <3>5. CASE <<At(y), y[2]>> = i
      <4>1. y[1] # c /\ e = At(y) /\ y[2] \in rows.config[c]
        BY <1>1, <2>2, <3>1, <3>5
      <4>2. ~Alone(y)
        BY <1>1, <1>5, <4>1 DEF Alone, At
      <4> QED BY <3>4, <4>2
    <3>6. CASE <<At(y), y[2]>> # i
      <4>1. inject'[At(y)][y[2]] = inject[At(y)][y[2]]
        BY <1>9, <3>1, <3>6
      <4> QED BY <3>3, <3>4, <4>1
    <3> QED BY <3>5, <3>6
  <2> QED BY <2>1, <2>2
<1>11. Stored'
  BY <1>2, <1>3, <1>4, <1>10 DEF Stored
<1>12. Fresh' /\ Deployed' /\ Checked' /\ Provisioned'
  BY <1>2, <1>3 DEF Progress, Fresh, Deployed, Checked, Provisioned
<1> QED BY <1>11, <1>12 DEF Progress

\* Whoever is visible after the purge was so before, was not to be torn down and
\* has its claims still.
LEMMA PurgeKeeps ==
  ASSUME Inv, rows' = Purged, NEW c \in Visible(rows')
  PROVE  /\ c \in Visible(rows) /\ ~TornDown(c)
         /\ Accessors(rows', c) \subseteq Accessors(rows, c)
         /\ rows'.config[c] = rows.config[c]
         /\ c \notin strayed => CapabilityEnv(rows', c) = c.env
<1> DEFINE caps == {d \in Visible(rows) : TornDown(d)}
<1>1. /\ rows'.services = rows.services \ Leaving
      /\ DOMAIN rows'.config = DOMAIN rows.config \ caps
      /\ \A d \in DOMAIN rows.config \ caps : rows'.config[d] = rows.config[d]
      /\ rows'.access \subseteq rows.access
  BY DEF Purged
<1>2. c \notin strayed => CapabilityEnv(rows', c) = c.env
  BY InvSound, PurgedRows, EnvHome
<1>3. Accessors(rows', c) \subseteq Accessors(rows, c)
  BY <1>1 DEF Accessors
<1>4. c \in DOMAIN rows.config \ caps /\ Accessors(rows', c) # {}
  BY <1>1 DEF Visible
<1> QED BY <1>1, <1>2, <1>3, <1>4 DEF Visible

\* A slug that a capability of the tables owns is its alone among those that stay.
LEMMA OwnedAlone ==
  ASSUME Inv, NEW c \in Visible(rows) \ strayed, NEW s, Owned(c, s)
  PROVE  Alone(<<c, s>>)
<1> SUFFICES ASSUME NEW d \in Visible(rows), d # c,
                    CapabilityEnv(rows, d) = CapabilityEnv(rows, c)
             PROVE  s \notin rows.config[d]
  BY DEF Alone, At
<1>1. d \notin strayed => d.env = c.env
  BY ClaimHome
<1> QED BY <1>1 DEF Owned, Visible

\* So is a slug that it owns after the purge.
LEMMA StaysAlone ==
  ASSUME Inv, rows' = Purged, strayed' = strayed,
         NEW c \in Visible(rows) \ strayed, NEW s, Owned(c, s)'
  PROVE  Alone(<<c, s>>)
<1> DEFINE caps == {d \in Visible(rows) : TornDown(d)}
<1>1. /\ DOMAIN rows'.config = DOMAIN rows.config \ caps
      /\ \A d \in DOMAIN rows.config \ caps : rows'.config[d] = rows.config[d]
  BY DEF Purged
<1> SUFFICES ASSUME NEW d \in Visible(rows), ~TornDown(d), d # c,
                    CapabilityEnv(rows, d) = CapabilityEnv(rows, c)
             PROVE  s \notin rows.config[d]
  BY DEF Alone, At
<1>2. d \in DOMAIN rows.config \ caps
  BY DEF Visible
<1>3. d \notin strayed => d.env = c.env
  BY ClaimHome
<1> QED BY <1>1, <1>2, <1>3 DEF Owned

\* The callback finds everything in place and purges only what was to go.
LEMMA SucceedProgress == ASSUME Inv, Progress, Succeed PROVE Progress'
<1> DEFINE caps == {c \in Visible(rows) : TornDown(c)}
<1>1. /\ phase = "extract" /\ phase' = "idle" /\ done' = {} /\ rows' = Purged
      /\ request.kind # "delete" => KeptClaims \subseteq done
      /\ UNCHANGED <<strayed, misread, request, overlay, inject, merged, xr, secret>>
  BY DEF Succeed, gitVars, credVars
<1>2. /\ rows'.services = rows.services \ Leaving
      /\ DOMAIN rows'.config = DOMAIN rows.config \ caps
      /\ \A c \in DOMAIN rows.config \ caps : rows'.config[c] = rows.config[c]
      /\ rows'.access \subseteq rows.access
  BY <1>1 DEF Purged
<1>4. \A c \in Visible(rows') :
        /\ c \in Visible(rows) /\ ~TornDown(c)
        /\ Accessors(rows', c) \subseteq Accessors(rows, c)
        /\ rows'.config[c] = rows.config[c]
        /\ c \notin strayed => CapabilityEnv(rows', c) = c.env
  BY <1>1, PurgeKeeps
<1>5. Provisioned'
  <2> SUFFICES ASSUME request.kind # "delete"
               PROVE  Provisioned'
    BY <1>1 DEF Provisioned
  <2>1. merged => \A s \in rows'.services : s[2] \in overlay[s[1]]
    BY <1>1, <1>2 DEF Progress, Deployed
  <2>2. ASSUME NEW c \in Visible(rows') \ strayed, NEW s \in rows'.config[c]
        PROVE  /\ Instance(<<c, s>>)' = <<c.env, c.type, s>>
               /\ xr[<<c.env, c.type, s>>] = "ready" \/ <<c.env, c.type, s>> \in misread
               /\ Owned(c, s)' =>
                    /\ "connection" \in secret[<<c.env, s>>]
                    /\ \A svc \in Accessors(rows', c) : svc[2] \in inject[c.env][s]
    <3> DEFINE x == <<c, s>>
    <3>1. x \in KeptClaims
      BY <1>4 DEF KeptClaims, Claims
    <3>2. Instance(x) = <<c.env, c.type, s>> /\ At(x) = c.env
      BY <1>4, ClaimHome DEF At
    <3>3. xr[<<c.env, c.type, s>>] = "ready" \/ <<c.env, c.type, s>> \in misread
      BY <1>1, <3>1, <3>2 DEF Progress, Checked
    <3>4. Instance(x)' = <<c.env, c.type, s>>
      BY <1>4 DEF Instance
    <3>5. /\ "connection" \in secret[<<c.env, s>>]
          /\ Alone(x) => \A svc \in Accessors(rows, c) : svc[2] \in inject[c.env][s]
      <4>1. /\ "connection" \in secret[<<c.env, s>>]
            /\ Alone(x) => NamesIn(c.env, Accessors(rows, c)) \subseteq inject[c.env][s]
        BY <1>1, <3>1, <3>2 DEF Progress, Stored
      <4>2. \A svc \in Accessors(rows, c) : svc[2] \in NamesIn(c.env, Accessors(rows, c))
        BY <1>4, AccessorNames
      <4> QED BY <4>1, <4>2
    <3>6. Owned(c, s)' => Alone(x)
      BY <1>1, <1>4, StaysAlone
    <3> QED BY <1>4, <3>3, <3>4, <3>5, <3>6
  <2>3. Visible(rows)' = Visible(rows') /\ \A c : Accessors(rows, c)' = Accessors(rows', c)
    OBVIOUS
  <2>4. ASSUME NEW c \in Visible(rows)' \ strayed', NEW s \in rows'.config[c]
        PROVE  LET i == Instance(<<c, s>>)'
               IN  /\ xr'[i] = "ready" \/ i \in misread'
                   /\ Owned(c, s)' =>
                        /\ "connection" \in secret'[<<i[1], s>>]
                        /\ \A svc \in Accessors(rows, c)' : svc[2] \in inject'[i[1]][s]
    <3> DEFINE i == <<c.env, c.type, s>>
    <3>1. Instance(<<c, s>>)' = i /\ i[1] = c.env
      BY <1>1, <2>2, <2>3
    <3>2. /\ xr'[i] = "ready" \/ i \in misread'
          /\ Owned(c, s)' =>
               /\ "connection" \in secret'[<<c.env, s>>]
               /\ \A svc \in Accessors(rows, c)' : svc[2] \in inject'[c.env][s]
      BY <1>1, <2>2, <2>3
    <3> HIDE DEF i
    <3> QED BY <3>1, <3>2
  <2> HIDE DEF caps
  <2> QED BY <1>1, <2>1, <2>4 DEF Provisioned
<1>6. Fresh' /\ Deployed' /\ Checked' /\ Stored'
  BY <1>1 DEF Fresh, Deployed, Checked, Stored
<1> QED BY <1>5, <1>6 DEF Progress

\* Crossplane makes instances ready and lets those go that are deleted.
LEMMA CrossplaneProgress ==
  ASSUME Inv, Progress, NEW i \in Instances, Settle(i) \/ Notice(i) \/ Vanish(i)
  PROVE  Progress'
<1>1. /\ xr[i] # "ready"
      /\ UNCHANGED <<rows, strayed, misread, request, status, phase, done, overlay, inject,
                     merged, secret>>
  BY DEF Settle, Notice, Vanish, runVars, gitVars, credVars
<1>2. \A j \in Instances : xr[j] = "ready" => xr'[j] = "ready"
  BY <1>1 DEF Settle, Notice, Vanish, Inv, TypeOK
<1>3. phase' \in {"idle", "step1", "check"} => done' = {}
  BY <1>1 DEF Progress, Fresh
<1> QED BY <1>1, <1>2, <1>3, RunKeeps

\* Progress is inductive relative to Inv.
LEMMA NextProgress == Inv /\ Progress /\ [Next]_vars => Progress'
<1> SUFFICES ASSUME Inv, Progress, [Next]_vars PROVE Progress'
  OBVIOUS
<1>1. CASE Submit
  BY <1>1, CommitProgress DEF Submit, Create, Update, Delete
<1>2. CASE Step1
  BY <1>2, Step1Progress
<1>3. ASSUME NEW x \in KeptClaims, ApplyClaim(x)
      PROVE  Progress'
  BY <1>3, ApplyProgress DEF ApplyClaim, runVars, gitVars
<1>4. ASSUME NEW x \in RemovedClaims, DeleteClaim(x)
      PROVE  Progress'
  BY <1>4, ApplyProgress DEF DeleteClaim, runVars, gitVars
<1>5. CASE EndApply
  BY <1>5, ApplyProgress DEF EndApply, runVars, gitVars
<1>6. CASE CheckReady
  BY <1>6, CheckProgress
<1>7. ASSUME NEW x \in KeptClaims, ExtractClaim(x)
      PROVE  Progress'
  BY <1>7, ExtractProgress
<1>8. ASSUME \/ \E x \in KeptClaims : ExtractDies(x)
             \/ Retry
             \/ Fail
             \/ UNCHANGED vars
      PROVE  Progress'
  <2>1. /\ UNCHANGED <<rows, strayed, misread, request, merged, overlay, inject, secret, xr>>
        /\ \/ phase' = phase /\ done' \in {done, {}} /\ status' = status
           \/ phase' = "idle" /\ done' = {} /\ status' = "failed"
    BY <1>8 DEF ExtractDies, Retry, Fail, vars, runVars, gitVars, credVars
  <2>2. phase' \in {"idle", "step1", "check"} => done' = {}
    BY <2>1 DEF Progress, Fresh
  <2> QED BY <2>1, <2>2, RunKeeps
<1>9. CASE Succeed
  BY <1>9, SucceedProgress
<1>10. CASE \E i \in Instances : Settle(i) \/ Notice(i) \/ Vanish(i)
  BY <1>10, CrossplaneProgress
<1> QED BY <1>1, <1>2, <1>3, <1>4, <1>5, <1>6, <1>7, <1>8, <1>9, <1>10 DEF Next

\* A create or an update that reports success has provisioned what the rows say,
\* whatever failed, died or was skipped on the way: overlays, instances,
\* connections and injection patches.  Excepted are instances whose deletion the
\* check could not see, and capabilities bound across environments.
THEOREM SuccessProvisions == Spec => []Provisioned
<1>1. Init => Progress
  BY DEF Init, Progress, Fresh, Deployed, Checked, Stored, Provisioned
<1>2. Progress => Provisioned
  BY DEF Progress
<1> QED BY <1>1, <1>2, Invariance, NextProgress, PTL DEF Spec
-----------------------------------------------------------------------------
(* What a success takes away.  Exact and Withdrawn say, of the patches and  *)
(* the overlays, what Stored and Deployed leave open: that there is no more *)
(* in them than the run means to be there.                                  *)

\* A claim that extract has done injects its accessors and nobody else.
Exact ==
    phase = "extract" =>
      \A x \in KeptClaims \cap done :
        Alone(x) => inject[At(x)][x[2]] = NamesIn(At(x), Accessors(rows, x[1]))

\* What Step 1 withdrew does not come back while the run lasts.
Withdrawn ==
    phase \in {"apply", "check", "extract"} /\ merged =>
      /\ \A s \in Leaving : s[2] \notin overlay[s[1]]
      /\ \A x \in RemovedClaims : Alone(x) => inject[At(x)][x[2]] = {}

Revocation == Exact /\ Withdrawn /\ AccessEnds

\* A step that leaves rows, request and the tree alone, and that claims nothing
\* to be done, keeps all of it.
LEMMA RunRevokes ==
  ASSUME Inv, Revocation, UNCHANGED <<rows, strayed, request, merged, overlay, inject>>,
         status' = "success" => status = "success",
         phase' \in {"apply", "check", "extract"} => phase \in {"apply", "check", "extract"},
         phase' = "extract" => done' = {} \/ (phase = "extract" /\ done' \subseteq done)
  PROVE  Revocation'
<1>1. /\ KeptClaims' = KeptClaims /\ RemovedClaims' = RemovedClaims
      /\ \A c : TornDown(c)' = TornDown(c)
      /\ Leaving' = Leaving
  BY ClaimsStay DEF TornDown, Leaving, Entries
<1>2. \A x : At(x)' = At(x) /\ Alone(x)' = Alone(x)
  BY <1>1 DEF Alone, At
<1>3. Exact'
  BY <1>1, <1>2 DEF Revocation, Exact
<1>4. Withdrawn'
  BY <1>1, <1>2 DEF Revocation, Withdrawn
<1>5. AccessEnds'
  BY DEF Revocation, AccessEnds, Owned, Entries
<1> QED BY <1>3, <1>4, <1>5 DEF Revocation

\* A submission starts over.
LEMMA CommitRevokes ==
  ASSUME NEW r, NEW db, Commit(r, db)
  PROVE  Revocation'
  BY DEF Commit, Revocation, Exact, Withdrawn, AccessEnds

\* The overlays Step 1 pushes deploy no service that is to leave.
LEMMA PublishWithdraws ==
  ASSUME Inv, Publish, NEW s \in Leaving
  PROVE  s[2] \notin overlay'[s[1]]
<1>1. s \in Service /\ s = <<s[1], s[2]>> /\ s[1] \in Envs
  BY InvSound DEF Sound, WellFormed, Service, Leaving
<1>2. CASE request.kind = "delete"
  <2>1. Stripped(s[1])
    BY <1>2 DEF Leaving, Stripped
  <2> QED BY <1>1, <1>2, <2>1 DEF Publish
<1>3. CASE request.kind # "delete"
  <2>1. s[2] \notin Overlay(s[1])
    BY <1>1 DEF Overlay
  <2> QED BY <1>1, <1>3, <2>1 DEF Publish
<1> QED BY <1>2, <1>3

\* The same push empties the patches of the capabilities that are to go.
LEMMA PublishEmpties ==
  ASSUME Inv, Publish, NEW x \in RemovedClaims
  PROVE  inject'[At(x)][x[2]] = {}
<1> DEFINE e == At(x)
<1>1. e \in Envs /\ x[2] \in Slugs /\ Instance(x)[1] = e
  BY ClaimParts
<1>2. TornDown(x[1])
  <2>1. PICK c \in Visible(rows) : TornDown(c) /\ x \in Claims(c)
    BY DEF RemovedClaims
  <2> QED BY <2>1 DEF Claims
<1>3. request.kind = "delete" => Stripped(e)
  BY <1>2 DEF TornDown, Stripped, At
<1>4. inject'[e] = Extras(e, overlay'[e])
  BY <1>1, <1>3 DEF Publish
<1>5. Extras(e, overlay'[e])[x[2]] = {}
  BY <1>1 DEF Extras, NoInject
<1> QED BY <1>4, <1>5

\* Step 1 has nothing to keep, and withdraws if its push is merged.
LEMMA Step1Revokes == ASSUME Inv, Revocation, Step1 PROVE Revocation'
<1>1. /\ phase' = "apply" /\ status' # "success"
      /\ UNCHANGED <<rows, request>>
      /\ merged' => Publish
  BY DEF Step1, Inv, TypeOK, runVars
<1>2. RemovedClaims' = RemovedClaims /\ Leaving' = Leaving /\ \A x : At(x)' = At(x)
  BY <1>1, ClaimsStay DEF Leaving, Entries, At
<1>3. Withdrawn'
  BY <1>1, <1>2, PublishWithdraws, PublishEmpties DEF Withdrawn
<1>4. Exact' /\ AccessEnds'
  BY <1>1 DEF Exact, AccessEnds
<1> QED BY <1>3, <1>4 DEF Revocation

\* A claim writes its accessors into a patch of its own: one that another claim
\* alone stands for, kept or to be torn down, is a different one.
LEMMA ExtractRevokes ==
  ASSUME Inv, Revocation, NEW x \in KeptClaims, ExtractClaim(x)
  PROVE  Revocation'
<1> DEFINE c == x[1]
           e == At(x)
           i == <<e, x[2]>>
           set == NamesIn(e, Accessors(rows, c))
<1>1. /\ x = <<c, x[2]>> /\ c \in Visible(rows) /\ x[2] \in rows.config[c]
      /\ e \in Envs /\ x[2] \in Slugs
      /\ ~TornDown(c)
  BY ClaimParts, KeptStays
<1>2. /\ phase = "extract" /\ phase' = "extract" /\ status' # "success"
      /\ inject' = [inject EXCEPT ![e][x[2]] = set]
      /\ done' = done \cup {x}
      /\ UNCHANGED <<rows, request, overlay, merged>>
  BY DEF ExtractClaim, At, Handled, runVars, Inv, TypeOK
<1>3. /\ KeptClaims' = KeptClaims /\ RemovedClaims' = RemovedClaims
      /\ \A d : TornDown(d)' = TornDown(d)
      /\ Leaving' = Leaving
  BY <1>2, ClaimsStay DEF TornDown, Leaving, Entries
<1>4. Visible(rows)' = Visible(rows) /\ \A y : At(y)' = At(y) /\ Alone(y)' = Alone(y)
  BY <1>2, <1>3 DEF Alone, At
<1>5. inject \in [Envs -> [Slugs -> SUBSET Services]]
  BY DEF Inv, TypeOK
<1>6. inject'[e][x[2]] = set
  BY <1>1, <1>2, <1>5
<1>7. ASSUME NEW y \in KeptClaims \cup RemovedClaims, Alone(y), y # x
      PROVE  inject'[At(y)][y[2]] = inject[At(y)][y[2]]
  <2>1. y = <<y[1], y[2]>> /\ At(y) \in Envs /\ y[2] \in Slugs
    BY ClaimParts
  <2>2. <<At(y), y[2]>> # i
    <3> SUFFICES ASSUME <<At(y), y[2]>> = i PROVE FALSE
      OBVIOUS
    <3>1. y[1] # c /\ e = At(y) /\ y[2] \in rows.config[c]
      BY <1>1, <1>7, <2>1
    <3> QED BY <1>1, <1>7, <3>1 DEF Alone, At
  <2> QED BY <1>1, <1>2, <1>5, <2>1, <2>2
<1>8. Exact'
  <2> SUFFICES ASSUME NEW y \in KeptClaims \cap done', Alone(y)
               PROVE  inject'[At(y)][y[2]] = NamesIn(At(y), Accessors(rows, y[1]))
    BY <1>2, <1>3, <1>4 DEF Exact
  <2>1. CASE y = x
    BY <1>6, <2>1
  <2>2. CASE y # x
    <3>1. inject[At(y)][y[2]] = NamesIn(At(y), Accessors(rows, y[1]))
      BY <1>2, <2>2 DEF Revocation, Exact
    <3> QED BY <1>7, <2>2, <3>1
  <2> QED BY <2>1, <2>2
<1>9. Withdrawn'
  <2> SUFFICES ASSUME merged, NEW y \in RemovedClaims, Alone(y)
               PROVE  inject'[At(y)][y[2]] = {}
    BY <1>2, <1>3, <1>4 DEF Revocation, Withdrawn
  <2>1. inject[At(y)][y[2]] = {}
    BY <1>2 DEF Revocation, Withdrawn
  <2>2. y # x
    BY <1>1, RemovedGoes
  <2> QED BY <1>7, <2>1, <2>2
<1>10. AccessEnds'
  BY <1>2 DEF AccessEnds
<1> QED BY <1>8, <1>9, <1>10 DEF Revocation

\* The callback finds the patches as extract has left them.
LEMMA SucceedRevokes == ASSUME Inv, Revocation, Succeed PROVE Revocation'
<1> DEFINE caps == {c \in Visible(rows) : TornDown(c)}
<1>1. /\ phase = "extract" /\ phase' = "idle" /\ rows' = Purged
      /\ request.kind # "delete" => KeptClaims \subseteq done
      /\ UNCHANGED <<strayed, request, inject>>
  BY DEF Succeed, gitVars
<1>2. ASSUME request.kind # "delete", NEW c \in Visible(rows') \ strayed, NEW s \in rows'.config[c],
             Owned(c, s)', NEW svc \in inject[c.env][s]
      PROVE  \/ <<c.env, svc>> \in Accessors(rows', c)
             \/ \E u \in Entries(request) : u.env = c.env /\ svc \in u.removeServices
  <2> DEFINE x == <<c, s>>
  <2>1. c \in Visible(rows) /\ ~TornDown(c) /\ rows'.config[c] = rows.config[c]
    BY <1>1, PurgeKeeps
  <2>2. x \in KeptClaims /\ x[1] = c /\ x[2] = s
    BY <2>1 DEF KeptClaims, Claims
  <2>3. Alone(x)
    BY <1>1, <1>2, <2>1, StaysAlone
  <2>4. inject[c.env][s] = {t[2] : t \in Accessors(rows, c)}
    <3>1. At(x) = c.env
      BY <2>1, ClaimHome DEF At
    <3>2. inject[c.env][s] = NamesIn(c.env, Accessors(rows, c))
      BY <1>1, <1>2, <2>2, <2>3, <3>1 DEF Revocation, Exact
    <3> QED BY <2>1, <3>2, AccessorNames
  <2>5. PICK t \in Accessors(rows, c) : t[2] = svc
    BY <2>4
  <2>6. /\ t \in rows.services /\ <<c, t>> \in rows.access
        /\ t \in Service /\ t = <<t[1], t[2]>> /\ t[1] = c.env
    BY InvSound, <2>5 DEF Sound, WellFormed, Home, Service, Accessors
  <2>7. CASE t \in Leaving
    BY <1>2, <2>5, <2>6, <2>7 DEF Leaving
  <2>8. CASE t \notin Leaving
    <3>1. t \in rows'.services /\ <<c, t>> \in rows'.access
      BY <1>1, <2>1, <2>6, <2>8 DEF Purged
    <3> QED BY <2>5, <2>6, <3>1 DEF Accessors
  <2> QED BY <2>7, <2>8
<1>3. \A c \in Visible(rows') \ strayed : CapabilityEnv(rows', c) = c.env
  BY <1>1, InvSound, PurgedRows, EnvHome
<1>4. Visible(rows)' = Visible(rows') /\ Entries(request)' = Entries(request)
  BY <1>1
<1>5. AccessEnds'
  BY <1>1, <1>2, <1>3, <1>4 DEF AccessEnds
<1>6. Exact' /\ Withdrawn'
  BY <1>1 DEF Exact, Withdrawn
<1> QED BY <1>5, <1>6 DEF Revocation

\* Revocation is inductive relative to Inv and Progress.
LEMMA NextRevokes == Inv /\ Progress /\ Revocation /\ [Next]_vars => Revocation'
<1> SUFFICES ASSUME Inv, Progress, Revocation, [Next]_vars PROVE Revocation'
  OBVIOUS
<1>1. CASE Submit
  BY <1>1, CommitRevokes DEF Submit, Create, Update, Delete
<1>2. CASE Step1
  BY <1>2, Step1Revokes
<1>3. ASSUME \/ \E x \in KeptClaims : ApplyClaim(x)
             \/ \E x \in RemovedClaims : DeleteClaim(x)
             \/ EndApply
      PROVE  Revocation'
  <2>1. /\ UNCHANGED <<rows, strayed, request, status, merged, overlay, inject>>
        /\ phase = "apply" /\ phase' \in {"apply", "check"}
    BY <1>3 DEF ApplyClaim, DeleteClaim, EndApply, runVars, gitVars
  <2> QED BY <2>1, RunRevokes
<1>4. CASE CheckReady
  <2>1. /\ UNCHANGED <<rows, strayed, request, status, merged, overlay, inject>>
        /\ phase = "check" /\ done' = {}
    BY <1>4 DEF CheckReady, gitVars, Progress, Fresh
  <2> QED BY <2>1, RunRevokes
<1>5. ASSUME NEW x \in KeptClaims, ExtractClaim(x)
      PROVE  Revocation'
  BY <1>5, ExtractRevokes
<1>6. ASSUME \/ \E x \in KeptClaims : ExtractDies(x)
             \/ Retry
             \/ Fail
             \/ \E i \in Instances : Settle(i) \/ Notice(i) \/ Vanish(i)
             \/ UNCHANGED vars
      PROVE  Revocation'
  <2>1. /\ UNCHANGED <<rows, strayed, request, merged, overlay, inject>>
        /\ \/ phase' = phase /\ done' \in {done, {}} /\ status' = status
           \/ phase' = "idle" /\ status' = "failed"
    BY <1>6 DEF ExtractDies, Retry, Fail, Settle, Notice, Vanish, vars, runVars, gitVars
  <2> QED BY <2>1, RunRevokes
<1>7. CASE Succeed
  BY <1>7, SucceedRevokes
<1> QED BY <1>1, <1>2, <1>3, <1>4, <1>5, <1>6, <1>7 DEF Next

\* The three together hold in every state.
LEMMA Revoking == Spec => [](Inv /\ Progress /\ Revocation)
<1>1. Init => Progress /\ Revocation
  BY DEF Init, Progress, Fresh, Deployed, Checked, Stored, Provisioned,
         Revocation, Exact, Withdrawn, AccessEnds
<1> QED BY <1>1, Invariance, NextProgress, NextRevokes, PTL DEF Spec

\* After a create or an update that succeeded, nobody has the credentials of a
\* capability but its accessors, and the services the request itself removed, of
\* any capability that is not bound across environments.
THEOREM AccessRevoked == Spec => []AccessEnds
<1>1. Revocation => AccessEnds
  BY DEF Revocation
<1> QED BY <1>1, Revoking, PTL

\* What a successful removal deletes from the tables was taken out of the
\* environments before: no overlay deploys it and, unless it was bound across
\* environments, no patch injects it.
THEOREM RemovalWithdraws == Spec => RemovedIsWithdrawn
<1> DEFINE Out ==
      status # "success" /\ status' = "success" /\ merged =>
        /\ \A s \in rows.services \ rows'.services : s[2] \notin overlay'[s[1]]
        /\ \A c \in DOMAIN rows.config \ (DOMAIN rows'.config \cup strayed) :
             \A s \in rows.config[c] : Owned(c, s) => inject'[c.env][s] = {}
<1>1. Inv /\ Progress /\ Revocation /\ [Next]_vars => [Out]_vars
  <2> SUFFICES ASSUME Inv, Revocation, Next,
                      status # "success", status' = "success", merged
               PROVE  Out
    OBVIOUS
  <2>1. Succeed
    BY DEF Next, Submit, Create, Update, Delete, Commit, Step1, ApplyClaim, DeleteClaim,
           EndApply, CheckReady, ExtractClaim, ExtractDies, Retry, Fail, Settle, Notice, Vanish,
           runVars
  <2>2. /\ phase = "extract" /\ rows' = Purged /\ UNCHANGED <<overlay, inject>>
    BY <2>1 DEF Succeed, gitVars
  <2>3. Withdrawn
    BY DEF Revocation
  <2>4. ASSUME NEW s \in rows.services \ rows'.services
        PROVE  s[2] \notin overlay'[s[1]]
    <3>1. s \in Leaving
      BY <2>2 DEF Purged
    <3> QED BY <2>2, <2>3, <3>1 DEF Withdrawn
  <2>5. ASSUME NEW c \in DOMAIN rows.config \ (DOMAIN rows'.config \cup strayed),
               NEW s \in rows.config[c], Owned(c, s)
        PROVE  inject'[c.env][s] = {}
    <3> DEFINE x == <<c, s>>
    <3>1. c \in Visible(rows) /\ TornDown(c)
      BY <2>2 DEF Purged
    <3>2. x \in RemovedClaims /\ x[1] = c /\ x[2] = s
      BY <3>1 DEF RemovedClaims, Claims
    <3>3. Alone(x) /\ At(x) = c.env
      BY <2>5, <3>1, OwnedAlone, ClaimHome DEF At
    <3> QED BY <2>2, <2>3, <3>2, <3>3 DEF Withdrawn
  <2> QED BY <2>4, <2>5
<1>2. Spec => [][Out]_vars
  BY <1>1, Revoking, PTL DEF Spec
<1> QED BY <1>2 DEF RemovedIsWithdrawn

-----------------------------------------------------------------------------
(* What is shown of a capability.                                           *)

Statuses == {"pending", "in_progress", "success", "failed"}

\* StatusIsEarned by the rows' own environments, orphans included.
Earned ==
    \A c \in DOMAIN rows.config \ (undone \cup strayed) : shown[c] = "success" =>
        \A s \in rows.config[c] :
          /\ xr[<<c.env, c.type, s>>] = "ready"
          /\ c \notin early => "connection" \in secret[<<c.env, s>>]

ShownInv ==
    /\ shown \in [DOMAIN rows.config -> Statuses]
    /\ Earned
    /\ SuccessIsShown

\* The runs do not notice what is shown.
LEMMA ShownSteps == [ShownNext]_shownVars => [Next]_vars
<1> SUFFICES ASSUME ShownNext PROVE [Next]_vars
  BY DEF shownVars
<1>1. CASE \E entries \in Creations : ShowCreate(entries)
  BY <1>1 DEF ShowCreate, Next, Submit
<1>2. CASE \E entries \in Updates : ShowUpdate(entries)
  BY <1>2 DEF ShowUpdate, Next, Submit
<1>3. CASE \E x \in RemovedClaims : UndoClaim(x)
  BY <1>3 DEF UndoClaim, Next
<1>4. CASE UndoEnvironment \/ ReportReady \/ ReportAll \/ ReportSome
  BY <1>4 DEF UndoEnvironment, ReportReady, ReportAll, ReportSome, Next
<1>5. CASE Silent
  BY <1>5 DEF Silent, Next, Submit
<1>6. CASE ReportPending
  BY <1>6 DEF ReportPending
<1> QED BY <1>1, <1>2, <1>3, <1>4, <1>5, <1>6 DEF ShownNext

\* A capability extract is through with has all its claims stored, and ready
\* unless the check was deceived.
LEMMA ServedStands ==
  ASSUME Inv, Progress, phase = "extract", NEW c \in Served \ strayed, NEW s \in rows.config[c]
  PROVE  /\ c \notin Misread => xr[<<c.env, c.type, s>>] = "ready"
         /\ "connection" \in secret[<<c.env, s>>]
<1> DEFINE x == <<c, s>>
<1>1. /\ x \in KeptClaims /\ x \in done /\ x \in Claims(c) /\ x[1] = c /\ x[2] = s
      /\ c \in Visible(rows)
  BY DEF Served, Remaining, KeptClaims, Claims
<1>2. Instance(x) = <<c.env, c.type, s>> /\ At(x) = c.env
  BY <1>1, ClaimHome DEF At
<1>3. c \notin Misread => Instance(x) \notin misread
  BY <1>1 DEF Misread
<1> QED BY <1>1, <1>2, <1>3 DEF Progress, Checked, Stored

\* A step that leaves the rows, what is shown and what is there earns it still.
LEMMA EarnedStays ==
  ASSUME Inv, ShownInv, UNCHANGED <<rows, strayed, shown, historyVars>>,
         \A i \in Instances : xr[i] = "ready" => xr'[i] = "ready",
         \A i \in Envs \X Slugs : "connection" \in secret[i] => "connection" \in secret'[i]
  PROVE  Earned' /\ shown' \in [DOMAIN rows'.config -> Statuses]
<1>1. \A c \in DOMAIN rows.config : \A s \in rows.config[c] :
        <<c.env, c.type, s>> \in Instances /\ <<c.env, s>> \in Envs \X Slugs
  BY InvSound DEF Sound, WellFormed, Capabilities, Config, Instances
<1> QED BY <1>1 DEF ShownInv, Earned, historyVars

\* The steps that tell nobody anything take nothing away either.
LEMMA SilentShown ==
  ASSUME Inv, ShownInv, Silent, UNCHANGED <<shown, historyVars>>
  PROVE  ShownInv'
<1>1. /\ UNCHANGED <<rows, strayed>>
      /\ status' = "success" => status = "success" /\ UNCHANGED request
  BY DEF Silent, Delete, Commit, Step1, ApplyClaim, ExtractClaim, ExtractDies, CheckReady,
         Retry, Fail, Settle, Notice, Vanish, runVars
<1>2. \A i \in Instances : xr[i] = "ready" => xr'[i] = "ready"
  <2>1. xr \in [Instances -> {"absent", "settling", "ready", "lingering", "terminating"}]
    BY DEF Inv, TypeOK
  <2>2. CASE \E x \in KeptClaims : ApplyClaim(x)
    BY <2>1, <2>2 DEF ApplyClaim
  <2>3. CASE \E i \in Instances : Settle(i) \/ Notice(i) \/ Vanish(i)
    BY <2>1, <2>3 DEF Settle, Notice, Vanish
  <2>4. CASE UNCHANGED xr
    BY <2>4
  <2> QED BY <2>2, <2>3, <2>4 DEF Silent, Delete, Commit, Step1, ExtractClaim, ExtractDies,
                                  CheckReady, Retry, Fail
<1>3. \A i \in Envs \X Slugs : "connection" \in secret[i] => "connection" \in secret'[i]
  <2>1. secret \in [Envs \X Slugs -> SUBSET Fields]
    BY DEF Inv, TypeOK
  <2>2. CASE \E x \in KeptClaims : ExtractClaim(x)
    BY <2>1, <2>2 DEF ExtractClaim, StoreSecret
  <2>3. CASE UNCHANGED secret
    BY <2>3
  <2> QED BY <2>2, <2>3 DEF Silent, Delete, Commit, Step1, ApplyClaim, ExtractDies,
                            CheckReady, Retry, Fail, Settle, Notice, Vanish, credVars
<1>4. SuccessIsShown'
  BY <1>1 DEF ShownInv, SuccessIsShown, historyVars
<1> QED BY <1>1, <1>2, <1>3, <1>4, EarnedStays DEF ShownInv

\* Everything that is new is pending.
LEMMA CreateShown ==
  ASSUME NEW entries, ShowCreate(entries)
  PROVE  ShownInv'
<1>1. shown' = [c \in DOMAIN rows'.config |-> "pending"] /\ status' = "in_progress"
  BY DEF ShowCreate, Create, Commit
<1> QED BY <1>1 DEF ShownInv, Earned, SuccessIsShown, Statuses

\* A row whose config an update writes is pending; of the others nothing changes.
LEMMA UpdateShown ==
  ASSUME ShownInv, NEW entries, ShowUpdate(entries)
  PROVE  ShownInv'
<1> DEFINE written == {Row(entries, q[1], q[2]) : q \in Granted(entries)}
<1>1. /\ rows' = Merged(entries) /\ strayed \subseteq strayed' /\ status' = "in_progress"
      /\ UNCHANGED <<xr, secret>>
      /\ early' = early \ Reopened(entries) /\ undone' = undone \ Reopened(entries)
      /\ shown' = [c \in DOMAIN rows'.config |->
                     IF c \in Reopened(entries) THEN "pending" ELSE shown[c]]
  BY DEF ShowUpdate, Update, Commit, credVars
<1>2. /\ DOMAIN rows'.config = DOMAIN rows.config \cup written
      /\ \A c \in DOMAIN rows.config \ written : rows'.config[c] = rows.config[c]
  BY <1>1, Unmerged
<1>3. written \subseteq Reopened(entries)
  BY DEF Granted, Delta, Reopened
<1>4. \A c \in DOMAIN rows'.config : c \notin Reopened(entries) =>
        /\ c \in DOMAIN rows.config /\ rows'.config[c] = rows.config[c]
        /\ shown'[c] = shown[c]
  BY <1>1, <1>2, <1>3
<1>5. \A c \in DOMAIN rows'.config : c \in Reopened(entries) => shown'[c] = "pending"
  BY <1>1
<1>6. shown' \in [DOMAIN rows'.config -> Statuses]
  BY <1>1, <1>4 DEF ShownInv, Statuses
<1>7. Earned'
  BY <1>1, <1>4, <1>5 DEF ShownInv, Earned
<1>8. SuccessIsShown'
  BY <1>1 DEF SuccessIsShown
<1> QED BY <1>6, <1>7, <1>8 DEF ShownInv

\* What a claim's removal takes is either its own or of a capability noted down.
LEMMA UndoShown ==
  ASSUME Inv, ShownInv, NEW x \in RemovedClaims, UndoClaim(x)
  PROVE  ShownInv'
<1> DEFINE e == At(x)
           i == <<e, x[1].type, x[2]>>
           j == <<e, x[2]>>
           hit == {c \in DOMAIN rows.config : c.env = e /\ x[2] \in rows.config[c]}
<1>1. Instance(x) = i /\ i[1] = e /\ i[3] = x[2]
  BY ClaimParts
<1>2. /\ UNCHANGED <<rows, strayed, request, status, shown, early>> /\ status # "success"
      /\ undone' = undone \cup {c \in hit : shown[c] = "success"}
      /\ \E new : xr' = [xr EXCEPT ![i] = new]
      /\ \E secrets \in Cleaned({j}) : \E keys \in Cleaned({j}) : Drop(secrets, keys)
  BY <1>1 DEF UndoClaim, Undo, DeleteClaim, runVars, Inv, TypeOK
<1>3. \A k \in Envs \X Slugs : k # j => secret'[k] = secret[k]
  BY <1>2 DEF Cleaned, Drop
<1>4. xr \in [Instances -> {"absent", "settling", "ready", "lingering", "terminating"}]
  BY DEF Inv, TypeOK
<1>5. \A k \in Instances : k # i => xr'[k] = xr[k]
  BY <1>2, <1>4
<1>6. ASSUME NEW c \in DOMAIN rows.config \ (undone' \cup strayed), shown[c] = "success",
             NEW s \in rows.config[c]
      PROVE  /\ xr'[<<c.env, c.type, s>>] = "ready"
             /\ c \notin early => "connection" \in secret'[<<c.env, s>>]
  <2>1. c \notin undone /\ ~(c.env = e /\ s = x[2])
    BY <1>2, <1>6
  <2>2. <<c.env, c.type, s>> \in Instances /\ <<c.env, s>> \in Envs \X Slugs
    BY InvSound DEF Sound, WellFormed, Capabilities, Config, Instances
  <2>3. /\ xr[<<c.env, c.type, s>>] = "ready"
        /\ c \notin early => "connection" \in secret[<<c.env, s>>]
    BY <1>6, <2>1 DEF ShownInv, Earned
  <2> QED BY <1>3, <1>5, <2>1, <2>2, <2>3
<1>7. Earned'
  BY <1>2, <1>6 DEF Earned
<1> QED BY <1>2, <1>7 DEF ShownInv, SuccessIsShown

\* The sweep of an environment takes what is of that environment.
LEMMA SweepShown ==
  ASSUME Inv, ShownInv, UndoEnvironment
  PROVE  ShownInv'
<1>1. /\ UNCHANGED <<rows, strayed, request, status, shown, early, xr>> /\ status # "success"
      /\ undone' = undone \cup {c \in DOMAIN rows.config :
                                  c.env \in request.envs /\ shown[c] = "success"}
      /\ \E secrets \in Cleaned(request.envs \X Slugs) :
           \E keys \in Cleaned(request.envs \X Slugs) : Drop(secrets, keys)
  BY DEF UndoEnvironment, Undo, EndApply, runVars, Inv, TypeOK
<1>2. \A k \in Envs \X Slugs : k[1] \notin request.envs => secret'[k] = secret[k]
  BY <1>1 DEF Cleaned, Drop
<1>3. ASSUME NEW c \in DOMAIN rows.config \ (undone' \cup strayed), shown[c] = "success",
             NEW s \in rows.config[c]
      PROVE  /\ xr[<<c.env, c.type, s>>] = "ready"
             /\ c \notin early => "connection" \in secret'[<<c.env, s>>]
  <2>1. c \notin undone /\ c.env \notin request.envs
    BY <1>1, <1>3
  <2>2. <<c.env, s>> \in Envs \X Slugs /\ <<c.env, s>>[1] = c.env
    BY InvSound DEF Sound, WellFormed, Capabilities, Config
  <2>3. /\ xr[<<c.env, c.type, s>>] = "ready"
        /\ c \notin early => "connection" \in secret[<<c.env, s>>]
    BY <1>3, <2>1 DEF ShownInv, Earned
  <2> QED BY <1>2, <2>1, <2>2, <2>3
<1>4. Earned'
  BY <1>1, <1>3 DEF Earned
<1> QED BY <1>1, <1>4 DEF ShownInv, SuccessIsShown

\* What a report says is so: success of what was served, nothing of what is
\* torn down.
LEMMA RolledEarned ==
  ASSUME Inv, Progress, ShownInv, phase = "extract",
         NEW c \in DOMAIN rows.config \ strayed, Rolled(c) = "success",
         c \notin (undone \ Remaining) \cup Misread, NEW s \in rows.config[c]
  PROVE  /\ xr[<<c.env, c.type, s>>] = "ready"
         /\ c \notin early \ Remaining => "connection" \in secret[<<c.env, s>>]
<1>1. CASE c \in Served
  BY <1>1, ServedStands
<1>2. CASE c \notin Served
  <2>1. c \notin Remaining /\ shown[c] = "success"
    BY <1>2 DEF Rolled
  <2> QED BY <2>1 DEF ShownInv, Earned
<1> QED BY <1>1, <1>2

\* A report of a run some of whose capabilities failed.
LEMMA SomeShown ==
  ASSUME Inv, Progress, ShownInv, ReportSome
  PROVE  ShownInv'
<1>1. /\ phase = "extract" /\ status' = "failed" /\ UNCHANGED <<rows, strayed, xr, secret>>
      /\ shown' = [c \in DOMAIN rows.config |-> Rolled(c)]
      /\ early' = early \ Remaining /\ undone' = (undone \ Remaining) \cup Misread
  BY DEF ReportSome, Fail, credVars
<1>2. \A c \in DOMAIN rows.config : Rolled(c) \in Statuses
  BY DEF Rolled, ShownInv, Statuses
<1>3. Earned'
  BY <1>1, RolledEarned DEF Earned
<1> QED BY <1>1, <1>2, <1>3 DEF ShownInv, SuccessIsShown

\* A poll reports what it reads: the ready ones have all their instances, and
\* nothing is said of connections.
LEMMA PollShown ==
  ASSUME Inv, ShownInv, ReportPending \/ ReportReady
  PROVE  ShownInv'
<1>1. /\ UNCHANGED <<rows, strayed, request, status, xr, secret>> /\ status # "success"
      /\ ReportProgress
  BY DEF ReportPending, ReportReady, CheckReady, runVars, vars, credVars, Inv, TypeOK
<1>2. /\ shown' = [c \in DOMAIN rows.config |-> Polled(c)]
      /\ early' = (early \ Remaining) \cup Ready
      /\ undone' = (undone \ Remaining) \cup Lingering
  BY <1>1 DEF ReportProgress
<1>3. \A c \in DOMAIN rows.config : Polled(c) \in Statuses
  BY DEF Polled, ShownInv, Statuses
<1>4. ASSUME NEW c \in DOMAIN rows.config \ (undone' \cup strayed), Polled(c) = "success",
             NEW s \in rows.config[c]
      PROVE  /\ xr[<<c.env, c.type, s>>] = "ready"
             /\ c \notin early' => "connection" \in secret[<<c.env, s>>]
  <2>1. CASE c \in Remaining
    <3>1. c \in Ready /\ c \in early'
      BY <1>2, <1>4, <2>1 DEF Polled
    <3>2. <<c, s>> \in Claims(c) /\ <<c, s>>[1] = c /\ <<c, s>>[2] = s
      BY DEF Claims
    <3>3. xr[Instance(<<c, s>>)] = "ready"
      BY <1>2, <1>4, <3>1, <3>2 DEF Ready, ReadsReady, Lingering
    <3>4. Instance(<<c, s>>) = <<c.env, c.type, s>>
      BY <1>4, <2>1, ClaimHome DEF Remaining
    <3> QED BY <3>1, <3>3, <3>4
  <2>2. CASE c \notin Remaining
    <3>1. shown[c] = "success" /\ c \notin undone /\ c \notin Ready
      BY <1>2, <1>4, <2>2 DEF Polled, Ready
    <3> QED BY <1>2, <2>2, <3>1 DEF ShownInv, Earned
  <2> QED BY <2>1, <2>2
<1>5. Earned'
  BY <1>1, <1>2, <1>4 DEF Earned
<1> QED BY <1>1, <1>2, <1>3, <1>5 DEF ShownInv, SuccessIsShown

\* A report of a run that succeeded, and the purge in the same transaction.
LEMMA AllShown ==
  ASSUME Inv, Progress, ShownInv, ReportAll
  PROVE  ShownInv'
<1> DEFINE told == IF request.kind = "delete" THEN {} ELSE Remaining
<1>1. /\ phase = "extract" /\ rows' = Purged /\ UNCHANGED <<strayed, request, xr, secret>>
      /\ request.kind # "delete" => KeptClaims \subseteq done
      /\ shown' = [c \in DOMAIN rows'.config |-> IF c \in told THEN Rolled(c) ELSE shown[c]]
      /\ early' = (early \cap DOMAIN rows'.config) \ told
      /\ undone' = ((undone \ told) \cup (Misread \cap told)) \cap DOMAIN rows'.config
  BY DEF ReportAll, Succeed, credVars
<1>2. /\ DOMAIN rows'.config \subseteq DOMAIN rows.config
      /\ \A c \in DOMAIN rows'.config : rows'.config[c] = rows.config[c]
  BY <1>1 DEF Purged
<1>3. \A c \in DOMAIN rows.config : shown[c] \in Statuses /\ Rolled(c) \in Statuses
  BY DEF Rolled, ShownInv, Statuses
<1>4. Earned'
  <2> SUFFICES ASSUME NEW c \in DOMAIN rows'.config \ (undone' \cup strayed),
                      shown'[c] = "success", NEW s \in rows'.config[c]
               PROVE  /\ xr[<<c.env, c.type, s>>] = "ready"
                      /\ c \notin early' => "connection" \in secret[<<c.env, s>>]
    BY <1>1 DEF Earned
  <2>1. c \in DOMAIN rows.config /\ s \in rows.config[c]
    BY <1>2
  <2>2. CASE c \in told
    <3>1. c \in Remaining /\ Rolled(c) = "success" /\ c \notin Misread
      BY <1>1, <2>2
    <3> QED BY <1>1, <2>1, <3>1, RolledEarned
  <2>3. CASE c \notin told
    <3>1. shown[c] = "success" /\ c \notin undone /\ (c \notin early' => c \notin early)
      BY <1>1, <2>3
    <3> QED BY <2>1, <3>1 DEF ShownInv, Earned
  <2> QED BY <2>2, <2>3
<1>5. SuccessIsShown'
  <2> SUFFICES ASSUME request.kind # "delete", NEW c \in Visible(rows')
               PROVE  shown'[c] = "success" /\ c \notin early'
    BY <1>1 DEF SuccessIsShown
  <2>1. c \in Remaining
    BY <1>1, PurgeKeeps DEF Remaining
  <2>2. Claims(c) \subseteq KeptClaims
    BY <2>1 DEF Remaining, KeptClaims
  <2>3. c \in Served
    BY <1>1, <2>1, <2>2 DEF Served
  <2>4. Rolled(c) = "success"
    BY <2>1, <2>3 DEF Rolled
  <2>5. c \in DOMAIN rows'.config
    BY DEF Visible
  <2> QED BY <1>1, <2>1, <2>4, <2>5
<1> QED BY <1>1, <1>2, <1>3, <1>4, <1>5 DEF ShownInv

\* The three hold in every state.
LEMMA ShownHolds == ShownSpec => [](Inv /\ Progress /\ ShownInv)
<1>1. ShownInit => Inv /\ Progress /\ ShownInv
  <2> SUFFICES ASSUME ShownInit PROVE Inv /\ Progress /\ ShownInv
    OBVIOUS
  <2>1. Inv
    BY InitInv DEF ShownInit
  <2>2. Progress
    BY DEF ShownInit, Init, Progress, Fresh, Deployed, Checked, Stored, Provisioned
  <2>3. DOMAIN rows.config = {} /\ shown = <<>> /\ status = "none"
    BY DEF ShownInit, Init
  <2> QED BY <2>1, <2>2, <2>3 DEF ShownInv, Earned, SuccessIsShown
<1>2. Inv /\ Progress /\ ShownInv /\ [ShownNext]_shownVars => (Inv /\ Progress /\ ShownInv)'
  <2> SUFFICES ASSUME Inv, Progress, ShownInv, [ShownNext]_shownVars
               PROVE  ShownInv'
    BY ShownSteps, NextInv, NextProgress
  <2>1. CASE \E entries \in Creations : ShowCreate(entries)
    BY <2>1, CreateShown
  <2>2. CASE \E entries \in Updates : ShowUpdate(entries)
    BY <2>2, UpdateShown
  <2>3. CASE \E x \in RemovedClaims : UndoClaim(x)
    BY <2>3, UndoShown
  <2>4. CASE UndoEnvironment
    BY <2>4, SweepShown
  <2>5. CASE ReportAll
    BY <2>5, AllShown
  <2>6. CASE ReportSome
    BY <2>6, SomeShown
  <2>7. CASE Silent /\ UNCHANGED <<shown, historyVars>>
    BY <2>7, SilentShown
  <2>8. CASE UNCHANGED shownVars
    BY <2>8 DEF shownVars, historyVars, vars, credVars, ShownInv, Earned, SuccessIsShown
  <2>9. CASE ReportPending \/ ReportReady
    BY <2>9, PollShown
  <2> QED BY <2>1, <2>2, <2>3, <2>4, <2>5, <2>6, <2>7, <2>8, <2>9 DEF ShownNext
<1> QED BY <1>1, <1>2, PTL DEF ShownSpec

\* After a create or an update that succeeded every capability is shown as
\* successful, also one that failed before and that this request did not name,
\* and on the word of extract.
THEOREM ShowsSuccess == ShownSpec => []SuccessIsShown
<1>1. ShownInv => SuccessIsShown
  BY DEF ShownInv
<1> QED BY <1>1, ShownHolds, PTL

\* What is shown as successful is there, for whatever requests, failures and
\* faults have come since, except where a removal has begun to undo it, whether
\* the check could see that or not, and for capabilities bound across environments.
THEOREM EarnsStatus == ShownSpec => []StatusIsEarned
<1>1. Inv /\ ShownInv => StatusIsEarned
  <2> SUFFICES ASSUME Inv, ShownInv, NEW c \in Visible(rows) \ (undone \cup strayed),
                      shown[c] = "success", NEW s \in rows.config[c]
               PROVE  /\ xr[Instance(<<c, s>>)] = "ready"
                      /\ c \notin early => "connection" \in secret[<<CapabilityEnv(rows, c), s>>]
    BY DEF StatusIsEarned
  <2>1. CapabilityEnv(rows, c) = c.env
    BY InvSound, EnvHome DEF Sound
  <2>2. Instance(<<c, s>>) = <<c.env, c.type, s>>
    BY <2>1 DEF Instance
  <2>3. c \in DOMAIN rows.config
    BY DEF Visible
  <2> QED BY <2>1, <2>2, <2>3 DEF ShownInv, Earned
<1> QED BY <1>1, ShownHolds, PTL
=============================================================================
