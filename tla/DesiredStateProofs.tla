-------------------------- MODULE DesiredStateProofs --------------------------
(***************************************************************************)
(* Theorems about DesiredState, for every value of its constants: every    *)
(* number of requests, every set of deltas, every fault.                   *)
(*                                                                         *)
(* Inv is inductive: the rows are well formed, every edge leads into the   *)
(* environment its capability was added for unless a patch of the          *)
(* capability went astray (Home), no row is younger than the latest        *)
(* request (Born), and once check has passed what was to go is gone        *)
(* (Gone).  Held adds what the orphan rule establishes at submission and   *)
(* the purge relies on much later.                                         *)
(***************************************************************************)
EXTENDS DesiredState, WellFoundedInduction, TLAPS

-----------------------------------------------------------------------------
(* Well-formed rows *)

\* The part of TypeOK that is about the rows, of any database.
WellFormed(db) ==
    /\ db.services \subseteq Service
    /\ DOMAIN db.config \subseteq Capabilities
    /\ \A c \in DOMAIN db.config : db.config[c] \in Config
    /\ db.access \subseteq (DOMAIN db.config) \X db.services

\* What callers send is made of entries.
LEMMA EntryTyped ==
  ASSUME NEW entries \in Creations \cup Updates
  PROVE  /\ entries \in Seq(Entry)
         /\ \A i \in DOMAIN entries : entries[i] \in Entry
<1>1. entries \in Seq(Entry)
  BY DesiredStateAssumption
<1>2. DOMAIN entries = 1 .. Len(entries)
  BY <1>1
<1> QED BY <1>1, <1>2

\* A new row carries the number of the request that adds it.
LEMMA NewRowTyped ==
  ASSUME NEW u \in Entry, NEW g \in u.capabilities, sent \in 0 .. MaxRequests,
         sent < MaxRequests
  PROVE  /\ NewRow(u, g) \in Capabilities
         /\ NewRow(u, g).by = sent + 1
         /\ NewRow(u, g).env = u.env
         /\ NewRow(u, g).type = g.type
<1>1. g \in Grant /\ u.env \in Envs
  BY DEF Entry
<1>2. sent + 1 \in 1 .. MaxRequests
  BY DesiredStateAssumption
<1> QED BY <1>1, <1>2 DEF NewRow, Capabilities, Grant

\* A visible capability has services, and an environment that is one of theirs.
LEMMA AccessorsTyped ==
  ASSUME NEW db, WellFormed(db), NEW c \in Visible(db)
  PROVE  /\ c \in DOMAIN db.config
         /\ c \in Capabilities
         /\ db.config[c] \in Config
         /\ Accessors(db, c) \subseteq Service
         /\ EnvsOf(db, c) \subseteq Envs
         /\ CapabilityEnv(db, c) \in EnvsOf(db, c)
<1>1. c \in DOMAIN db.config /\ Accessors(db, c) # {}
  BY DEF Visible
<1>2. Accessors(db, c) \subseteq Service
  BY DEF Accessors, WellFormed
<1>3. EnvsOf(db, c) \subseteq Envs /\ EnvsOf(db, c) # {}
  BY <1>1, <1>2 DEF EnvsOf, Service
<1>4. CapabilityEnv(db, c) \in EnvsOf(db, c)
  BY <1>3 DEF CapabilityEnv
<1> QED BY <1>1, <1>2, <1>3, <1>4 DEF WellFormed

\* A claim is a capability and a slug, and has an instance.
LEMMA ClaimTyped ==
  ASSUME WellFormed(rows), NEW x \in KeptClaims \cup RemovedClaims
  PROVE  /\ x[1] \in Visible(rows)
         /\ CapabilityEnv(rows, x[1]) \in Envs
         /\ x[1].type \in Types
         /\ x[2] \in Slugs
         /\ Instance(x) \in Instances
         /\ Instance(x) = <<CapabilityEnv(rows, x[1]), x[1].type, x[2]>>
<1>1. PICK c \in Visible(rows) : x \in Claims(c)
  BY DEF KeptClaims, RemovedClaims
<1>2. c \in Capabilities /\ rows.config[c] \in Config /\ CapabilityEnv(rows, c) \in Envs
  BY AccessorsTyped
<1>3. x[1] = c /\ x[2] \in Slugs
  BY <1>1, <1>2 DEF Claims, Config
<1> QED BY <1>1, <1>2, <1>3 DEF Instance, Instances, Capabilities

\* As long as the rows and the request stay, so do the claims.
LEMMA ClaimsStay ==
  ASSUME UNCHANGED <<rows, request>>
  PROVE  /\ KeptClaims' = KeptClaims
         /\ RemovedClaims' = RemovedClaims
         /\ \A x : Instance(x)' = Instance(x)
<1>1. \A c : TornDown(c)' = TornDown(c)
  BY DEF TornDown, Entries
<1>2. \A c : Claims(c)' = Claims(c)
  BY DEF Claims
<1>3. Visible(rows)' = Visible(rows)
  OBVIOUS
<1>4. \A x : Instance(x)' = Instance(x)
  BY DEF Instance
<1> QED BY <1>1, <1>2, <1>3, <1>4 DEF KeptClaims, RemovedClaims

-----------------------------------------------------------------------------
(* The rows keep their form *)

\* Every edge leads into the environment its capability was added for, except
\* those of the capabilities in out.
Home(db, out) == \A x \in db.access : x[1] \notin out => x[2][1] = x[1].env

\* No row is younger than the latest request.
Born(db, n) == \A c \in DOMAIN db.config : c.by \in 1 .. n

\* A create writes rows of the right form.
LEMMA CreateRows ==
  ASSUME NEW entries \in Creations, sent \in 0 .. MaxRequests, Create(entries)
  PROVE  WellFormed(rows') /\ Home(rows', strayed') /\ Born(rows', sent')
<1> DEFINE added == UNION {{entries[i]} \X entries[i].capabilities : i \in DOMAIN entries}
           row(q) == NewRow(q[1], q[2])
           new == {row(q) : q \in added}
<1>1. /\ sent < MaxRequests /\ sent' = sent + 1
      /\ \A q \in added : q[2].access \subseteq q[1].services
      /\ rows' = [services |-> UNION {Names(entries[i].env, entries[i].services) :
                                        i \in DOMAIN entries},
                  config   |-> [c \in new |-> (CHOOSE q \in added : row(q) = c)[2].config],
                  access   |-> UNION {{row(q)} \X Names(q[1].env, Bound(q[1], q[2])) :
                                        q \in added}]
  BY DEF Create, Commit
<1>2. \A q \in added : \E i \in DOMAIN entries :
        q[1] = entries[i] /\ q[1] \in Entry /\ q[2] \in q[1].capabilities /\ q[2] \in Grant
  <2> TAKE q \in added
  <2>1. PICK i \in DOMAIN entries : q \in {entries[i]} \X entries[i].capabilities
    OBVIOUS
  <2>2. entries[i] \in Entry
    BY EntryTyped
  <2> QED BY <2>1, <2>2 DEF Entry
<1>3. \A q \in added : /\ row(q) \in Capabilities
                       /\ row(q).by = sent + 1
                       /\ row(q).env = q[1].env
  BY <1>1, <1>2, NewRowTyped
<1>4. rows'.services \subseteq Service
  BY <1>1, EntryTyped DEF Names, Service, Entry
<1>5. DOMAIN rows'.config = new
  BY <1>1
<1>6. \A c \in new : rows'.config[c] \in Config
  <2> TAKE c \in new
  <2>1. PICK q \in added : row(q) = c
    OBVIOUS
  <2> DEFINE chosen == CHOOSE r \in added : row(r) = c
  <2>2. chosen \in added
    BY <2>1
  <2>3. chosen[2].config \in Config
    BY <1>2, <2>2 DEF Grant
  <2> QED BY <1>1, <2>3
<1>7. ASSUME NEW x \in rows'.access
      PROVE  \E q \in added : x \in {row(q)} \X Names(q[1].env, Bound(q[1], q[2]))
  BY <1>1, <1>7
<1>8. ASSUME NEW x \in rows'.access
      PROVE  x \in new \X rows'.services /\ x[2][1] = x[1].env
  <2>1. PICK q \in added : x \in {row(q)} \X Names(q[1].env, Bound(q[1], q[2]))
    BY <1>7
  <2>2. PICK i \in DOMAIN entries : q[1] = entries[i]
    BY <1>2
  <2>3. Bound(q[1], q[2]) \subseteq q[1].services
    BY <1>1 DEF Bound
  <2>4. Names(q[1].env, Bound(q[1], q[2])) \subseteq rows'.services
    BY <1>1, <2>2, <2>3 DEF Names
  <2>5. x[1] = row(q) /\ x[2] \in Names(q[1].env, Bound(q[1], q[2]))
    BY <2>1
  <2>6. x[2][1] = q[1].env
    BY <2>5 DEF Names
  <2> QED BY <1>3, <2>1, <2>4, <2>5, <2>6
<1>9. WellFormed(rows')
  BY <1>3, <1>4, <1>5, <1>6, <1>8 DEF WellFormed
<1>10. Born(rows', sent')
  BY <1>1, <1>3, <1>5, DesiredStateAssumption DEF Born
<1> QED BY <1>8, <1>9, <1>10 DEF Home

Sound == WellFormed(rows) /\ Home(rows, strayed) /\ Born(rows, sent) /\ sent \in 0 .. MaxRequests

\* The derived environment of a capability that is not astray is that of its row.
LEMMA EnvsHome ==
  ASSUME NEW db, NEW out, Home(db, out), NEW c, c \notin out
  PROVE  /\ \A s \in Accessors(db, c) : s[1] = c.env
         /\ \A e \in EnvsOf(db, c) : e = c.env
<1>1. \A s \in Accessors(db, c) : s[1] = c.env
  <2> TAKE s \in Accessors(db, c)
  <2>1. <<c, s>> \in db.access
    BY DEF Accessors
  <2>2. <<c, s>>[2][1] = <<c, s>>[1].env
    BY <2>1 DEF Home
  <2> QED BY <2>2
<1> QED BY <1>1 DEF EnvsOf

\* So if it is visible it has one environment, its own.
LEMMA EnvHome ==
  ASSUME NEW db, NEW out, WellFormed(db), Home(db, out), NEW c \in Visible(db), c \notin out
  PROVE  /\ CapabilityEnv(db, c) = c.env
         /\ EnvsOf(db, c) = {c.env}
<1>1. CapabilityEnv(db, c) \in EnvsOf(db, c)
  BY AccessorsTyped
<1> QED BY <1>1, EnvsHome

\* What an update writes, in the words of its entries.
Delta(entries)   == {entries[i] : i \in DOMAIN entries}
Granted(entries) == UNION {{u} \X u.capabilities : u \in Delta(entries)}
Patched(entries) == UNION {{u} \X u.patches : u \in Delta(entries)}
For(entries, c)  == {q \in Granted(entries) : Row(entries, q[1], q[2]) = c}

\* The edges the patches of an update take away.
Revoked(entries) ==
    {x \in rows.access : \E q \in Patched(entries) :
       x[1] = q[2].capability /\ x[2][1] = LookedUp(entries)}

\* The rows after an update, field by field.
LEMMA Unmerged ==
  ASSUME NEW entries
  PROVE  LET m == Merged(entries)
             written == {Row(entries, q[1], q[2]) : q \in Granted(entries)}
         IN  /\ m.services = rows.services
                  \cup UNION {Names(u.env, u.services) : u \in Delta(entries)}
             /\ DOMAIN m.config = DOMAIN rows.config \cup written
             /\ \A c \in DOMAIN m.config : m.config[c] =
                  IF c \in written
                  THEN (CHOOSE q \in For(entries, c) : \A r \in For(entries, c) :
                          Place(entries, r[1]) <= Place(entries, q[1]))[2].config
                  ELSE rows.config[c]
             /\ m.access = (rows.access \ Revoked(entries))
                  \cup (UNION {{Row(entries, q[1], q[2])} \X Names(q[1].env, q[2].access) :
                                q \in Granted(entries)})
                  \cup (UNION {{q[2].capability} \X Targets(entries, q[1], q[2]) :
                                q \in Patched(entries)})
  BY DEF Merged, Granted, Patched, Delta, Revoked, For

\* The parts of an update have their types.
LEMMA DeltaTyped ==
  ASSUME NEW entries \in Updates
  PROVE  /\ \A u \in Delta(entries) : u \in Entry
         /\ \A q \in Granted(entries) :
              q[1] \in Delta(entries) /\ q[2] \in q[1].capabilities /\ q[2] \in Grant
         /\ \A q \in Patched(entries) :
              q[1] \in Delta(entries) /\ q[2] \in q[1].patches /\ q[2] \in Patch
<1>1. \A u \in Delta(entries) : u \in Entry
  BY EntryTyped DEF Delta
<1>2. \A q \in Granted(entries) : q[1] \in Delta(entries) /\ q[2] \in q[1].capabilities
  BY DEF Granted
<1>3. \A q \in Patched(entries) : q[1] \in Delta(entries) /\ q[2] \in q[1].patches
  BY DEF Patched
<1> QED BY <1>1, <1>2, <1>3 DEF Entry

\* Of the grants for one row there is one that no other comes after.
LEMMA LastGrant ==
  ASSUME NEW entries \in Updates, NEW c, For(entries, c) # {}
  PROVE  \E q \in For(entries, c) : \A r \in For(entries, c) :
            Place(entries, r[1]) <= Place(entries, q[1])
<1> DEFINE left(q) == Len(entries) - Place(entries, q[1])
           T == {left(q) : q \in For(entries, c)}
<1>1. Len(entries) \in Nat /\ DOMAIN entries = 1 .. Len(entries)
  BY EntryTyped
<1>2. \A q \in For(entries, c) : Place(entries, q[1]) \in 1 .. Len(entries)
  <2> TAKE q \in For(entries, c)
  <2>1. q[1] \in Delta(entries)
    BY DeltaTyped DEF For
  <2>2. \E i \in DOMAIN entries : entries[i] = q[1]
    BY <2>1 DEF Delta
  <2> QED BY <1>1, <2>2 DEF Place
<1>3. T \subseteq Nat /\ T # {}
  BY <1>1, <1>2
<1>4. PICK n \in T : \A m \in T : <<m, n>> \notin OpToRel(<, Nat)
  BY <1>3, NatLessThanWellFounded, WFMin
<1>5. PICK q \in For(entries, c) : n = left(q)
  OBVIOUS
<1>6. ASSUME NEW r \in For(entries, c)
      PROVE  Place(entries, r[1]) <= Place(entries, q[1])
  <2>1. left(r) \in Nat /\ left(q) \in Nat /\ left(r) \in T
    BY <1>3
  <2>2. ~(left(r) < left(q))
    BY <1>4, <1>5, <2>1 DEF OpToRel
  <2> QED BY <1>1, <1>2, <2>2
<1> QED BY <1>6

\* A capability that an update patches is one its environment sees.
LEMMA PatchedVisible ==
  ASSUME NEW entries \in Updates, Update(entries), NEW q \in Patched(entries)
  PROVE  /\ ValidPatch(q[1], q[2])
         /\ q[2].capability \in Visible(rows)
         /\ q[1].env \in EnvsOf(rows, q[2].capability)
<1>1. q[1] \in Delta(entries) /\ q[2] \in q[1].patches
  BY DeltaTyped
<1>2. ValidPatch(q[1], q[2])
  BY <1>1 DEF Update, Delta, ValidEntry
<1> QED BY <1>2 DEF ValidPatch, Visible, EnvsOf

\* The capabilities led astray are those patched outside the environment in which
\* the services are looked up.
LEMMA AstrayPatched ==
  ASSUME NEW entries
  PROVE  \A c : c \in Astray(entries) <=>
           \E q \in Patched(entries) : q[2].capability = c /\ q[1].env # LookedUp(entries)
<1> TAKE c
<1>1. ASSUME c \in Astray(entries)
      PROVE  \E q \in Patched(entries) : q[2].capability = c /\ q[1].env # LookedUp(entries)
  <2>1. PICK i \in DOMAIN entries :
          entries[i].env # LookedUp(entries) /\ \E p \in entries[i].patches : p.capability = c
    BY <1>1 DEF Astray
  <2>2. PICK p \in entries[i].patches : p.capability = c
    BY <2>1
  <2>3. <<entries[i], p>> \in Patched(entries)
    BY DEF Patched, Delta
  <2> QED BY <2>1, <2>2, <2>3
<1>2. ASSUME NEW q \in Patched(entries), q[2].capability = c, q[1].env # LookedUp(entries)
      PROVE  c \in Astray(entries)
  <2>1. PICK i \in DOMAIN entries : q[1] = entries[i] /\ q[2] \in entries[i].patches
    BY DEF Patched, Delta
  <2>2. c \in {p.capability : p \in entries[i].patches}
    BY <1>2, <2>1
  <2> QED BY <1>2, <2>1, <2>2 DEF Astray
<1> QED BY <1>1, <1>2

\* What a patch binds to is there after the update, and in that environment.
LEMMA TargetsTyped ==
  ASSUME NEW entries \in Updates, Update(entries), NEW q \in Patched(entries)
  PROVE  /\ Targets(entries, q[1], q[2]) # {}
         /\ Targets(entries, q[1], q[2]) \subseteq rows'.services
         /\ \A s \in Targets(entries, q[1], q[2]) : s[1] = LookedUp(entries)
<1>1. q[1] \in Delta(entries) /\ q[2] \in q[1].patches
  BY DeltaTyped
<1>2. ValidPatch(q[1], q[2])
  BY PatchedVisible
<1>3. rows'.services = rows.services \cup UNION {Names(u.env, u.services) : u \in Delta(entries)}
  BY Unmerged DEF Update, Commit
<1>4. CASE q[1].env = LookedUp(entries)
  <2>1. Targets(entries, q[1], q[2]) = Names(q[1].env, q[2].access)
    BY <1>4 DEF Targets
  <2>2. q[2].access # {} /\ q[2].access \subseteq Known(rows, q[1].env) \cup q[1].services
    BY <1>2 DEF ValidPatch
  <2>3. Names(q[1].env, q[2].access) \subseteq rows'.services
    BY <1>1, <1>3, <2>2 DEF Names, Known
  <2>4. PICK n : n \in q[2].access
    BY <2>2
  <2>5. <<q[1].env, n>> \in Names(q[1].env, q[2].access)
    BY <2>4 DEF Names
  <2>6. \A s \in Names(q[1].env, q[2].access) : s[1] = q[1].env
    BY DEF Names
  <2> QED BY <1>4, <2>1, <2>3, <2>5, <2>6
<1>5. CASE q[1].env # LookedUp(entries)
  <2>1. PICK n : n \in q[2].access
    BY <1>2 DEF ValidPatch
  <2>2. \E s \in Targets(entries, q[1], q[2]) : <<n, s>> \in Alike
    BY <1>1, <1>5, <2>1 DEF Update, PatchesResolve, Delta
  <2> QED BY <1>3, <1>5, <2>2 DEF Targets
<1> QED BY <1>4, <1>5

\* The row an upsert writes is of the grant's type, and of its environment unless
\* a patch has led it astray.
LEMMA RowTyped ==
  ASSUME Sound, NEW entries \in Updates, Update(entries),
         NEW u \in Entry, NEW g \in u.capabilities
  PROVE  /\ Row(entries, u, g) \in Capabilities
         /\ Row(entries, u, g) \notin strayed \cup Astray(entries)
              => Row(entries, u, g).env = u.env
         /\ Row(entries, u, g).by \in 1 .. sent + 1
<1> DEFINE c == Row(entries, u, g)
           found == Matching(rows, u.env, g.type)
                      \cup {d \in Astray(entries) : d.type = g.type /\ u.env = LookedUp(entries)}
<1>0. sent \in 0 .. MaxRequests /\ MaxRequests \in Nat /\ sent < MaxRequests
  BY DesiredStateAssumption DEF Sound, Update, Commit
<1>1. CASE found = {}
  BY <1>0, <1>1, NewRowTyped DEF Row
<1>2. CASE found # {}
  <2>1. c \in found
    BY <1>2 DEF Row
  <2>2. c \in Visible(rows)
    BY <2>1, AstrayPatched, PatchedVisible DEF Matching
  <2>3. c \in Capabilities /\ c \in DOMAIN rows.config
    BY <2>2, AccessorsTyped DEF Sound
  <2>4. c \notin strayed \cup Astray(entries) => c.env = u.env
    BY <2>1, EnvsHome DEF Sound, Matching
  <2>5. c.by \in 1 .. sent + 1
    BY <1>0, <2>3 DEF Sound, Born
  <2> QED BY <2>3, <2>4, <2>5
<1> QED BY <1>1, <1>2

\* An update writes rows of the right form: what validation lets through binds
\* a capability in its own environment only, but for the patches that are looked
\* up in another.
LEMMA UpdateRows ==
  ASSUME Sound, NEW entries \in Updates, Update(entries)
  PROVE  WellFormed(rows') /\ Home(rows', strayed') /\ Born(rows', sent')
<1> DEFINE written == {Row(entries, q[1], q[2]) : q \in Granted(entries)}
           services == UNION {Names(u.env, u.services) : u \in Delta(entries)}
           good(x) == /\ x \in (DOMAIN rows'.config) \X rows'.services
                      /\ x[1] \notin strayed' => x[2][1] = x[1].env
<1>1. /\ sent < MaxRequests /\ sent' = sent + 1 /\ rows' = Merged(entries)
      /\ strayed' = strayed \cup Astray(entries)
  BY DEF Update, Commit
<1>2. \A u \in Delta(entries) : u \in Entry /\ ValidEntry(u)
  BY DeltaTyped DEF Update, Delta
<1>3. ASSUME NEW q \in Granted(entries)
      PROVE  /\ Row(entries, q[1], q[2]) \in Capabilities
             /\ Row(entries, q[1], q[2]) \notin strayed' => Row(entries, q[1], q[2]).env = q[1].env
             /\ Row(entries, q[1], q[2]).by \in 1 .. sent + 1
  BY <1>1, <1>2, DeltaTyped, RowTyped
<1>4. /\ rows'.services = rows.services \cup services
      /\ DOMAIN rows'.config = DOMAIN rows.config \cup written
  BY <1>1, Unmerged
<1>5. ASSUME NEW u \in Delta(entries), NEW set, set \subseteq Known(rows, u.env) \cup u.services
      PROVE  Names(u.env, set) \subseteq rows'.services
  BY <1>4, <1>5 DEF Names, Known
<1>6. services \subseteq Service
  BY <1>2 DEF Names, Service, Entry
<1>7. \A c \in DOMAIN rows'.config : rows'.config[c] \in Config
  <2> TAKE c \in DOMAIN rows'.config
  <2>1. CASE c \in written
    <3> DEFINE chosen == CHOOSE q \in For(entries, c) : \A r \in For(entries, c) :
                           Place(entries, r[1]) <= Place(entries, q[1])
    <3>1. For(entries, c) # {}
      BY <2>1 DEF For
    <3>2. chosen \in For(entries, c)
      BY <3>1, LastGrant
    <3>3. chosen[2].config \in Config
      BY <3>2, DeltaTyped DEF Grant, For
    <3>4. rows'.config[c] = chosen[2].config
      BY <1>1, <2>1, Unmerged
    <3> QED BY <3>3, <3>4
  <2>2. CASE c \notin written
    <3>1. rows'.config[c] = rows.config[c] /\ c \in DOMAIN rows.config
      BY <1>1, <1>4, <2>2, Unmerged
    <3> QED BY <3>1 DEF Sound, WellFormed
  <2> QED BY <2>1, <2>2
<1>8. ASSUME NEW x \in rows'.access
      PROVE  good(x)
  <2>1. CASE x \in rows.access
    BY <1>1, <1>4, <2>1 DEF Sound, WellFormed, Home
  <2>2. ASSUME NEW q \in Granted(entries),
               x \in {Row(entries, q[1], q[2])} \X Names(q[1].env, q[2].access)
        PROVE  good(x)
    <3>1. q[1] \in Delta(entries) /\ q[2] \in q[1].capabilities
      BY DeltaTyped
    <3>2. q[2].access \subseteq Known(rows, q[1].env) \cup q[1].services
      BY <1>2, <3>1 DEF ValidEntry
    <3>3. Names(q[1].env, q[2].access) \subseteq rows'.services
      BY <1>5, <3>1, <3>2
    <3>4. x[1] = Row(entries, q[1], q[2]) /\ x[2] \in Names(q[1].env, q[2].access)
      BY <2>2
    <3>5. x[2][1] = q[1].env
      BY <3>4 DEF Names
    <3> QED BY <1>3, <1>4, <2>2, <3>3, <3>4, <3>5
  <2>3. ASSUME NEW q \in Patched(entries),
               x \in {q[2].capability} \X Targets(entries, q[1], q[2])
        PROVE  good(x)
    <3>1. /\ q[2].capability \in DOMAIN rows.config
          /\ q[1].env \in EnvsOf(rows, q[2].capability)
      BY PatchedVisible DEF Visible
    <3>2. x[1] = q[2].capability /\ x[2] \in Targets(entries, q[1], q[2])
      BY <2>3
    <3>3. x[2] \in rows'.services /\ x[2][1] = LookedUp(entries)
      BY <3>2, TargetsTyped
    <3>4. x[1] \notin strayed' => q[1].env = LookedUp(entries)
      BY <1>1, <3>2, AstrayPatched
    <3>5. x[1] \notin strayed' => q[1].env = x[1].env
      BY <1>1, <3>1, <3>2, EnvsHome DEF Sound
    <3> QED BY <1>4, <2>3, <3>1, <3>2, <3>3, <3>4, <3>5
  <2>4. \/ x \in rows.access
        \/ \E q \in Granted(entries) :
              x \in {Row(entries, q[1], q[2])} \X Names(q[1].env, q[2].access)
        \/ \E q \in Patched(entries) :
              x \in {q[2].capability} \X Targets(entries, q[1], q[2])
    BY <1>1, Unmerged
  <2> QED BY <2>1, <2>2, <2>3, <2>4
<1>9. WellFormed(rows')
  BY <1>3, <1>4, <1>6, <1>7, <1>8 DEF WellFormed, Sound
<1>10. Born(rows', sent')
  BY <1>1, <1>3, <1>4, DesiredStateAssumption DEF Born, Sound
<1> QED BY <1>8, <1>9, <1>10 DEF Home

\* The purge takes edges along with what they bind.
LEMMA PurgedRows ==
  ASSUME Sound
  PROVE  WellFormed(Purged) /\ Home(Purged, strayed) /\ Born(Purged, sent)
<1> DEFINE caps == {c \in Visible(rows) : TornDown(c)}
<1>1. /\ Purged.services = rows.services \ Leaving
      /\ DOMAIN Purged.config = DOMAIN rows.config \ caps
      /\ \A c \in DOMAIN rows.config \ caps : Purged.config[c] = rows.config[c]
      /\ Purged.access = {x \in rows.access : x[1] \notin caps /\ x[2] \notin Leaving}
  BY DEF Purged
<1>2. WellFormed(Purged)
  BY <1>1 DEF WellFormed, Sound
<1>3. Home(Purged, strayed)
  BY <1>1 DEF Home, Sound
<1>4. Born(Purged, sent)
  BY <1>1 DEF Born, Sound
<1> QED BY <1>2, <1>3, <1>4

-----------------------------------------------------------------------------
(* The inductive invariant *)

\* What the purge relies on: once check has passed, the instances that were to
\* go are gone, and nothing brings them back before the run ends.
Gone == phase = "extract" => \A x \in RemovedClaims : xr[Instance(x)] = "absent"

Inv == TypeOK /\ Home(rows, strayed) /\ Born(rows, sent) /\ Gone

\* The invariant holds what the lemmas about rows ask for.
LEMMA InvSound == Inv => Sound
BY DEF Inv, TypeOK, Sound, WellFormed

\* Nothing is there at first.
LEMMA InitInv == Init => Inv
<1> SUFFICES ASSUME Init PROVE Inv
  OBVIOUS
<1> USE DEF Init
<1>1. WellFormed(rows) /\ Home(rows, strayed) /\ Born(rows, sent)
  BY DEF WellFormed, Home, Born
<1>2. sent \in 0 .. MaxRequests
  BY DesiredStateAssumption
<1>3. inject \in [Envs -> [Slugs -> SUBSET Services]]
  BY DEF NoInject
<1> QED
  BY <1>1, <1>2, <1>3 DEF Inv, TypeOK, Gone, WellFormed, NoRequest, Phases, Fields

\* A submission starts a run over, on rows of the right form.
LEMMA CommitInv ==
  ASSUME Inv, NEW r, NEW db, Commit(r, db),
         WellFormed(rows'), Home(rows', strayed'), Born(rows', sent'),
         strayed' \subseteq Capabilities,
         r.kind \in {"create", "update", "delete"}, r.envs \subseteq Envs,
         r.updates \in Updates \cup {<<>>}
  PROVE  Inv'
<1>1. sent' \in 0 .. MaxRequests
  BY DesiredStateAssumption DEF Commit, Inv, TypeOK
<1>2. /\ request'.kind \in {"none", "create", "update", "delete"}
      /\ request'.envs \subseteq Envs
      /\ request'.updates \in Updates \cup {<<>>}
      /\ status' = "in_progress" /\ phase' = "step1" /\ done' = {} /\ misread' = {}
      /\ UNCHANGED <<overlay, inject, merged, xr, secret, key>>
  BY DEF Commit, gitVars, credVars
<1>3. WellFormed(rows)'
  BY DEF WellFormed
<1>4. TypeOK'
  BY <1>1, <1>2, <1>3 DEF TypeOK, WellFormed, Inv, Phases
<1>5. Home(rows, strayed)' /\ Born(rows, sent)'
  BY DEF Home, Born
<1> QED BY <1>2, <1>4, <1>5 DEF Inv, Gone

\* A step of a run that leaves the rows and the request alone keeps the
\* invariant if what it changes has its type.
LEMMA RunInv ==
  ASSUME Inv, UNCHANGED <<rows, strayed, sent, request>>,
         status' \in {"none", "in_progress", "success", "failed"},
         phase' \in Phases, phase' = "idle" <=> status' # "in_progress",
         done' \subseteq KeptClaims \cup RemovedClaims,
         overlay' \in [Envs -> SUBSET Services],
         inject' \in [Envs -> [Slugs -> SUBSET Services]],
         merged' \in BOOLEAN,
         xr' \in [Instances -> {"absent", "settling", "ready", "lingering", "terminating"}],
         secret' \in [Envs \X Slugs -> SUBSET Fields],
         key' \in [Envs \X Slugs -> BOOLEAN],
         misread' \subseteq Instances,
         phase' = "extract" => \A x \in RemovedClaims : xr'[Instance(x)] = "absent"
  PROVE  Inv'
<1>1. /\ KeptClaims' = KeptClaims
      /\ RemovedClaims' = RemovedClaims
      /\ \A x : Instance(x)' = Instance(x)
  BY ClaimsStay
<1>2. TypeOK'
  BY <1>1 DEF Inv, TypeOK
<1>3. Home(rows, strayed)' /\ Born(rows, sent)'
  BY DEF Inv, Home, Born
<1>4. Gone'
  BY <1>1 DEF Gone
<1> QED BY <1>2, <1>3, <1>4 DEF Inv

\* A deletion of secrets and keys keeps their types.
LEMMA DropTyped ==
  ASSUME Inv, NEW secrets, NEW keys, Drop(secrets, keys)
  PROVE  /\ secret' \in [Envs \X Slugs -> SUBSET Fields]
         /\ key' \in [Envs \X Slugs -> BOOLEAN]
<1>1. secret \in [Envs \X Slugs -> SUBSET Fields] /\ key \in [Envs \X Slugs -> BOOLEAN]
  BY DEF Inv, TypeOK
<1> QED BY <1>1 DEF Drop

\* One lemma for each action: it keeps the invariant.
LEMMA Step1Inv == ASSUME Inv, Step1 PROVE Inv'
<1>1. /\ phase' = "apply" /\ UNCHANGED <<rows, strayed, misread, sent, request, status,
                                         done, xr, secret, key>>
      /\ status = "in_progress"
  BY DEF Step1, runVars, credVars, Inv, TypeOK
<1>2. WellFormed(rows)
  BY InvSound DEF Sound
<1>3. CASE Publish
  <2>1. overlay' \in [Envs -> SUBSET Services]
    <3>1. BaseServices \subseteq Services
      BY <1>2 DEF BaseServices, WellFormed, Service
    <3>2. overlay \in [Envs -> SUBSET Services]
      BY DEF Inv, TypeOK
    <3>3. \A e \in Envs : Overlay(e) \in SUBSET Services
      BY <3>1 DEF Overlay
    <3> QED BY <1>3, <3>2, <3>3 DEF Publish
  <2>2. inject' \in [Envs -> [Slugs -> SUBSET Services]]
    <3>1. inject \in [Envs -> [Slugs -> SUBSET Services]]
      BY DEF Inv, TypeOK
    <3>2. \A e \in Envs : \A set : Extras(e, set) \in [Slugs -> SUBSET Services]
      BY <3>1 DEF Extras, NoInject
    <3> QED BY <1>3, <3>1, <3>2 DEF Publish
  <2>3. merged' \in BOOLEAN
    BY <1>3 DEF Publish
  <2> QED BY <1>1, <2>1, <2>2, <2>3, RunInv DEF Inv, TypeOK, Phases
<1>4. CASE merged' = FALSE /\ UNCHANGED <<overlay, inject>>
  BY <1>1, <1>4, RunInv DEF Inv, TypeOK, Phases
<1> QED BY <1>3, <1>4 DEF Step1

LEMMA ApplyInv == ASSUME Inv, NEW x \in KeptClaims, ApplyClaim(x) PROVE Inv'
<1>1. /\ phase = "apply"
      /\ xr' = [xr EXCEPT ![Instance(x)] = IF @ = "absent" THEN "settling" ELSE @]
      /\ done' = done \cup {x}
      /\ UNCHANGED <<rows, strayed, misread, sent, request, status, phase, overlay,
                     inject, merged, secret, key>>
  BY DEF ApplyClaim, Handled, runVars, gitVars, credVars
<1>2. xr' \in [Instances -> {"absent", "settling", "ready", "lingering", "terminating"}]
  BY <1>1 DEF Inv, TypeOK
<1> QED BY <1>1, <1>2, RunInv DEF Inv, TypeOK

LEMMA DeleteClaimInv == ASSUME Inv, NEW x \in RemovedClaims, DeleteClaim(x) PROVE Inv'
<1> DEFINE i == Instance(x)
<1>1. /\ phase = "apply"
      /\ \E new \in {xr[i], "lingering", "terminating"} : xr' = [xr EXCEPT ![i] = new]
      /\ done' = done \cup {x}
      /\ \E secrets, keys : Drop(secrets, keys)
      /\ UNCHANGED <<rows, strayed, misread, sent, request, status, phase, overlay,
                     inject, merged>>
  BY DEF DeleteClaim, Handled, runVars, gitVars
<1>0. i \in Instances
  BY InvSound, ClaimTyped DEF Sound
<1>2. xr' \in [Instances -> {"absent", "settling", "ready", "lingering", "terminating"}]
  BY <1>0, <1>1 DEF Inv, TypeOK
<1>3. /\ secret' \in [Envs \X Slugs -> SUBSET Fields]
      /\ key' \in [Envs \X Slugs -> BOOLEAN]
  BY <1>1, DropTyped
<1> QED BY <1>1, <1>2, <1>3, RunInv DEF Inv, TypeOK

LEMMA EndApplyInv == ASSUME Inv, EndApply PROVE Inv'
<1>1. /\ phase = "apply" /\ phase' = "check" /\ done' = {}
      /\ \E secrets, keys : Drop(secrets, keys)
      /\ UNCHANGED <<rows, strayed, misread, sent, request, status, overlay, inject,
                     merged, xr>>
  BY DEF EndApply, runVars, gitVars
<1>2. /\ secret' \in [Envs \X Slugs -> SUBSET Fields]
      /\ key' \in [Envs \X Slugs -> BOOLEAN]
  BY <1>1, DropTyped
<1> QED BY <1>1, <1>2, RunInv DEF Inv, TypeOK, Phases

LEMMA CheckInv == ASSUME Inv, CheckReady PROVE Inv'
<1>1. /\ phase = "check" /\ phase' = "extract"
      /\ \A x \in RemovedClaims : xr[Instance(x)] = "absent"
      /\ misread' = {Instance(x) : x \in {y \in KeptClaims : xr[Instance(y)] = "lingering"}}
      /\ UNCHANGED <<rows, strayed, sent, request, status, done, overlay, inject, merged, xr,
                     secret, key>>
  BY DEF CheckReady, gitVars, credVars
<1>2. misread' \subseteq Instances
  BY <1>1, InvSound, ClaimTyped DEF Sound
<1> QED BY <1>1, <1>2, RunInv DEF Inv, TypeOK, Phases

LEMMA ExtractInv == ASSUME Inv, NEW x \in KeptClaims, ExtractClaim(x) PROVE Inv'
<1> DEFINE e == CapabilityEnv(rows, x[1])
           i == <<e, x[2]>>
           set == NamesIn(e, Accessors(rows, x[1]))
<1>1. /\ phase = "extract"
      /\ secret' = [secret EXCEPT ![i] = StoreSecret(x, i)]
      /\ key' = [key EXCEPT ![i] = @ \/ x[1].type \in AwsTypes]
      /\ inject' = [inject EXCEPT ![e][x[2]] = set]
      /\ done' = done \cup {x}
      /\ UNCHANGED <<rows, strayed, misread, sent, request, status, phase, overlay,
                     merged, xr>>
  BY DEF ExtractClaim, Handled, runVars
<1>2. i \in Envs \X Slugs /\ set \subseteq Services
  BY InvSound, ClaimTyped DEF Sound, NamesIn
<1>3. secret' \in [Envs \X Slugs -> SUBSET Fields]
  <2>1. secret \in [Envs \X Slugs -> SUBSET Fields]
    BY DEF Inv, TypeOK
  <2>2. StoreSecret(x, i) \subseteq Fields
    BY <1>2, <2>1 DEF StoreSecret, Credentials, Fields
  <2> QED BY <1>1, <2>1, <2>2
<1>4. key' \in [Envs \X Slugs -> BOOLEAN]
  <2>1. key \in [Envs \X Slugs -> BOOLEAN]
    BY DEF Inv, TypeOK
  <2> QED BY <1>1, <2>1
<1>5. inject' \in [Envs -> [Slugs -> SUBSET Services]]
  <2>1. inject \in [Envs -> [Slugs -> SUBSET Services]]
    BY DEF Inv, TypeOK
  <2> QED BY <1>1, <1>2, <2>1
<1> QED BY <1>1, <1>3, <1>4, <1>5, RunInv DEF Inv, TypeOK, Gone

LEMMA ExtractDiesInv == ASSUME Inv, NEW x \in KeptClaims, ExtractDies(x) PROVE Inv'
<1> DEFINE i == <<CapabilityEnv(rows, x[1]), x[2]>>
<1>1. /\ key' = [key EXCEPT ![i] = TRUE] /\ done' = {}
      /\ UNCHANGED <<rows, strayed, misread, sent, request, status, phase, overlay,
                     inject, merged, xr, secret>>
  BY DEF ExtractDies, runVars, gitVars
<1>2. key' \in [Envs \X Slugs -> BOOLEAN]
  BY <1>1 DEF Inv, TypeOK
<1> QED BY <1>1, <1>2, RunInv DEF Inv, TypeOK, Gone

LEMMA RetryInv == ASSUME Inv, Retry PROVE Inv'
<1>1. /\ done' = {}
      /\ UNCHANGED <<rows, strayed, misread, sent, request, status, phase, overlay, inject,
                     merged, xr, secret, key>>
  BY DEF Retry, runVars, gitVars, credVars
<1> QED BY <1>1, RunInv DEF Inv, TypeOK, Gone

LEMMA FailInv == ASSUME Inv, Fail PROVE Inv'
<1>1. /\ status' = "failed" /\ phase' = "idle" /\ done' = {}
      /\ UNCHANGED <<rows, strayed, misread, sent, request, overlay, inject, merged, xr, secret,
                     key>>
  BY DEF Fail, gitVars, credVars
<1> QED BY <1>1, RunInv DEF Inv, TypeOK, Phases

\* Crossplane finishes what it was asked for: an absent instance stays absent.
LEMMA CrossplaneInv ==
  ASSUME Inv, NEW i \in Instances, Settle(i) \/ Notice(i) \/ Vanish(i)
  PROVE  Inv'
<1>1. /\ xr[i] # "absent"
      /\ \E new \in {"ready", "terminating", "absent"} : xr' = [xr EXCEPT ![i] = new]
      /\ UNCHANGED <<rows, strayed, misread, sent, request, status, phase, done, overlay,
                     inject, merged, secret, key>>
  BY DEF Settle, Notice, Vanish, runVars, gitVars, credVars
<1>2. xr \in [Instances -> {"absent", "settling", "ready", "lingering", "terminating"}]
  BY DEF Inv, TypeOK
<1>3. xr' \in [Instances -> {"absent", "settling", "ready", "lingering", "terminating"}]
  BY <1>1, <1>2
<1>4. \A x \in RemovedClaims : Instance(x) \in Instances
  BY InvSound, ClaimTyped DEF Sound
<1>5. phase' = "extract" => \A x \in RemovedClaims : xr'[Instance(x)] = "absent"
  BY <1>1, <1>2, <1>4 DEF Inv, Gone
<1> QED BY <1>1, <1>3, <1>5, RunInv DEF Inv, TypeOK

LEMMA SucceedInv == ASSUME Inv, Succeed PROVE Inv'
<1>1. /\ rows' = Purged /\ status' = "success" /\ phase' = "idle" /\ done' = {}
      /\ UNCHANGED <<strayed, misread, sent, request, overlay, inject, merged, xr,
                     secret, key>>
  BY DEF Succeed, gitVars, credVars
<1>2. WellFormed(Purged) /\ Home(Purged, strayed) /\ Born(Purged, sent)
  BY InvSound, PurgedRows
<1>3. WellFormed(rows)' /\ Home(rows, strayed)' /\ Born(rows, sent)'
  BY <1>1, <1>2 DEF WellFormed, Home, Born
<1>4. TypeOK'
  BY <1>1, <1>3 DEF Inv, TypeOK, WellFormed, Phases
<1> QED BY <1>1, <1>3, <1>4 DEF Inv, Gone

LEMMA CreateInv == ASSUME Inv, NEW entries \in Creations, Create(entries) PROVE Inv'
<1>1. WellFormed(rows') /\ Home(rows', strayed') /\ Born(rows', sent')
  BY CreateRows DEF Inv, TypeOK
<1>2. PICK db : Commit([kind |-> "create", envs |-> {}, updates |-> <<>>], db)
  BY DEF Create
<1>3. strayed' \subseteq Capabilities
  BY DEF Create, Inv, TypeOK
<1> QED BY <1>1, <1>2, <1>3, CommitInv

LEMMA UpdateInv == ASSUME Inv, NEW entries \in Updates, Update(entries) PROVE Inv'
<1>1. WellFormed(rows') /\ Home(rows', strayed') /\ Born(rows', sent')
  BY InvSound, UpdateRows
<1>2. Commit([kind |-> "update", envs |-> {}, updates |-> entries], Merged(entries))
  BY DEF Update
<1>3. Astray(entries) \subseteq Visible(rows)
  BY AstrayPatched, PatchedVisible
<1>4. strayed' \subseteq Capabilities
  BY <1>3, InvSound, AccessorsTyped DEF Update, Inv, TypeOK, Sound
<1> QED BY <1>1, <1>2, <1>4, CommitInv

LEMMA DeleteInv == ASSUME Inv, NEW e \in Envs, Delete(e) PROVE Inv'
<1>1. Commit([kind |-> "delete", envs |-> {e}, updates |-> <<>>], rows)
  BY DEF Delete
<1>2. /\ rows' = rows /\ strayed' = strayed /\ sent' = sent + 1 /\ sent \in 0 .. MaxRequests
      /\ strayed \subseteq Capabilities
  BY <1>1 DEF Delete, Commit, Inv, TypeOK
<1>3. WellFormed(rows') /\ Home(rows', strayed') /\ Born(rows', sent')
  BY <1>2, InvSound, DesiredStateAssumption DEF Sound, Born, Home, WellFormed
<1> QED BY <1>1, <1>2, <1>3, CommitInv

\* Every step keeps the invariant.
LEMMA NextInv == Inv /\ [Next]_vars => Inv'
<1> SUFFICES ASSUME Inv, [Next]_vars PROVE Inv'
  OBVIOUS
<1>1. CASE Submit
  BY <1>1, CreateInv, UpdateInv, DeleteInv DEF Submit
<1>2. CASE Step1
  BY <1>2, Step1Inv
<1>3. CASE \E x \in KeptClaims : ApplyClaim(x)
  BY <1>3, ApplyInv
<1>4. CASE \E x \in RemovedClaims : DeleteClaim(x)
  BY <1>4, DeleteClaimInv
<1>5. CASE EndApply
  BY <1>5, EndApplyInv
<1>6. CASE CheckReady
  BY <1>6, CheckInv
<1>7. CASE \E x \in KeptClaims : ExtractClaim(x) \/ ExtractDies(x)
  BY <1>7, ExtractInv, ExtractDiesInv
<1>8. CASE Retry
  BY <1>8, RetryInv
<1>9. CASE Succeed
  BY <1>9, SucceedInv
<1>10. CASE Fail
  BY <1>10, FailInv
<1>11. CASE \E i \in Instances : Settle(i) \/ Notice(i) \/ Vanish(i)
  BY <1>11, CrossplaneInv
<1>12. CASE UNCHANGED vars
  BY <1>12, RunInv DEF Inv, TypeOK, Gone, vars, gitVars, credVars
<1> QED BY <1>1, <1>2, <1>3, <1>4, <1>5, <1>6, <1>7, <1>8, <1>9, <1>10, <1>11, <1>12
        DEF Next

-----------------------------------------------------------------------------
(* Theorems *)

\* Along every behavior the invariant holds.
THEOREM Invariance == Spec => []Inv
<1>1. Init => Inv
  BY InitInv
<1>2. Inv /\ [Next]_vars => Inv'
  BY NextInv
<1> QED BY <1>1, <1>2, PTL DEF Spec

\* The variables have their types and the foreign keys hold: no edge dangles,
\* whatever creates, updates, purges and failed runs do to the rows.
THEOREM TypeCorrect == Spec => []TypeOK
<1>1. Inv => TypeOK
  BY DEF Inv
<1> QED BY <1>1, Invariance, PTL

\* The environment _capability_env derives from the first edge it finds is that
\* of every edge: no create, upsert, purge or patch binds a capability across
\* environments, but for a patch whose services are looked up in another one.
THEOREM OneEnvironment == Spec => []OneEnvironmentEach
<1>1. Inv => OneEnvironmentEach
  <2> SUFFICES ASSUME Inv, NEW c \in DOMAIN rows.config \ strayed,
                      NEW s \in Accessors(rows, c), NEW t \in Accessors(rows, c)
               PROVE  s[1] = t[1]
    BY DEF OneEnvironmentEach
  <2>1. s[1] = c.env /\ t[1] = c.env
    BY EnvsHome DEF Inv
  <2> QED BY <2>1
<1> QED BY <1>1, Invariance, PTL

\* Only a create, an update and the purge write the rows, and only the purge
\* takes capabilities away.
LEMMA WhoPurges ==
  ASSUME Inv, [Next]_vars, DOMAIN rows.config \ DOMAIN rows'.config # {}
  PROVE  Succeed
<1>1. rows' # rows
  OBVIOUS
<1>2. ASSUME NEW entries \in Creations, Create(entries) PROVE FALSE
  <2>1. sent = 0
    BY <1>2 DEF Create
  <2>2. DOMAIN rows.config = {}
    BY <2>1 DEF Inv, Born
  <2> QED BY <2>2
<1>3. ASSUME NEW entries \in Updates, Update(entries) PROVE FALSE
  <2>1. rows' = Merged(entries)
    BY <1>3 DEF Update, Commit
  <2>2. DOMAIN rows.config \subseteq DOMAIN rows'.config
    BY <2>1, Unmerged
  <2> QED BY <2>2
<1>4. ASSUME NEW e \in Envs, Delete(e) PROVE FALSE
  BY <1>1, <1>4 DEF Delete, Commit
<1> QED
  BY <1>1, <1>2, <1>3, <1>4
     DEF Next, Submit, Step1, ApplyClaim, DeleteClaim, EndApply, CheckReady, ExtractClaim,
         ExtractDies, Retry, Fail, Settle, Notice, Vanish, runVars, vars

\* A capability's row goes only when every instance it stands for is gone.
THEOREM PurgeWaits == Spec => PurgeAfterTeardown
<1> DEFINE Waits == \A c \in DOMAIN rows.config \ DOMAIN rows'.config :
                       \A s \in rows.config[c] : xr[Instance(<<c, s>>)] = "absent"
<1>1. Inv /\ [Next]_vars => [Waits]_vars
  <2> SUFFICES ASSUME Inv, [Next]_vars,
                      NEW c \in DOMAIN rows.config \ DOMAIN rows'.config,
                      NEW s \in rows.config[c]
               PROVE  xr[Instance(<<c, s>>)] = "absent"
    OBVIOUS
  <2>1. Succeed
    BY WhoPurges
  <2>2. c \in Visible(rows) /\ TornDown(c)
    BY <2>1 DEF Succeed, Purged
  <2>3. <<c, s>> \in RemovedClaims
    BY <2>2 DEF RemovedClaims, Claims
  <2> QED BY <2>1, <2>3 DEF Inv, Gone, Succeed
<1> QED BY <1>1, Invariance, PTL DEF Spec, PurgeAfterTeardown

\* What a deletion drops belongs to what the request removes; storing merges.
LEMMA SecretShrinks ==
  ASSUME Inv, [Next]_vars, NEW i \in Envs \X Slugs, "key" \in secret[i], "key" \notin secret'[i]
  PROVE  \/ i[1] \in request.envs
         \/ \E x \in RemovedClaims : <<Instance(x)[1], x[2]>> = i
<1>1. secret' # secret
  OBVIOUS
<1>2. ASSUME NEW x \in RemovedClaims, DeleteClaim(x)
      PROVE  <<Instance(x)[1], x[2]>> = i
  <2>1. PICK secrets \in {{<<Instance(x)[1], Instance(x)[3]>>}, {}} : \E keys : Drop(secrets, keys)
    BY <1>2 DEF DeleteClaim, Cleaned
  <2>2. i \in secrets
    BY <2>1 DEF Drop
  <2>3. Instance(x)[3] = x[2]
    BY DEF Instance
  <2> QED BY <2>1, <2>2, <2>3
<1>3. ASSUME EndApply PROVE i[1] \in request.envs
  <2>1. PICK secrets \in {request.envs \X Slugs, {}} : \E keys : Drop(secrets, keys)
    BY <1>3 DEF EndApply, Cleaned
  <2>2. i \in secrets
    BY <2>1 DEF Drop
  <2> QED BY <2>1, <2>2
<1>4. ASSUME NEW x \in KeptClaims, ExtractClaim(x) PROVE FALSE
  <2>1. PICK j : secret' = [secret EXCEPT ![j] = StoreSecret(x, j)]
    BY <1>4 DEF ExtractClaim
  <2>2. secret[j] \subseteq StoreSecret(x, j)
    BY DEF StoreSecret
  <2>3. secret \in [Envs \X Slugs -> SUBSET Fields]
    BY DEF Inv, TypeOK
  <2> QED BY <2>1, <2>2, <2>3
<1> QED
  BY <1>1, <1>2, <1>3, <1>4
     DEF Next, Submit, Create, Update, Delete, Commit, Step1, ApplyClaim, CheckReady,
         ExtractDies, Retry, Succeed, Fail, Settle, Notice, Vanish, runVars, credVars, vars

\* A secret key, told once by AWS, stays stored as long as its access key lives,
\* unless what it belongs to is removed.
THEOREM KeySurvives == Spec => StoredKeySurvives
<1> DEFINE Survives ==
      \A i \in Envs \X Slugs :
         /\ "key" \in secret[i] /\ key[i] /\ key'[i]
         /\ i[1] \notin request.envs
         /\ \A x \in RemovedClaims : <<Instance(x)[1], x[2]>> # i
         => "key" \in secret'[i]
<1>1. Inv /\ [Next]_vars => [Survives]_vars
  BY SecretShrinks
<1> QED BY <1>1, Invariance, PTL DEF Spec, StoredKeySurvives

-----------------------------------------------------------------------------
(* No orphans *)

\* Who still holds a capability once what the request removes is gone.
Staying(c) == Accessors(rows, c) \ Leaving

Untwinned(c) == ~\E d \in DOMAIN rows.config : Twin(c, d)

\* What the orphan rule establishes when it validates an update, and what the
\* purge relies on when the run has succeeded.
Held == status = "in_progress" =>
          \A c \in Visible(rows) \ strayed : ~TornDown(c) /\ Untwinned(c) => Staying(c) # {}

\* The entries of an update are about different environments.
LEMMA OneEntryEach ==
  ASSUME NEW entries \in Updates, NEW u \in Delta(entries), NEW v \in Delta(entries),
         u.env = v.env
  PROVE  u = v
BY DesiredStateAssumption DEF Delta

\* What an update removes.
LEMMA UpdateLeaving ==
  ASSUME NEW entries \in Updates, Update(entries)
  PROVE  /\ \A s : s \in Leaving' <=>
              s \in rows'.services /\ \E u \in Delta(entries) :
                                         u.env = s[1] /\ s[2] \in u.removeServices
         /\ \A c : TornDown(c)' <=>
              \E u \in Delta(entries) : u.env = CapabilityEnv(rows', c)
                                          /\ c.type \in u.removeCapabilities
<1>1. request' = [kind |-> "update", envs |-> {}, updates |-> entries]
  BY DEF Update, Commit
<1>2. Entries(request)' = Delta(entries)
  BY <1>1 DEF Entries, Delta
<1>3. \A s : s \in Leaving' <=>
         s \in rows'.services /\ \E u \in Delta(entries) :
                                    u.env = s[1] /\ s[2] \in u.removeServices
  BY <1>1, <1>2 DEF Leaving
<1>4. \A c : TornDown(c)' <=>
         \E u \in Delta(entries) : u.env = CapabilityEnv(rows', c)
                                     /\ c.type \in u.removeCapabilities
  BY <1>1, <1>2 DEF TornDown
<1> QED BY <1>3, <1>4

\* The services a grant or a patch names are not among those that leave.
LEMMA AddedStays ==
  ASSUME NEW entries \in Updates, Update(entries), NEW u \in Delta(entries), NEW s,
         \/ \E g \in u.capabilities : s \in g.access
         \/ \E p \in u.patches : s \in p.access
  PROVE  <<u.env, s>> \notin Leaving'
<1>1. ValidEntry(u)
  BY DEF Update, Delta
<1>2. s \notin u.removeServices
  BY <1>1 DEF ValidEntry, ValidPatch
<1> QED BY <1>2, UpdateLeaving, OneEntryEach

\* The edges after an update: those not revoked and those added.
LEMMA EdgesAfterUpdate ==
  ASSUME NEW entries \in Updates, Update(entries)
  PROVE  /\ rows.services \subseteq rows'.services
         /\ DOMAIN rows.config \subseteq DOMAIN rows'.config
         /\ \A q \in Granted(entries) : Row(entries, q[1], q[2]) \in DOMAIN rows'.config
         /\ \A x \in rows.access \ Revoked(entries) : x \in rows'.access
         /\ \A q \in Granted(entries) : \A s \in q[2].access :
              <<Row(entries, q[1], q[2]), <<q[1].env, s>>>> \in rows'.access
         /\ \A q \in Patched(entries) : \A t \in Targets(entries, q[1], q[2]) :
              <<q[2].capability, t>> \in rows'.access
         /\ \A x \in rows'.access :
              \/ x \in rows.access
              \/ \E q \in Granted(entries) :
                    x \in {Row(entries, q[1], q[2])} \X Names(q[1].env, q[2].access)
              \/ \E q \in Patched(entries) :
                    x \in {q[2].capability} \X Targets(entries, q[1], q[2])
<1>1. rows' = Merged(entries)
  BY DEF Update, Commit
<1>2. ASSUME NEW q \in Granted(entries), NEW s \in q[2].access
      PROVE  <<Row(entries, q[1], q[2]), <<q[1].env, s>>>> \in rows'.access
  <2>1. <<Row(entries, q[1], q[2]), <<q[1].env, s>>>>
          \in {Row(entries, q[1], q[2])} \X Names(q[1].env, q[2].access)
    BY DEF Names
  <2> QED BY <1>1, <2>1, Unmerged
<1>3. ASSUME NEW q \in Patched(entries), NEW t \in Targets(entries, q[1], q[2])
      PROVE  <<q[2].capability, t>> \in rows'.access
  BY <1>1, Unmerged
<1>4. /\ rows.services \subseteq rows'.services
      /\ DOMAIN rows.config \subseteq DOMAIN rows'.config
      /\ \A q \in Granted(entries) : Row(entries, q[1], q[2]) \in DOMAIN rows'.config
      /\ \A x \in rows.access \ Revoked(entries) : x \in rows'.access
  BY <1>1, Unmerged
<1>5. \A x \in rows'.access :
         \/ x \in rows.access
         \/ \E q \in Granted(entries) :
               x \in {Row(entries, q[1], q[2])} \X Names(q[1].env, q[2].access)
         \/ \E q \in Patched(entries) :
               x \in {q[2].capability} \X Targets(entries, q[1], q[2])
  BY <1>1, Unmerged
<1> QED BY <1>2, <1>3, <1>4, <1>5

\* Whoever a grant names holds the row it is written to afterwards, and stays.
LEMMA GrantedHold ==
  ASSUME Sound, NEW entries \in Updates, Update(entries), NEW q \in Granted(entries)
  PROVE  /\ q[1].env \in EnvsOf(rows', Row(entries, q[1], q[2]))
         /\ Accessors(rows', Row(entries, q[1], q[2])) \ Leaving' # {}
<1>1. q[1] \in Delta(entries) /\ q[2] \in q[1].capabilities
  BY DeltaTyped
<1>2. PICK s : s \in q[2].access
  BY <1>1 DEF Update, Delta, ValidEntry
<1>3. <<Row(entries, q[1], q[2]), <<q[1].env, s>>>> \in rows'.access
  BY <1>2, EdgesAfterUpdate
<1>4. <<q[1].env, s>> \in Accessors(rows', Row(entries, q[1], q[2]))
  BY <1>3, UpdateRows DEF WellFormed, Accessors
<1>5. <<q[1].env, s>> \notin Leaving'
  BY <1>1, <1>2, AddedStays
<1> QED BY <1>4, <1>5 DEF EnvsOf

\* So does whoever a patch names, unless it goes astray.
LEMMA PatchedHold ==
  ASSUME Sound, NEW entries \in Updates, Update(entries), NEW q \in Patched(entries),
         q[2].capability \notin Astray(entries)
  PROVE  Accessors(rows', q[2].capability) \ Leaving' # {}
<1>1. q[1] \in Delta(entries) /\ q[2] \in q[1].patches
  BY DeltaTyped
<1>2. PICK s : s \in q[2].access
  BY PatchedVisible DEF ValidPatch
<1>3. q[1].env = LookedUp(entries)
  BY AstrayPatched
<1>4. <<q[1].env, s>> \in Targets(entries, q[1], q[2])
  BY <1>2, <1>3 DEF Targets, Names
<1>5. <<q[1].env, s>> \in Accessors(rows', q[2].capability)
  BY <1>4, EdgesAfterUpdate, TargetsTyped DEF Accessors
<1>6. <<q[1].env, s>> \notin Leaving'
  BY <1>1, <1>2, AddedStays
<1> QED BY <1>5, <1>6

\* A capability that has no twin after an update is the one that the grants of its
\* type were written to.
LEMMA SoleRow ==
  ASSUME Sound, NEW entries \in Updates, Update(entries),
         NEW c \in Visible(rows), EnvsOf(rows, c) = {c.env},
         EnvsOf(rows', c) = {c.env}, Untwinned(c)',
         NEW q \in Granted(entries), q[1].env = c.env, q[2].type = c.type
  PROVE  Row(entries, q[1], q[2]) = c
<1> DEFINE d == Row(entries, q[1], q[2])
           found == Matching(rows, q[1].env, q[2].type)
                      \cup {a \in Astray(entries) :
                              a.type = q[2].type /\ q[1].env = LookedUp(entries)}
<1>1. c \in found
  BY DEF Matching
<1>2. d \in found
  BY <1>1 DEF Row
<1>3. d.type = c.type
  BY <1>2 DEF Matching
<1>4. d \in DOMAIN rows'.config
  BY EdgesAfterUpdate
<1>5. c.env \in EnvsOf(rows', d)
  BY GrantedHold
<1>6. d = c
  BY <1>3, <1>4, <1>5 DEF Untwinned, Twin
<1> QED BY <1>6

\* An edge is there after an update, or a patch put another in its place.
LEMMA EdgeKept ==
  ASSUME Sound, NEW entries \in Updates, Update(entries),
         NEW c, c \notin Astray(entries), NEW s \in Accessors(rows, c)
  PROVE  s \in Accessors(rows', c) \/ Accessors(rows', c) \ Leaving' # {}
<1>1. <<c, s>> \in rows.access /\ s \in rows.services
  BY DEF Accessors
<1>2. CASE <<c, s>> \in Revoked(entries)
  <2>1. PICK q \in Patched(entries) : q[2].capability = c
    BY <1>2 DEF Revoked
  <2> QED BY <2>1, PatchedHold
<1>3. CASE <<c, s>> \notin Revoked(entries)
  BY <1>1, <1>3, EdgesAfterUpdate DEF Accessors
<1> QED BY <1>2, <1>3

\* The orphan rule of an update establishes Held: its future accessors hold the
\* capability after the merge and do not leave with the purge.
LEMMA UpdateHeld ==
  ASSUME Sound, NEW entries \in Updates, Update(entries)
  PROVE  Held'
<1>0. /\ WellFormed(rows') /\ Home(rows', strayed')
      /\ strayed' = strayed \cup Astray(entries)
  BY UpdateRows DEF Update
<1> SUFFICES ASSUME NEW c \in Visible(rows') \ strayed', ~TornDown(c)', Untwinned(c)'
             PROVE  Accessors(rows', c) \ Leaving' # {}
  BY DEF Held, Staying
<1>1. CapabilityEnv(rows', c) = c.env /\ EnvsOf(rows', c) = {c.env}
  BY <1>0, EnvHome
<1>2. PICK s : s \in Accessors(rows', c)
  BY DEF Visible
<1>3. s[1] = c.env
  BY <1>0, <1>2, EnvsHome
<1>4. CASE s \notin Leaving'
  BY <1>2, <1>4
<1>5. CASE s \in Leaving'
  <2>1. PICK u \in Delta(entries) : u.env = c.env /\ s[2] \in u.removeServices
    BY <1>3, <1>5, UpdateLeaving
  <2>2. ValidEntry(u) /\ c.type \notin u.removeCapabilities
    BY <1>1, <2>1, UpdateLeaving DEF Update, Delta
  <2>3. CASE c \in Visible(rows)
    <3>1. EnvsOf(rows, c) = {c.env} /\ CapabilityEnv(rows, c) = c.env
      BY <1>0, <2>3, EnvHome DEF Sound
    <3>2. PICK f : f \in FutureAccessors(u, c)
      BY <2>1, <2>2, <2>3, <3>1 DEF ValidEntry, KeepsAccessors
    <3>3. CASE <<u.env, f>> \in Accessors(rows, c) /\ f \notin u.removeServices
      <4>1. <<u.env, f>> \notin Leaving'
        BY <3>3, UpdateLeaving, OneEntryEach
      <4> QED BY <1>0, <3>3, <4>1, EdgeKept
    <3>4. CASE \E g \in u.capabilities : g.type = c.type
      <4>1. PICK g \in u.capabilities : g.type = c.type
        BY <3>4
      <4>2. <<u, g>> \in Granted(entries)
        BY DEF Granted
      <4>3. Row(entries, u, g) = c
        BY <1>1, <2>1, <2>3, <3>1, <4>1, <4>2, SoleRow
      <4>4. Accessors(rows', Row(entries, u, g)) \ Leaving' # {}
        BY <4>2, GrantedHold
      <4> QED BY <4>3, <4>4
    <3>5. \/ <<u.env, f>> \in Accessors(rows, c) /\ f \notin u.removeServices
          \/ \E g \in u.capabilities : g.type = c.type
      BY <3>2 DEF FutureAccessors
    <3> QED BY <3>3, <3>4, <3>5
  <2>4. CASE c \notin Visible(rows)
    <3>1. <<c, s>> \in rows'.access
      BY <1>2 DEF Accessors
    <3>2. <<c, s>> \notin rows.access
      BY <2>4 DEF Visible, Accessors, Sound, WellFormed
    <3>3. CASE \E q \in Granted(entries) :
                 <<c, s>> \in {Row(entries, q[1], q[2])} \X Names(q[1].env, q[2].access)
      BY <3>3, GrantedHold
    <3>4. ~\E q \in Patched(entries) :
             <<c, s>> \in {q[2].capability} \X Targets(entries, q[1], q[2])
      BY <2>4, PatchedVisible
    <3> QED BY <3>1, <3>2, <3>3, <3>4, EdgesAfterUpdate
  <2> QED BY <2>3, <2>4
<1> QED BY <1>4, <1>5

\* A create removes nothing.
LEMMA CreateHeld ==
  ASSUME NEW entries \in Creations, Create(entries)
  PROVE  Held'
<1>1. request'.kind = "create"
  BY DEF Create, Commit
<1>2. Leaving' = {}
  BY <1>1 DEF Leaving
<1> QED BY <1>2 DEF Held, Staying, Visible

\* An environment is deleted whole: what is bound elsewhere does not lose anyone.
LEMMA DeleteHeld ==
  ASSUME Inv, NEW e \in Envs, Delete(e)
  PROVE  Held'
<1>1. /\ rows' = rows /\ strayed' = strayed
      /\ request' = [kind |-> "delete", envs |-> {e}, updates |-> <<>>]
  BY DEF Delete, Commit
<1> SUFFICES ASSUME NEW c \in Visible(rows') \ strayed', ~TornDown(c)'
             PROVE  Accessors(rows', c) \ Leaving' # {}
  BY DEF Held, Staying
<1>2. c \in Visible(rows) \ strayed
  BY <1>1
<1>3. CapabilityEnv(rows, c) = c.env
  BY <1>2, InvSound, EnvHome DEF Sound
<1>4. c.env # e
  BY <1>1, <1>3 DEF TornDown
<1>5. PICK s : s \in Accessors(rows, c)
  BY <1>2 DEF Visible
<1>6. s[1] # e
  BY <1>2, <1>4, <1>5, EnvsHome DEF Inv
<1>7. s \notin Leaving'
  BY <1>1, <1>6 DEF Leaving
<1> QED BY <1>1, <1>5, <1>7

\* While the rows and the request stay, so does what holds them.
LEMMA HeldStays ==
  ASSUME Held, UNCHANGED <<rows, strayed, request>>,
         status' = "in_progress" => status = "in_progress"
  PROVE  Held'
<1>1. \A c : TornDown(c)' = TornDown(c)
  BY DEF TornDown, Entries
<1>2. Leaving' = Leaving
  BY DEF Leaving, Entries
<1>3. \A c : Staying(c)' = Staying(c)
  BY <1>2 DEF Staying
<1>4. \A c : Untwinned(c)' = Untwinned(c)
  BY DEF Untwinned, Twin
<1>5. Visible(rows)' = Visible(rows)
  OBVIOUS
<1> QED BY <1>1, <1>3, <1>4, <1>5 DEF Held

\* Steps that are neither a submission nor the callback that ends a run well.
LEMMA OtherSteps ==
  ASSUME Inv, [Next]_vars
  PROVE  \/ \E entries \in Creations : Create(entries)
         \/ \E entries \in Updates : Update(entries)
         \/ \E e \in Envs : Delete(e)
         \/ Succeed
         \/ UNCHANGED <<rows, strayed, request>> /\ (status' = "in_progress" => status = "in_progress")
BY DEF Next, Submit, Step1, ApplyClaim, DeleteClaim, EndApply, CheckReady, ExtractClaim,
       ExtractDies, Retry, Fail, Settle, Notice, Vanish, runVars, vars

\* Every step keeps Held.
LEMMA HeldInv == Inv /\ Held /\ [Next]_vars => Held'
<1> SUFFICES ASSUME Inv, Held, [Next]_vars PROVE Held'
  OBVIOUS
<1>1. CASE Succeed
  BY <1>1 DEF Succeed, Held
<1> QED BY <1>1, OtherSteps, InvSound, CreateHeld, UpdateHeld, DeleteHeld, HeldStays

\* From the validation of a removal to its purge nobody takes the last accessor
\* of a capability that stays, unless a twin of it confuses the upsert or a patch
\* of it went astray.
THEOREM NoOrphans == Spec => NoOrphaning
<1> DEFINE Stay == \A c \in DOMAIN rows.config :
                      /\ Reachable(c) /\ c \in DOMAIN rows'.config \ strayed'
                      /\ ~\E d \in DOMAIN rows.config : Twin(c, d)
                      => Reachable(c)'
<1>1. Init => Held
  BY DEF Init, Held
<1>2. Inv /\ Held /\ [Next]_vars => [Stay]_vars
  <2> SUFFICES ASSUME Inv, Held, [Next]_vars,
                      NEW c \in DOMAIN rows.config, Reachable(c),
                      c \in DOMAIN rows'.config \ strayed', Untwinned(c)
               PROVE  Accessors(rows', c) # {}
    BY DEF Reachable, Untwinned
  <2>1. c \in Visible(rows)
    BY DEF Reachable, Visible
  <2>2. ASSUME NEW entries \in Creations, Create(entries)
        PROVE  FALSE
    BY <2>2 DEF Create, Inv, Born
  <2>3. ASSUME NEW entries \in Updates, Update(entries)
        PROVE  Accessors(rows', c) # {}
    BY <2>1, <2>3, InvSound, EdgeKept DEF Visible, Update
  <2>4. ASSUME NEW e \in Envs, Delete(e)
        PROVE  Accessors(rows', c) # {}
    BY <2>1, <2>4 DEF Delete, Commit, Visible
  <2>5. CASE Succeed
    <3>1. rows' = Purged /\ status = "in_progress" /\ strayed' = strayed
      BY <2>5 DEF Succeed, Inv, TypeOK
    <3>2. ~TornDown(c)
      BY <2>1, <3>1 DEF Purged
    <3>3. PICK s : s \in Accessors(rows, c) \ Leaving
      BY <2>1, <3>1, <3>2 DEF Held, Staying
    <3>4. s \in Accessors(rows', c)
      BY <3>1, <3>2, <3>3 DEF Purged, Accessors
    <3> QED BY <3>4
  <2>6. CASE UNCHANGED <<rows, strayed, request>>
    BY <2>1, <2>6 DEF Visible
  <2> QED BY <2>2, <2>3, <2>4, <2>5, <2>6, OtherSteps
<1> QED BY <1>1, <1>2, Invariance, HeldInv, PTL DEF Spec, NoOrphaning

=============================================================================
