-------------------------- MODULE CapabilityStatus --------------------------
(***************************************************************************)
(* Capability.status: what the tables say of a capability.                 *)
(*                                                                         *)
(* Nobody looks at the instance to answer.  A submission puts a capability *)
(* it writes back to pending; the polls of a run report which instances    *)
(* are ready, when the report gets through; extract reports what it found, *)
(* capability by capability and also when others failed.  What was said    *)
(* last is shown until the next report, whatever is done to the instance.  *)
(* The rows, the runs and the instances are those of DesiredState.         *)
(***************************************************************************)
EXTENDS DesiredState

VARIABLES
    shown, \* the status of every capability row
    early, \* history: those shown as successful on the word of a poll alone
    undone \* history: those shown as successful that a removal has begun to
           \* take away, since or, unnoticed by the check, before

historyVars == <<early, undone>>
shownVars == <<vars, shown, historyVars>>

\* Variant: a row that an upsert finds keeps its status.
ReopenedIfNew(entries) ==
    UNION {{Row(entries, entries[i], g) : g \in {h \in entries[i].capabilities :
                                          Matching(rows, entries[i].env, h.type) = {}}}
             \cup {p.capability : p \in entries[i].patches} : i \in DOMAIN entries}

\* The rows that reenter reconciliation: upserted, or bound anew.
Reopened(entries) ==
    UNION {{Row(entries, entries[i], g) : g \in entries[i].capabilities}
             \cup {p.capability : p \in entries[i].patches} : i \in DOMAIN entries}

\* The capabilities a run reports on, those of them a poll finds ready, and
\* those extract is through with.
Remaining == {c \in Visible(rows) : ~TornDown(c)}
Ready     == {c \in Remaining : \A x \in Claims(c) : ReadsReady(Instance(x))}
Served    == {c \in Remaining : Claims(c) \subseteq done}

\* Those of which an instance was taken for ready although it is being deleted:
\* by the poll at hand, and by the check the run has passed.
Lingering == {c \in Ready : \E x \in Claims(c) : xr[Instance(x)] = "lingering"}
Misread   == {c \in Served : \E x \in Claims(c) : Instance(x) \in misread}

Polled(c) ==
    IF c \in Remaining
    THEN IF c \in Ready THEN "success" ELSE "in_progress"
    ELSE shown[c]

\* Variant: extract reports on the environments that the request names only.
RolledIfNamed(c) ==
    IF c \in Remaining /\ \E u \in Entries(request) : u.env = CapabilityEnv(rows, c)
    THEN IF c \in Served THEN "success" ELSE "failed"
    ELSE shown[c]

\* _apply_capability_outputs, of the reports of an extract that is over.
Rolled(c) ==
    IF c \in Remaining
    THEN IF c \in Served THEN "success" ELSE "failed"
    ELSE shown[c]

-----------------------------------------------------------------------------
ShowCreate(entries) ==
    /\ Create(entries)
    /\ shown' = [c \in DOMAIN rows'.config |-> "pending"]
    /\ UNCHANGED historyVars

ShowUpdate(entries) ==
    /\ Update(entries)
    /\ shown' = [c \in DOMAIN rows'.config |->
                   IF c \in Reopened(entries) THEN "pending" ELSE shown[c]]
    /\ early' = early \ Reopened(entries)
    /\ undone' = undone \ Reopened(entries)

Undo(set) ==
    /\ undone' = undone \cup {c \in set : shown[c] = "success"}
    /\ UNCHANGED <<shown, early>>

\* The names a removal takes away may be those of other capabilities too.
UndoClaim(x) ==
    /\ DeleteClaim(x)
    /\ Undo({c \in DOMAIN rows.config : c.env = Instance(x)[1] /\ x[2] \in rows.config[c]})

UndoEnvironment ==
    /\ EndApply
    /\ Undo({c \in DOMAIN rows.config : c.env \in request.envs})

\* The progress report of a poll, of a delete's too: extract has not run yet.
ReportProgress ==
    /\ shown' = [c \in DOMAIN rows.config |-> Polled(c)]
    /\ early' = (early \ Remaining) \cup Ready
    /\ undone' = (undone \ Remaining) \cup Lingering

\* A poll that finds something pending, and the one that does not.
ReportPending ==
    /\ phase = "check"
    /\ Ready # Remaining \/ \E x \in RemovedClaims : xr[Instance(x)] # "absent"
    /\ ReportProgress
    /\ UNCHANGED vars

ReportReady == CheckReady /\ ReportProgress

\* SUCCESS; a delete reports no capabilities.
ReportAll ==
    LET told == IF request.kind = "delete" THEN {} ELSE Remaining
    IN  /\ Succeed
        /\ shown' = [c \in DOMAIN rows'.config |->
                       IF c \in told THEN Rolled(c) ELSE shown[c]]
        /\ early' = (early \cap DOMAIN rows'.config) \ told
        /\ undone' = ((undone \ told) \cup (Misread \cap told)) \cap DOMAIN rows'.config

\* Extract goes on after a capability that failed, and reports all of them.
ReportSome ==
    /\ phase = "extract" /\ request.kind # "delete"
    /\ Served # Remaining
    /\ Fail
    /\ shown' = [c \in DOMAIN rows.config |-> Rolled(c)]
    /\ early' = early \ Remaining
    /\ undone' = (undone \ Remaining) \cup Misread

-----------------------------------------------------------------------------
ShownInit == Init /\ shown = <<>> /\ early = {} /\ undone = {}

\* The steps that tell nobody anything of a capability; the report of a poll
\* may be lost, and the poll goes on.
Silent ==
    \/ \E e \in Envs : Delete(e)
    \/ Step1
    \/ /\ phase \in {"apply", "extract"}
       /\ \E x \in KeptClaims : ApplyClaim(x) \/ ExtractClaim(x) \/ ExtractDies(x)
    \/ CheckReady
    \/ Retry
    \/ Fail
    \/ \E i \in Instances : Settle(i) \/ Notice(i) \/ Vanish(i)

ShownNext ==
    \/ \E entries \in Creations : ShowCreate(entries)
    \/ \E entries \in Updates : ShowUpdate(entries)
    \/ phase = "apply" /\ \E x \in RemovedClaims : UndoClaim(x)
    \/ UndoEnvironment
    \/ ReportPending
    \/ ReportReady
    \/ ReportAll
    \/ ReportSome
    \/ Silent /\ UNCHANGED <<shown, historyVars>>

ShownSpec == ShownInit /\ [][ShownNext]_shownVars

-----------------------------------------------------------------------------
(* Properties *)

\* After a create or an update that succeeded every capability is shown as
\* successful on the word of extract, whatever was shown before and whether the
\* request named it or not.
SuccessIsShown ==
    status = "success" /\ request.kind # "delete" =>
        \A c \in Visible(rows) : shown[c] = "success" /\ c \notin early

\* A capability shown as successful has every instance that its present config
\* asks for, ready, and if extract said so every connection stored, also while
\* later requests change, fail and tear down others.  Unless a removal has begun
\* to undo it: if that fails, success is shown of what is gone, and shown anew by
\* a check that reads the conditions from before.
StatusIsEarned ==
    \A c \in Visible(rows) \ (undone \cup strayed) : shown[c] = "success" =>
        \A s \in rows.config[c] :
          /\ xr[Instance(<<c, s>>)] = "ready"
          /\ c \notin early => "connection" \in secret[<<CapabilityEnv(rows, c), s>>]
=============================================================================
