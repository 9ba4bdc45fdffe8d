---------------------------- MODULE GitOpsRepoMC ----------------------------
(* Instances of GitOpsRepo for TLC. *)
EXTENDS GitOpsRepo

CONSTANTS a, b, qa, prod, db

Update(add, remove, claims, unclaim) ==
    [env |-> NoEnv, add |-> add, remove |-> remove, claim |-> claims, unclaim |-> unclaim]
Delete(e) == [env |-> e, add |-> {}, remove |-> {}, claim |-> {}, unclaim |-> {}]

\* One service in two environments with a claim in one of them; a second
\* service; the first and its claim taken away; the deletion of an
\* environment.  After no sequence of these is a service left
\* in an environment of its own (the run desired_footprint of DesiredState
\* shows what Step 1 publishes then).
Calls == {
    Update({<<qa, a>>, <<prod, a>>}, {}, {<<qa, db>>}, {}),
    Update({<<qa, b>>}, {}, {}, {}),
    Update({}, {<<qa, a>>}, {}, {<<qa, db>>}),
    Delete(qa)}
=============================================================================
