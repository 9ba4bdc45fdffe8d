-------------------------- MODULE AppReconciliation -------------------------
(***************************************************************************)
(* What the control plane promises about one application, without queue,   *)
(* state machine or workers: its desired state (Service rows) is changed   *)
(* by one request at a time.  A request enters with the rows it adds, and  *)
(* leaves either with success, taking the rows it removes with it, or with *)
(* failure, leaving every row in place for the next attempt.  The App row  *)
(* goes when nothing hangs off it and nothing is under way.                *)
(***************************************************************************)
EXTENDS Naturals

CONSTANTS Apps, Services, MaxRequests

VARIABLES
    owner,  \* the request that created the app, or 0
    rows,   \* the request that added each service of the app, or 0
    busy,   \* the request under way, or 0
    plan,   \* the services the request under way removes if it succeeds
    nextId  \* the id of the next request

vars == <<owner, rows, busy, plan, nextId>>

Init ==
    /\ owner = [a \in Apps |-> 0]
    /\ rows = [a \in Apps |-> [x \in Services |-> 0]]
    /\ busy = [a \in Apps |-> 0]
    /\ plan = [a \in Apps |-> {}]
    /\ nextId = 1

Submit(a, add, remove) ==
    /\ busy[a] = 0
    /\ nextId <= MaxRequests
    /\ \A x \in add : rows[a][x] = 0
    /\ owner' = [owner EXCEPT ![a] = IF @ = 0 THEN nextId ELSE @]
    /\ rows' = [rows EXCEPT ![a] =
                  [x \in Services |-> IF x \in add THEN nextId ELSE rows[a][x]]]
    /\ busy' = [busy EXCEPT ![a] = nextId]
    /\ plan' = [plan EXCEPT ![a] = remove]
    /\ nextId' = nextId + 1

Leave(a) ==
    /\ busy[a] # 0
    /\ busy' = [busy EXCEPT ![a] = 0]
    /\ plan' = [plan EXCEPT ![a] = {}]
    /\ UNCHANGED <<owner, nextId>>

Succeed(a) ==
    /\ Leave(a)
    /\ rows' = [rows EXCEPT ![a] =
                  [x \in Services |-> IF x \in plan[a] THEN 0 ELSE rows[a][x]]]

Fail(a) == Leave(a) /\ UNCHANGED rows

Forget(a) ==
    /\ busy[a] = 0
    /\ \A x \in Services : rows[a][x] = 0
    /\ owner' = [owner EXCEPT ![a] = 0]
    /\ UNCHANGED <<rows, busy, plan, nextId>>

Next ==
    \E a \in Apps :
      \/ \E add, remove \in SUBSET Services : Submit(a, add, remove)
      \/ Succeed(a) \/ Fail(a) \/ Forget(a)

Spec == Init /\ [][Next]_vars
=============================================================================
