------------------------- MODULE RequestLifecycleMC -------------------------
(* Instances of RequestLifecycle for TLC. *)
EXTENDS RequestLifecycle, TLC

CONSTANTS s1, s2, qa, prod

\* One service in each of two environments.
EnvOfTwo == (s1 :> qa) @@ (s2 :> prod)

EnvOfOne == (s1 :> qa)

\* The calls tried: bring a service up, move from one to the other, drop one.
Delta(add, remove) == [add |-> add, remove |-> remove]
UpdateDeltas == {Delta({s1}, {}), Delta({s2}, {s1}), Delta({}, {s1})}

\* Bring the service up, drop it.
OneServiceDeltas == {Delta({s1}, {}), Delta({}, {s1})}

\* Nothing but the record (env_config and its services may be empty), or a service.
BareDeltas == {Delta({}, {}), Delta({s1}, {})}

\* Bound: a state in which a callback is still to be applied, or a Lambda has been
\* invoked again, is not explored further if it is both at once or if calls or
\* requests of a second application are there too.
OneFaultAtATime ==
    LET again == \E r \in RequestIds : exec[r].retries # 0
        used  == ({payload[r] : r \in Live} \cup {session[s].payload : s \in Sessions})
                   \ {NoPayload}
    IN  /\ late = {} \/ ~again
        /\ late # {} \/ again => \A p, q \in used : p.app = q.app

Symmetry == Permutations(Apps) \cup Permutations(Keys) \cup Permutations(Sessions)
=============================================================================
