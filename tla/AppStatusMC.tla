---------------------------- MODULE AppStatusMC ----------------------------
(* Instances of AppStatus and ClusterRegistry for TLC. *)
EXTENDS AppStatus, TLC

CONSTANTS qa, prod, x, y, old, new

Register(name, env, endpoint, token) ==
    [op |-> "register", name |-> name, env |-> env, endpoint |-> endpoint, token |-> token]
Update(name, endpoint, token) ==
    [op |-> "update", name |-> name, env |-> None, endpoint |-> endpoint, token |-> token]
Deregister == [op |-> "delete", name |-> None, env |-> None, endpoint |-> None, token |-> None]

\* A cluster; another for its environment, without a token; the first name
\* somewhere else; an update that renames and gives a token.  Registered again,
\* the second is a refresh that keeps that token.
Forms == {
    Register(x, qa, old, old), Register(y, qa, new, None), Register(x, prod, old, None),
    Update(y, None, new), Deregister}

\* Callers are alike.
Alike == Permutations(Callers)
=============================================================================
