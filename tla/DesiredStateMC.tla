--------------------------- MODULE DesiredStateMC ---------------------------
(* Instances of DesiredState and CapabilityStatus for TLC. *)
EXTENDS CapabilityStatus

CONSTANTS a, b, qa, prod, queue, db

\* Deltas of one environment are built from the empty one.
Nothing(e) == [env |-> e, services |-> {}, capabilities |-> {}, removeServices |-> {},
               removeCapabilities |-> {}, patches |-> {}]

Messaging(config, access) ==
    [type |-> "messaging", nr |-> 1, config |-> config, access |-> access]
Database(config, access) ==
    [type |-> "rel_database", nr |-> 1, config |-> config, access |-> access]
Second(grant) == [grant EXCEPT !.nr = 2]

\* Two services and a queue for both; prod has one service.
TwoEnvironments ==
    <<[Nothing(qa) EXCEPT !.services = {a, b},
                          !.capabilities = {Messaging({queue}, {})}],
      [Nothing(prod) EXCEPT !.services = {a}]>>

\* Two databases in one environment, each for one service.
TwoOfAType ==
    <<[Nothing(qa) EXCEPT !.services = {a, b},
         !.capabilities = {Database({queue}, {a}), Second(Database({db}, {b}))}]>>

QueueOf(e) == [by |-> 1, env |-> e, type |-> "messaging", nr |-> 1]

Granting(e, grant)   == [Nothing(e) EXCEPT !.capabilities = {grant}]
Removing(e, set)     == [Nothing(e) EXCEPT !.removeServices = set]
Dropping(e, type)    == [Nothing(e) EXCEPT !.removeCapabilities = {type}]
Patching(e, set)     == [Nothing(e) EXCEPT !.patches =
                           {[capability |-> QueueOf(e), access |-> set]}]

\* A service removed alone, with a capability granted beside, and with its access
\* handed over by an upsert or by a patch; a capability dropped.
OneEntry ==
    {<<Removing(qa, {b})>>,
     <<[Granting(qa, Database({db}, {b})) EXCEPT !.removeServices = {a}]>>,
     <<[Granting(qa, Messaging({queue}, {a})) EXCEPT !.removeServices = {b}]>>,
     <<[Patching(qa, {a}) EXCEPT !.removeServices = {b}]>>,
     <<Dropping(qa, "messaging")>>,
     <<Dropping(qa, "rel_database")>>}

\* A patch in both orders (only in the last entry does it bind in its own
\* environment); a capability granted more, or a new one, while the other
\* environment loses or replaces its service; a removal in one, a capability in
\* the other.
TwoEntries ==
    {<<Patching(qa, {b}), Nothing(prod)>>,
     <<Nothing(prod), Patching(qa, {b})>>,
     <<Removing(prod, {a}), Granting(qa, Messaging({queue, db}, {b}))>>,
     <<Granting(qa, Database({db}, {a})),
       [Removing(prod, {a}) EXCEPT !.services = {b}]>>,
     <<Removing(qa, {b}), Granting(prod, Messaging({queue}, {a}))>>}

\* b is a name like "a-prod": in prod's services it finds the row of a.
LikeProd == {<<b, <<prod, a>>>>}

AllCreations == {TwoEnvironments, TwoOfAType}
AllUpdates == OneEntry \cup TwoEntries
=============================================================================
