----------------------------- MODULE MCLockTasks -----------------------------
(***************************************************************************)
(* LockTasks with the nesting shapes of the server's handlers on two       *)
(* realms.                                                                 *)
(***************************************************************************)
EXTENDS LockTasks

CONSTANTS t1, t2, t3

Realms == {"realm1", "realm2"}

MCTasks == {t1, t2, t3}

MCTopics == {"common", "sequester"} \cup Realms

Lock(r, w) == [read |-> r, write |-> w]

MCPlans ==
    \* create_user, create_device, update_user, bootstrap, pki accept
    {<<Lock({}, {"common"})>>}
    \* revoke_user of a member of both realms
    \cup {<<Lock({}, {"common"}), Lock(Realms, {})>>}
    \* realm create, share, unshare, rename
    \cup {<<Lock({"common"}, {}), Lock({}, {r})>> : r \in Realms}
    \* realm rotate_key
    \cup {<<Lock({"common"}, {}), Lock({"sequester"}, {r})>> : r \in Realms}
    \* vlob create, block create
    \cup {<<Lock({"common", r}, {})>> : r \in Realms}
    \* vlob update
    \cup {<<Lock({"common"}, {}), Lock({r}, {})>> : r \in Realms}
    \* sequester create_service, revoke_service
    \cup {<<Lock({}, {"sequester"})>>}
=============================================================================
