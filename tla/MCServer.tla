------------------------------ MODULE MCServer ------------------------------
(***************************************************************************)
(* Concurrent requests on the organization of MCOrganizationShared: Alice  *)
(* (ADMIN) and Bob are the owners of realm1, which has one key.            *)
(***************************************************************************)
EXTENDS Server, MCOrganizationShared

CONSTANTS t1, t2, t3, alice, bob, carol, aliceDev, bobDev, carolDev, realm1, realm2, v1

MCTasks == {t1, t2, t3}

MCTopics == {"common", "sequester"} \cup Realms

CreateVlobs(devs, ts) ==
    {[op |-> "create_vlob", author |-> d, realm |-> realm1, vlob |-> v1, key |-> 1,
      ts |-> t] : d \in devs, t \in ts}

UpdateVlobs(devs, ts) ==
    {[op |-> "update_vlob", author |-> d, realm |-> realm1, vlob |-> v1, key |-> 1,
      version |-> 2, ts |-> t] : d \in devs, t \in ts}

RotateKeys(recipients, ts) ==
    {[op |-> "rotate_key", author |-> aliceDev, realm |-> realm1, key |-> 2,
      recipients |-> rs, ts |-> t] : rs \in recipients, t \in ts}

Unshares(ts) ==
    {[op |-> "unshare", author |-> aliceDev, realm |-> realm1, user |-> bob, ts |-> t]
        : t \in ts}

Shares(role, ts) ==
    {[op |-> "share", author |-> aliceDev, realm |-> realm1, user |-> bob, role |-> role,
      key |-> 1, ts |-> t] : t \in ts}

Renames(ts) ==
    {[op |-> "rename", author |-> bobDev, realm |-> realm1, key |-> 1,
      initialNameOrFail |-> TRUE, ts |-> t] : t \in ts}

Revokes(ts) == {[op |-> "revoke_user", author |-> aliceDev, user |-> bob, ts |-> t] : t \in ts}

Demotions(ts) ==
    {[op |-> "update_user", author |-> aliceDev, user |-> bob, profile |-> "OUTSIDER",
      ts |-> t] : t \in ts}

Enrollments(ts) ==
    {[op |-> "create_user", author |-> aliceDev, user |-> carol, device |-> carolDev,
      profile |-> "ADMIN", ts |-> t] : t \in ts}
    \cup {[op |-> "create_device", author |-> bobDev, device |-> carolDev, ts |-> t] : t \in ts}

Bootstraps(ts) ==
    {[op |-> "bootstrap", user |-> alice, device |-> aliceDev, ts |-> t] : t \in ts}

CreateRealms(devs, ts) ==
    {[op |-> "create_realm", author |-> d, realm |-> realm2, ts |-> t] : d \in devs, t \in ts}

Late == {5, 6}

\* Without a webhook, every pair of handlers that can meet on realm1 or the common topic,
\* and a third one that takes the rights of Bob away.  With one, what may happen while it is
\* awaited.
SomeRequests ==
    [webhook \in BOOLEAN |-> [t \in Tasks |->
        IF ~webhook /\ t = t3 THEN Unshares({6}) \cup Revokes({5})
        ELSE IF ~webhook
        THEN CreateVlobs({bobDev}, Late) \cup Unshares(Late)
               \cup Shares("READER", {6}) \cup RotateKeys({{alice, bob}}, {5}) \cup Renames({5})
               \cup Revokes({3, 5}) \cup Demotions({3})
               \cup Enrollments({5}) \cup CreateRealms({bobDev}, {5}) \cup Bootstraps({3})
        ELSE IF t = t1 THEN CreateVlobs({bobDev}, Late) \cup RotateKeys({{alice, bob}}, Late)
        ELSE UpdateVlobs({aliceDev, bobDev}, Late) \cup RotateKeys({{alice}, {alice, bob}}, {6})
               \cup Unshares(Late) \cup Shares("READER", {6}) \cup Revokes(Late)]]

\* The same create, sent again before the first one is answered.
RetryRequests == [webhook \in BOOLEAN |-> [t \in Tasks |-> CreateVlobs({bobDev}, {5})]]

\* Or an organization that is not bootstrapped yet.
MCServerInit ==
    /\ LockInit /\ TaskInit
    /\ Shared(alice, bob, aliceDev, bobDev, realm1) \/ (Init /\ ~sequestered)

\* Tasks with the same requests are alike: they are named in the order of what they run.
Rank ==
    [none |-> 0, create_vlob |-> 1, unshare |-> 2, share |-> 3, rotate_key |-> 4, rename |-> 5,
     revoke_user |-> 6, update_user |-> 7, create_user |-> 8, create_device |-> 9,
     create_realm |-> 10, update_vlob |-> 11, bootstrap |-> 12]

InOrder(s, t) ==
    LET Order(x) == Rank[req'[x].op] IN Order(s) > 0 /\ Order(t) > 0 => Order(s) <= Order(t)

MCServerNext ==
    ServerNext /\ IF sequestered THEN InOrder(t2, t3) ELSE InOrder(t1, t2)

MCServerSpec == MCServerInit /\ [][MCServerNext]_serverVars /\ ServerFairness
=============================================================================
