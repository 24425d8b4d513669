------------------------------- MODULE Server -------------------------------
(***************************************************************************)
(* The requests of Organization as the server really runs them: each one   *)
(* is an asyncio task that takes the topic locks in two nested steps, may  *)
(* be suspended while it waits for either of them, while the webhooks of   *)
(* the sequester services answer and while it sends its event, and works   *)
(* all along with the topic timestamps the locks returned.                 *)
(*                                                                         *)
(* What happens between two suspension points is one step, whatever number *)
(* of checks and locks it goes through.                                    *)
(*                                                                         *)
(* Source: server/parsec/components/memory/{organization,user,realm,       *)
(* vlob}.py.                                                               *)
(***************************************************************************)
EXTENDS Organization, TopicsLock

CONSTANT
    Requests        \* the requests each task may run, with and without a webhook

ASSUME TopicsAssumption ==
    /\ {"common", "sequester"} \cup Realms \subseteq Topics
    /\ {"common", "sequester"} \cap Realms = {}

\* The requests, each with what the handler reads of it.
CommonRequest ==
    [op : {"bootstrap"}, user : Users, device : Devices, ts : Timestamps]
    \cup [op : {"create_user"}, author : Devices, user : Users, device : Devices,
          profile : Profiles, ts : Timestamps]
    \cup [op : {"create_device"}, author : Devices, device : Devices, ts : Timestamps]
    \cup [op : {"revoke_user"}, author : Devices, user : Users, ts : Timestamps]
    \cup [op : {"update_user"}, author : Devices, user : Users, profile : Profiles, ts : Timestamps]

RealmRequest ==
    [op : {"create_realm"}, author : Devices, realm : Realms, ts : Timestamps]
    \cup [op : {"share"}, author : Devices, realm : Realms, user : Users, role : RealmRoles,
          key : KeyIndexes, ts : Timestamps]
    \cup [op : {"unshare"}, author : Devices, realm : Realms, user : Users, ts : Timestamps]
    \cup [op : {"rename"}, author : Devices, realm : Realms, key : KeyIndexes,
          initialNameOrFail : BOOLEAN, ts : Timestamps]
    \cup [op : {"rotate_key"}, author : Devices, realm : Realms, key : KeyIndexes,
          recipients : SUBSET Users, ts : Timestamps]

VlobRequest ==
    [op : {"create_vlob"}, author : Devices, realm : Realms, vlob : Vlobs, key : KeyIndexes,
     ts : Timestamps]
    \cup [op : {"update_vlob"}, author : Devices, realm : Realms, vlob : Vlobs, key : KeyIndexes,
          version : 2 .. MaxVersions, ts : Timestamps]

ASSUME RequestsAssumption ==
    \A webhook \in BOOLEAN, t \in Tasks :
        Requests[webhook][t] \subseteq CommonRequest \cup RealmRequest \cup VlobRequest

\* vlob.update keeps the list of versions it found before its nested lock: it
\* is the realm's list as long as no second create replaces it, and what two
\* creates do to each other is asked of requests without an update.
Creates(t, r, v) ==
    \E q \in Requests[TRUE][t] : q.op = "create_vlob" /\ q.realm = r /\ q.vlob = v

ASSUME UpdatesAssumption ==
    \A s, t \in Tasks, u \in Tasks : \A q \in Requests[TRUE][u] :
        q.op = "update_vlob" /\ s # t =>
            ~(Creates(s, q.realm, q.vlob) /\ Creates(t, q.realm, q.vlob))

VARIABLES
    expired,        \* org.is_expired
    sequestered,    \* a sequester service with a webhook is active
    pc,             \* where the handler of a task is suspended
    req,            \* its request
    locked,         \* the topics it holds
    wanted,         \* the topics of the nested lock it waits for
    seen            \* topic timestamps the locks returned to it

taskVars == <<pc, req, locked, wanted, seen>>
settings == <<expired, sequestered>>
serverVars == <<vars, lockVars, settings, taskVars>>

Lock(read, write) == [read |-> read, write |-> write]
NoLock == Lock({}, {})
NoRequest == [op |-> "none"]
Merge(p, q) == Lock(p.read \cup q.read, p.write \cup q.write)

TaskInit ==
    /\ expired = FALSE
    /\ sequestered \in BOOLEAN
    /\ pc = [t \in Tasks |-> "idle"]
    /\ req = [t \in Tasks |-> NoRequest]
    /\ locked = [t \in Tasks |-> NoLock]
    /\ wanted = [t \in Tasks |-> NoLock]
    /\ seen = [t \in Tasks |-> [common |-> 0, realm |-> 0]]

ServerInit == Init /\ LockInit /\ TaskInit

(***************************************************************************)
(* The handlers: the outer lock, what is checked under it, the nested      *)
(* lock, what is checked under it, and what is checked after the webhooks. *)
(***************************************************************************)

CommonWrites == {"bootstrap", "create_user", "create_device", "revoke_user", "update_user"}

\* Mutant of OuterLock: the handlers with a nested lock do not lock the common topic.
OuterLockNestedOnly(q) ==
    CASE q.op \in CommonWrites -> Lock({}, {"common"})
      [] q.op = "create_vlob" -> Lock({"common", q.realm}, {})
      [] OTHER -> NoLock

OuterLock(q) ==
    CASE q.op \in CommonWrites -> Lock({}, {"common"})
      [] q.op = "create_vlob" -> Lock({"common", q.realm}, {})
      [] OTHER -> Lock({"common"}, {})

AuthorKnown(q) == \E a \in devices : a.id = q.author

Author(q) == CHOOSE a \in devices : a.id = q.author

OuterCheck(q) ==
    /\ AuthorKnown(q)
    /\ LET a == Author(q) IN
       CASE q.op = "create_user" -> q.ts > commonTs /\ CreateUserCheck(a, q.user, q.device)
         [] q.op = "create_device" -> q.ts > commonTs /\ CreateDeviceCheck(a, q.device)
         [] q.op = "update_user" -> q.ts > commonTs /\ UpdateUserCheck(a, q.user, q.profile)
         [] q.op = "revoke_user" -> RevokeUserCheck(a, q.user)
         [] q.op = "create_realm" -> CreateRealmCheck(a, q.realm)
         [] q.op = "share" -> ShareCheck(a, q.realm, q.user)
         [] q.op = "unshare" -> UnshareCheck(a, q.realm, q.user)
         [] q.op = "update_vlob" -> AuthorCheck(a, q.realm) /\ vlobs[q.realm][q.vlob] # <<>>
         [] OTHER -> AuthorCheck(a, q.realm)

NestedLock(q) ==
    CASE q.op = "revoke_user" -> Lock(RealmsOf(q.user), {})
      [] q.op = "rotate_key" -> Lock({"sequester"}, {q.realm})
      [] q.op \in {"create_realm", "share", "unshare", "rename"} -> Lock({}, {q.realm})
      [] q.op = "update_vlob" -> Lock({q.realm}, {})
      [] OTHER -> NoLock

NewerThan(q, s) == q.ts > s.common /\ q.ts > s.realm

\* `s` are the timestamps the locks returned, `realms` the realms revoke_user
\* found its target in.
NestedCheck(q, s, realms) ==
    LET a == Author(q) IN
    CASE q.op = "revoke_user" ->
            q.ts > s.common /\ \A r \in realms : q.ts > realmTs[r] /\ q.ts > lastVlob[r]
      [] q.op = "create_realm" -> NewerThan(q, s)
      [] q.op = "share" -> /\ NewerThan(q, s)
                           /\ q.ts > lastVlob[q.realm]
                           /\ ShareRoleCheck(a, q.realm, q.user, q.role, q.key)
      [] q.op = "unshare" -> /\ NewerThan(q, s)
                             /\ q.ts > lastVlob[q.realm]
                             /\ RoleChangeCheck(a, q.realm, q.user, "NONE")
      [] q.op = "rename" -> NewerThan(q, s) /\ RenameCheck(a, q.realm, q.key, q.initialNameOrFail)
      [] q.op = "rotate_key" -> RotateKeyCheck(a, q.realm, q.key, q.recipients)
      [] q.op = "create_vlob" -> /\ NewerThan(q, s)
                                 /\ WriteCheck(a, q.realm, q.key)
                                 /\ vlobs[q.realm][q.vlob] = <<>>
      [] q.op = "update_vlob" -> NewerThan(q, s) /\ WriteCheck(a, q.realm, q.key)
      [] OTHER -> TRUE

AwaitsWebhook(q) == sequestered /\ q.op \in {"rotate_key", "create_vlob", "update_vlob"}

\* Mutant of LastCheck: the version is not checked once the webhooks answered.
LastCheckTimestamps(q, s) == q.op = "rotate_key" => NewerThan(q, s)

LastCheck(q, s) ==
    CASE q.op = "rotate_key" -> NewerThan(q, s)
      [] q.op = "update_vlob" -> q.version = Len(vlobs[q.realm][q.vlob]) + 1
      [] OTHER -> TRUE

Insert(q) ==
    LET a == Author(q) IN
    CASE q.op = "create_user" -> InsertUser(q.user, q.device, q.profile, q.ts, a.id)
      [] q.op = "create_device" -> InsertDevice(q.device, a.user, q.ts, a.id)
      [] q.op = "revoke_user" -> InsertRevocation(q.user, q.ts, a.id)
      [] q.op = "update_user" -> InsertProfile(q.user, q.profile, q.ts, a.id)
      [] q.op = "create_realm" -> InsertRole(q.realm, a.user, "OWNER", q.ts, a.id)
      [] q.op = "share" -> InsertShare(q.realm, q.user, q.role, q.key, q.ts, a.id)
      [] q.op = "unshare" -> InsertRole(q.realm, q.user, "NONE", q.ts, a.id)
      [] q.op = "rename" -> InsertName(q.realm, q.key, q.ts, a.id)
      [] q.op = "rotate_key" -> InsertRotation(q.realm, q.recipients, q.ts, a.id)
      [] q.op = "create_vlob" ->
            InsertVlob(q.realm, q.vlob, <<Atom(q.key, q.ts, a.id)>>, q.ts)
      [] q.op = "update_vlob" ->
            InsertVlob(q.realm, q.vlob,
                       Append(vlobs[q.realm][q.vlob], Atom(q.key, q.ts, a.id)), q.ts)

(***************************************************************************)
(* Tasks.                                                                  *)
(***************************************************************************)

Goto(t, label) == pc' = [pc EXCEPT ![t] = label]

\* The checks before the first lock; the organization may expire later (only
\* bootstrap looks at it under the lock).
Start(t) ==
    /\ pc[t] = "idle"
    /\ \E q \in Requests[sequestered][t] :
        /\ req' = [req EXCEPT ![t] = q]
        /\ Goto(t, IF expired /\ q.op # "bootstrap" THEN "done" ELSE "outer")
    /\ UNCHANGED <<vars, lockVars, settings, locked, wanted, seen>>

\* Every return: leave the `async with` blocks.
Leave(t) ==
    /\ ReleaseLocks(locked[t])
    /\ locked' = [locked EXCEPT ![t] = NoLock]
    /\ Goto(t, "done")
    /\ UNCHANGED <<req, wanted, seen>>

Refuse(t) == Leave(t) /\ UNCHANGED vars

\* Take the locks, and hold them across the next suspension point.
Hold(t, taking) ==
    /\ TakeLocks(taking)
    /\ locked' = [locked EXCEPT ![t] = Merge(@, taking)]

\* What follows the nested lock, up to the next suspension point.  `s` are the
\* topic timestamps, `taking` the locks taken in the same step.
Proceed(t, taking, realms, s) ==
    LET q == req[t] IN
    \/ ~NestedCheck(q, s, realms) /\ Refuse(t)
    \/ /\ NestedCheck(q, s, realms)
       /\ AwaitsWebhook(q)
       /\ Hold(t, taking)
       /\ seen' = [seen EXCEPT ![t] = s]
       /\ Goto(t, "webhook")
       /\ UNCHANGED <<vars, req, wanted>>
    \/ NestedCheck(q, s, realms) /\ ~AwaitsWebhook(q) /\ ~LastCheck(q, s) /\ Refuse(t)
    \/ /\ NestedCheck(q, s, realms)
       /\ ~AwaitsWebhook(q)
       /\ LastCheck(q, s)
       /\ Insert(q)
       /\ Hold(t, taking)
       /\ seen' = [seen EXCEPT ![t] = s]
       /\ Goto(t, "sending")
       /\ UNCHANGED <<req, wanted>>

RealmTsOf(q) == IF "realm" \in DOMAIN q THEN realmTs[q.realm] ELSE 0

\* The whole of bootstrap, which is not suspended once it has its lock.
EnterBootstrap(t) ==
    LET q == req[t]
        outer == OuterLock(q)
    IN  /\ pc[t] = "outer" /\ q.op = "bootstrap"
        /\ t \notin waiting
        /\ UNCHANGED settings
        /\ \/ Conflict(outer) /\ WaitForRelease(t) /\ UNCHANGED <<vars, taskVars>>
           \/ ~Conflict(outer) /\ (expired \/ devices # {}) /\ Refuse(t)
           \/ ~Conflict(outer) /\ ~expired /\ Bootstrap(q.user, q.device, q.ts) /\ Leave(t)

\* The other handlers, from the outer lock on.
Enter(t) ==
    LET q == req[t]
        outer == OuterLock(q)
        nested == NestedLock(q)
    IN  /\ pc[t] = "outer" /\ q.op # "bootstrap"
        /\ t \notin waiting
        /\ UNCHANGED settings
        /\ \/ Conflict(outer) /\ WaitForRelease(t) /\ UNCHANGED <<vars, taskVars>>
           \/ ~Conflict(outer) /\ ~OuterCheck(q) /\ Refuse(t)
           \/ /\ ~Conflict(outer)
              /\ OuterCheck(q)
              /\ Conflict(nested)
              /\ Goto(t, "nested")
              /\ wanted' = [wanted EXCEPT ![t] = nested]
              /\ seen' = [seen EXCEPT ![t] = [common |-> commonTs, realm |-> 0]]
              /\ MarkTaken(outer)
              /\ JoinWaiters(t)
              /\ locked' = [locked EXCEPT ![t] = outer]
              /\ UNCHANGED <<vars, req>>
           \/ /\ ~Conflict(outer)
              /\ OuterCheck(q)
              /\ ~Conflict(nested)
              /\ Proceed(t, Merge(outer, nested), nested.read,
                         [common |-> commonTs, realm |-> RealmTsOf(q)])

\* Retry the nested lock, still holding the outer one.
Nest(t) ==
    /\ pc[t] = "nested"
    /\ t \notin waiting
    /\ UNCHANGED settings
    /\ \/ Conflict(wanted[t]) /\ WaitForRelease(t) /\ UNCHANGED <<vars, taskVars>>
       \/ /\ ~Conflict(wanted[t])
          /\ Proceed(t, wanted[t], wanted[t].read,
                     [common |-> seen[t].common, realm |-> RealmTsOf(req[t])])

\* Mutant of Webhook: a request that is rejected is sent to the webhooks again.
WebhookAskedAgain(t) ==
    LET q == req[t] IN
    /\ pc[t] = "webhook"
    /\ UNCHANGED settings
    /\ \/ UNCHANGED <<vars, lockVars, taskVars>>
       \/ /\ LastCheck(q, seen[t])
          /\ Insert(q)
          /\ Goto(t, "sending")
          /\ UNCHANGED <<lockVars, req, locked, wanted, seen>>

\* The webhooks accepted the request, rejected it or did not answer.
Webhook(t) ==
    LET q == req[t] IN
    /\ pc[t] = "webhook"
    /\ UNCHANGED settings
    /\ \/ Refuse(t)
       \/ /\ LastCheck(q, seen[t])
          /\ Insert(q)
          /\ Goto(t, "sending")
          /\ UNCHANGED <<lockVars, req, locked, wanted, seen>>

\* The event is sent.
Finish(t) ==
    /\ pc[t] = "sending"
    /\ Leave(t)
    /\ UNCHANGED <<vars, settings>>

\* The administration changes is_expired, which nobody reads any more once all
\* requests have started and bootstrap has its lock.
UpdateExpired ==
    /\ \E t \in Tasks : pc[t] = "idle" \/ (pc[t] = "outer" /\ req[t].op = "bootstrap")
    /\ expired' = ~expired
    /\ UNCHANGED <<vars, lockVars, sequestered, taskVars>>

Terminated ==
    /\ \A t \in Tasks : pc[t] = "done"
    /\ UNCHANGED serverVars

ServerNext ==
    \/ \E t \in Tasks : Start(t) \/ EnterBootstrap(t) \/ Enter(t) \/ Nest(t) \/ Webhook(t) \/ Finish(t)
    \/ UpdateExpired
    \/ Terminated

\* The event loop runs every runnable task, webhooks answer or time out.
ServerFairness ==
    \A t \in Tasks : WF_serverVars(EnterBootstrap(t) \/ Enter(t) \/ Nest(t) \/ Webhook(t) \/ Finish(t))

ServerSpec == ServerInit /\ [][ServerNext]_serverVars /\ ServerFairness

\* No two requests create the same vlob while webhooks are awaited: those who do
\* are the concern of VlobCreatedOnce.
OneCreator ==
    \A s, t \in Tasks, r \in Realms, v \in Vlobs :
        s # t => ~(Creates(s, r, v) /\ Creates(t, r, v))

(***************************************************************************)
(* Properties.                                                             *)
(***************************************************************************)

ServerTypeOK ==
    /\ TypeOK
    /\ LockTypeOK
    /\ settings \in BOOLEAN \X BOOLEAN
    /\ pc \in [Tasks -> {"idle", "outer", "nested", "webhook", "sending", "done"}]
    /\ \A t \in Tasks : req[t] \in Requests[sequestered][t] \cup {NoRequest}
    /\ locked \in [Tasks -> LockRequests]
    /\ wanted \in [Tasks -> LockRequests]
    /\ seen \in [Tasks -> [common : Nat, realm : Nat]]

\* Whatever the interleaving of the handlers, the lock waits and the webhook
\* calls, each step of the server is invisible or is one whole request of
\* Organization, all of whose checks hold in the state it is applied to.
StepsAreAtomic == [][UNCHANGED vars \/ Next]_vars

\* A topic timestamp a lock returned is still the topic's last one whenever the
\* task that holds the lock runs again and compares its certificate with it.
SeenIsCurrent ==
    \A t \in Tasks :
        /\ pc[t] \in {"nested", "webhook"} => seen[t].common = commonTs
        /\ pc[t] = "webhook" => seen[t].realm = realmTs[req[t].realm]

\* A handler that is suspended with a topic write locked is the only one that
\* has it locked at all.
HandlersExclude ==
    \A s, t \in Tasks :
        s # t => locked[s].write \cap (locked[t].read \cup locked[t].write) = {}

\* Every request that was started gets an answer: handlers that hold the outer
\* lock while waiting for the nested one never wait for each other in a cycle.
EveryRequestEnds == \A t \in Tasks : pc[t] # "idle" ~> pc[t] = "done"

\* A vlob is created once; a create for a vlob that exists is refused.
VlobCreatedOnce ==
    \A r \in Realms, v \in Vlobs :
        Cardinality({i \in DOMAIN vlobUpdates[r] :
                        vlobUpdates[r][i] = [vlob |-> v, version |-> 1]}) <= 1
=============================================================================
