--------------------------- MODULE HandlerProofs ----------------------------
(***************************************************************************)
(* What a handler of the server checked before it was suspended still      *)
(* holds when it inserts, because of the topic locks it holds: every step  *)
(* of a task is invisible or one whole request of Organization.            *)
(***************************************************************************)
EXTENDS Server, OrganizationProofs

(***************************************************************************)
(* The locks, as the books wl and rl of TopicsLock and as what the tasks   *)
(* hold.                                                                   *)
(***************************************************************************)

Exclusive(lk) ==
    \A s, t \in Tasks : s # t => lk[s].write \cap (lk[t].read \cup lk[t].write) = {}

Readers(lk, p) == {t \in Tasks : p \in lk[t].read}

Books(wl, rl, lk) ==
    /\ lk \in [Tasks -> LockRequests] /\ wl \in SUBSET Topics /\ rl \in [Topics -> Nat]
    /\ \A p \in Topics : p \in wl <=> \E t \in Tasks : p \in lk[t].write
    /\ \A p \in Topics : IsFiniteSet(Readers(lk, p)) /\ rl[p] = Cardinality(Readers(lk, p))
    /\ Exclusive(lk)
    /\ FiniteSetFacts

LEMMA LockFields ==
    /\ \A x, y : Lock(x, y).read = x /\ Lock(x, y).write = y
    /\ \A x \in SUBSET Topics, y \in SUBSET Topics : Lock(x, y) \in LockRequests
    /\ \A q \in LockRequests : q = Lock(q.read, q.write) /\ q.read \subseteq Topics /\ q.write \subseteq Topics
  BY DEF Lock, LockRequests

LEMMA MergeFields ==
    ASSUME NEW p \in LockRequests, NEW q \in LockRequests
    PROVE  /\ Merge(p, q) \in LockRequests
           /\ Merge(p, q).read = p.read \cup q.read /\ Merge(p, q).write = p.write \cup q.write
  BY LockFields, Zenon DEF Merge

LEMMA TakeBooks ==
    ASSUME Books(writeLocked, readLocked, locked), NEW t \in Tasks, NEW q \in LockRequests,
           ~Conflict(q), q.read \cap locked[t].read = {}, MarkTaken(q),
           locked' = [locked EXCEPT ![t] = Merge(@, q)]
    PROVE  Books(writeLocked', readLocked', locked')
  <1>1. /\ locked \in [Tasks -> LockRequests] /\ writeLocked \subseteq Topics
        /\ readLocked \in [Topics -> Nat] /\ Exclusive(locked)
        /\ \A p \in Topics : p \in writeLocked <=> \E s \in Tasks : p \in locked[s].write
        /\ \A p \in Topics : IsFiniteSet(Readers(locked, p)) /\ readLocked[p] = Cardinality(Readers(locked, p))
        /\ FiniteSetFacts
    BY Zenon DEF Books
  <1>2. q.read \subseteq Topics /\ q.write \subseteq Topics
    BY LockFields, Zenon
  <1>3. /\ locked' \in [Tasks -> LockRequests]
        /\ \A s \in Tasks : s # t => locked'[s] = locked[s]
        /\ locked'[t].read = locked[t].read \cup q.read /\ locked'[t].write = locked[t].write \cup q.write
    BY <1>1, MergeFields, Zenon
  <1>4. /\ writeLocked' = writeLocked \cup q.write
        /\ readLocked' = [p \in Topics |-> IF p \in q.read THEN readLocked[p] + 1 ELSE readLocked[p]]
    BY Zenon DEF MarkTaken
  <1>5. readLocked' \in [Topics -> Nat] /\ writeLocked' \subseteq Topics
    BY <1>1, <1>2, <1>4
  <1>6. \A p \in Topics : p \in writeLocked' <=> \E s \in Tasks : p \in locked'[s].write
    BY <1>1, <1>3, <1>4, Zenon
  <1>7. ASSUME NEW p \in Topics
        PROVE  IsFiniteSet(Readers(locked', p)) /\ readLocked'[p] = Cardinality(Readers(locked', p))
    <2>1. CASE p \in q.read
      <3>1. Readers(locked', p) = Readers(locked, p) \cup {t} /\ t \notin Readers(locked, p)
        BY <1>3, <2>1, Zenon DEF Readers
      <3>2. /\ IsFiniteSet(Readers(locked, p) \cup {t})
            /\ Cardinality(Readers(locked, p) \cup {t}) = Cardinality(Readers(locked, p)) + 1
        BY <1>1, <3>1, CountOneMore, Zenon
      <3> QED
        BY <1>1, <1>4, <2>1, <3>1, <3>2, ZenonT(30)
    <2>2. CASE p \notin q.read
      <3>1. Readers(locked', p) = Readers(locked, p)
        BY <1>3, <2>2, Zenon DEF Readers
      <3> QED
        BY <1>1, <1>4, <2>2, <3>1, Zenon
    <2> QED
      BY <2>1, <2>2, Zenon
  <1>8. Exclusive(locked')
    <2>1. \A p \in q.read \cup q.write : p \notin writeLocked
      BY Zenon DEF Conflict
    <2>2. ASSUME NEW p \in q.write PROVE \A s \in Tasks : p \notin locked[s].read
      <3>1. p \in Topics /\ readLocked[p] = 0
        BY <1>2, <2>2, Zenon DEF Conflict
      <3>2. Readers(locked, p) = {}
        BY <1>1, <3>1, CountNothing, Zenon
      <3> QED
        BY <3>2, Zenon DEF Readers
    <2>3. \A s \in Tasks : locked[s].write \subseteq writeLocked
      BY <1>1, LockFields, Zenon
    <2>4. \A s \in Tasks : /\ q.write \cap (locked[s].read \cup locked[s].write) = {}
                           /\ locked[s].write \cap (q.read \cup q.write) = {}
      BY <2>1, <2>2, <2>3, Zenon
    <2>5. ASSUME NEW r \in Tasks, NEW s \in Tasks, r # s
          PROVE  locked'[r].write \cap (locked'[s].read \cup locked'[s].write) = {}
      <3>1. locked[r].write \cap (locked[s].read \cup locked[s].write) = {}
        BY <1>1, <2>5, Zenon DEF Exclusive
      <3>2. CASE r = t
        BY <1>3, <2>4, <2>5, <3>1, <3>2, Zenon
      <3>3. CASE s = t
        BY <1>3, <2>4, <2>5, <3>1, <3>3, Zenon
      <3>4. CASE r # t /\ s # t
        BY <1>3, <3>1, <3>4, Zenon
      <3> QED
        BY <3>2, <3>3, <3>4, Zenon
    <2> QED
      BY <2>5, Zenon DEF Exclusive
  <1> QED
    BY <1>1, <1>3, <1>5, <1>6, <1>7, <1>8, ZenonT(30) DEF Books

LEMMA ReleaseBooks ==
    ASSUME Books(writeLocked, readLocked, locked), NEW t \in Tasks, ReleaseLocks(locked[t]),
           locked' = [locked EXCEPT ![t] = NoLock]
    PROVE  Books(writeLocked', readLocked', locked')
  <1> DEFINE q == locked[t]
  <1>1. /\ locked \in [Tasks -> LockRequests] /\ writeLocked \subseteq Topics
        /\ readLocked \in [Topics -> Nat] /\ Exclusive(locked)
        /\ \A p \in Topics : p \in writeLocked <=> \E s \in Tasks : p \in locked[s].write
        /\ \A p \in Topics : IsFiniteSet(Readers(locked, p)) /\ readLocked[p] = Cardinality(Readers(locked, p))
        /\ FiniteSetFacts
    BY Zenon DEF Books
  <1>2. NoLock \in LockRequests /\ NoLock.read = {} /\ NoLock.write = {}
    BY LockFields, Zenon DEF NoLock
  <1>3. /\ locked' \in [Tasks -> LockRequests]
        /\ \A s \in Tasks : s # t => locked'[s] = locked[s]
        /\ locked'[t].read = {} /\ locked'[t].write = {}
    BY <1>1, <1>2, Zenon
  <1>4. /\ writeLocked' = writeLocked \ q.write
        /\ readLocked' = [p \in Topics |-> IF p \in q.read THEN readLocked[p] - 1 ELSE readLocked[p]]
    BY Zenon DEF ReleaseLocks
  <1>5. \A p \in Topics : p \in writeLocked' <=> \E s \in Tasks : p \in locked'[s].write
    BY <1>1, <1>3, <1>4, Zenon DEF Exclusive
  <1>6. ASSUME NEW p \in Topics
        PROVE  /\ IsFiniteSet(Readers(locked', p)) /\ readLocked'[p] = Cardinality(Readers(locked', p))
               /\ readLocked'[p] \in Nat
    <2>1. Readers(locked', p) = Readers(locked, p) \ {t}
      BY <1>3, Zenon DEF Readers
    <2>2. p \in q.read <=> t \in Readers(locked, p)
      BY Zenon DEF Readers
    <2>3. IsFiniteSet(Readers(locked, p)) /\ readLocked[p] = Cardinality(Readers(locked, p))
      BY <1>1, Zenon
    <2>4. /\ IsFiniteSet(Readers(locked, p) \ {t})
          /\ Cardinality(Readers(locked, p) \ {t})
               = IF t \in Readers(locked, p) THEN Cardinality(Readers(locked, p)) - 1
                                             ELSE Cardinality(Readers(locked, p))
      BY <1>1, <2>3, CountOneLess, Zenon
    <2>5. Cardinality(Readers(locked, p) \ {t}) \in Nat
      BY <1>1, <2>4, CountNothing, Zenon
    <2> QED
      BY <1>4, <2>1, <2>2, <2>3, <2>4, <2>5, ZenonT(30)
  <1>7. readLocked' \in [Topics -> Nat] /\ writeLocked' \subseteq Topics
    BY <1>1, <1>4, <1>6, Zenon
  <1>8. Exclusive(locked')
    BY <1>1, <1>3, ZenonT(30) DEF Exclusive
  <1> QED
    BY <1>1, <1>3, <1>5, <1>6, <1>7, <1>8, ZenonT(30) DEF Books

(***************************************************************************)
(* Requests, and the locks their handlers hold when they insert.           *)
(***************************************************************************)

AnyRequest == CommonRequest \cup RealmRequest \cup VlobRequest

CommonOps == CommonWrites \ {"bootstrap"}
RealmOps == {"create_realm", "share", "unshare", "rename", "rotate_key"}
VlobOps == {"create_vlob", "update_vlob"}

\* Those that may wait for their nested lock, and those that may await webhooks.
NestingOps == {"revoke_user", "share", "unshare", "rename", "rotate_key", "update_vlob"}
WebhookOps == {"rotate_key", "create_vlob", "update_vlob"}

AllLocks(q) == Merge(OuterLock(q), NestedLock(q))

LEMMA RequestKinds ==
    ASSUME NEW q \in AnyRequest
    PROVE  /\ q.op \in {"bootstrap"} \cup CommonOps \cup RealmOps \cup VlobOps
           /\ q.ts \in Timestamps
           /\ q.op \in RealmOps \cup VlobOps => q.realm \in Realms /\ "realm" \in DOMAIN q
  <1>1. CASE q \in CommonRequest
    BY <1>1, Zenon DEF CommonRequest, CommonOps, CommonWrites, RealmOps, VlobOps
  <1>2. CASE q \in RealmRequest
    BY <1>2, Zenon DEF RealmRequest, CommonOps, CommonWrites, RealmOps, VlobOps
  <1>3. CASE q \in VlobRequest
    BY <1>3, Zenon DEF VlobRequest, CommonOps, CommonWrites, RealmOps, VlobOps
  <1> QED
    BY <1>1, <1>2, <1>3, Zenon DEF AnyRequest

LEMMA RequestFields ==
    ASSUME NEW q \in AnyRequest
    PROVE  /\ q.op = "bootstrap" => q.user \in Users /\ q.device \in Devices
           /\ q.op = "create_user" =>
                q.user \in Users /\ q.device \in Devices /\ q.profile \in Profiles
           /\ q.op = "create_device" => q.device \in Devices
           /\ q.op = "revoke_user" => q.user \in Users
           /\ q.op = "update_user" => q.user \in Users /\ q.profile \in Profiles
           /\ q.op = "share" => q.user \in Users /\ q.role \in RealmRoles /\ q.key \in KeyIndexes
           /\ q.op = "unshare" => q.user \in Users
           /\ q.op = "rename" => q.key \in KeyIndexes /\ q.initialNameOrFail \in BOOLEAN
           /\ q.op = "rotate_key" => q.key \in KeyIndexes /\ q.recipients \in SUBSET Users
           /\ q.op = "create_vlob" => q.vlob \in Vlobs /\ q.key \in KeyIndexes
           /\ q.op = "update_vlob" =>
                q.vlob \in Vlobs /\ q.key \in KeyIndexes /\ q.version \in 2 .. MaxVersions
  <1>1. CASE q \in CommonRequest
    BY <1>1, Zenon DEF CommonRequest
  <1>2. CASE q \in RealmRequest
    BY <1>2, Zenon DEF RealmRequest
  <1>3. CASE q \in VlobRequest
    BY <1>3, Zenon DEF VlobRequest
  <1> QED
    BY <1>1, <1>2, <1>3, Zenon DEF AnyRequest

LEMMA HandlerLocks ==
    ASSUME NEW q \in AnyRequest
    PROVE  /\ OuterLock(q) \in LockRequests /\ NestedLock(q) \in LockRequests
           /\ OuterLock(q).read \cap NestedLock(q).read = {}
           /\ q.op \in CommonWrites => "common" \in OuterLock(q).write
           /\ q.op \notin CommonWrites => "common" \in OuterLock(q).read
           /\ q.op \in RealmOps => q.realm \in NestedLock(q).write
           /\ q.op \in VlobOps => q.realm \in AllLocks(q).read
  <1>1. /\ {"common", "sequester"} \subseteq Topics /\ Realms \subseteq Topics
        /\ "common" \notin Realms /\ "sequester" \notin Realms
    BY TopicsAssumption, Zenon
  <1>2. q.op \in CommonWrites \cup RealmOps \cup VlobOps
    BY RequestKinds, Zenon DEF CommonOps, CommonWrites
  <1>3. q.op \in RealmOps \cup VlobOps => q.realm \in Realms
    BY RequestKinds, Zenon
  <1>4. q.op \in CommonWrites => OuterLock(q) = Lock({}, {"common"})
    BY Zenon DEF OuterLock, CommonWrites
  <1>5. q.op = "create_vlob" => OuterLock(q) = Lock({"common", q.realm}, {})
    BY Zenon DEF OuterLock, CommonWrites
  <1>6. q.op \in RealmOps \cup {"update_vlob"} => OuterLock(q) = Lock({"common"}, {})
    BY Zenon DEF OuterLock, CommonWrites, RealmOps
  <1>7. q.op = "revoke_user" => NestedLock(q) = Lock(RealmsOf(q.user), {})
    BY Zenon DEF NestedLock
  <1>8. q.op = "rotate_key" => NestedLock(q) = Lock({"sequester"}, {q.realm})
    BY Zenon DEF NestedLock
  <1>9. q.op \in RealmOps \ {"rotate_key"} => NestedLock(q) = Lock({}, {q.realm})
    BY Zenon DEF NestedLock, RealmOps
  <1>10. q.op = "update_vlob" => NestedLock(q) = Lock({q.realm}, {})
    BY Zenon DEF NestedLock
  <1>11. q.op \in (CommonWrites \ {"revoke_user"}) \cup {"create_vlob"} => NestedLock(q) = Lock({}, {})
    BY Zenon DEF NestedLock, NoLock, CommonWrites
  <1>12. RealmsOf(q.user) \subseteq Realms
    BY Zenon DEF RealmsOf
  <1>13. CASE q.op \in CommonWrites
    <2>1. q.op \notin RealmOps \cup VlobOps
      BY <1>13, Zenon DEF CommonWrites, RealmOps, VlobOps
    <2> QED
      BY <1>1, <1>4, <1>7, <1>11, <1>12, <1>13, <2>1, LockFields
  <1>14. CASE q.op \in RealmOps
    <2>1. q.op \notin CommonWrites \cup VlobOps
      BY <1>14, Zenon DEF CommonWrites, RealmOps, VlobOps
    <2> QED
      BY <1>1, <1>3, <1>6, <1>8, <1>9, <1>14, <2>1, LockFields
  <1>15. CASE q.op \in VlobOps
    <2>1. q.op \notin CommonWrites \cup RealmOps /\ q.op \in {"create_vlob", "update_vlob"}
      BY <1>15, Zenon DEF CommonWrites, RealmOps, VlobOps
    <2>2. OuterLock(q) \in LockRequests /\ NestedLock(q) \in LockRequests
      BY <1>1, <1>3, <1>5, <1>6, <1>10, <1>11, <1>15, <2>1, LockFields
    <2> QED
      BY <1>1, <1>3, <1>5, <1>6, <1>10, <1>11, <1>15, <2>1, <2>2, LockFields, MergeFields DEF AllLocks
  <1> QED
    BY <1>2, <1>13, <1>14, <1>15, Zenon

LEMMA NestedLockCases ==
    ASSUME NEW q \in AnyRequest
    PROVE  /\ q.op = "revoke_user" => NestedLock(q) = Lock(RealmsOf(q.user), {})
           /\ q.op = "create_realm" => NestedLock(q) = Lock({}, {q.realm})
           /\ q.op \notin NestingOps \cup {"create_realm"} => NestedLock(q) = NoLock
           /\ q.op # "revoke_user" =>
                \A r \in Realms : r \in AllLocks(q).read \cup AllLocks(q).write =>
                    q.op \in RealmOps \cup VlobOps /\ r = q.realm
  <1>1. q.op = "revoke_user" => NestedLock(q) = Lock(RealmsOf(q.user), {})
    BY Zenon DEF NestedLock
  <1>2. q.op = "create_realm" => NestedLock(q) = Lock({}, {q.realm})
    BY Zenon DEF NestedLock
  <1>3. q.op \notin NestingOps \cup {"create_realm"} => NestedLock(q) = NoLock
    BY Zenon DEF NestedLock, NestingOps
  <1>4. ASSUME q.op # "revoke_user", NEW r \in Realms, r \in AllLocks(q).read \cup AllLocks(q).write
        PROVE  q.op \in RealmOps \cup VlobOps /\ r = q.realm
    <2>1. "common" \notin Realms /\ "sequester" \notin Realms
      BY TopicsAssumption, Zenon
    <2>3. \/ r \in OuterLock(q).read \/ r \in OuterLock(q).write
          \/ r \in NestedLock(q).read \/ r \in NestedLock(q).write
      BY <1>4, HandlerLocks, MergeFields DEF AllLocks
    <2>4. r \notin OuterLock(q).write
      BY <2>1, LockFields DEF OuterLock, NoLock
    <2>5. r \in OuterLock(q).read => q.op = "create_vlob" /\ r = q.realm
      BY <2>1, LockFields DEF OuterLock
    <2>6. r \in NestedLock(q).write => q.op \in RealmOps /\ r = q.realm
      BY <1>4, LockFields DEF NestedLock, NoLock, RealmOps
    <2>7. r \in NestedLock(q).read => q.op = "update_vlob" /\ r = q.realm
      BY <1>4, <2>1, LockFields DEF NestedLock, NoLock
    <2> QED
      BY <2>3, <2>4, <2>5, <2>6, <2>7, Zenon DEF VlobOps
  <1> QED
    BY <1>1, <1>2, <1>3, <1>4, Zenon

(***************************************************************************)
(* An insertion whose checks hold is a step of Organization.               *)
(***************************************************************************)

LEMMA AuthorOf ==
    ASSUME NEW q, AuthorKnown(q)
    PROVE  Author(q) \in devices
  BY Zenon DEF AuthorKnown, Author

LEMMA CommonInsertIsNext ==
    ASSUME NEW q \in AnyRequest, q.op \in CommonOps, NEW s, s.common = commonTs,
           OuterCheck(q), NestedCheck(q, s, RealmsOf(q.user)), Insert(q)
    PROVE  CommonNext
  <1> DEFINE a == Author(q)
  <1>1. a \in devices
    BY AuthorOf, Zenon DEF OuterCheck
  <1>2. q.ts \in Timestamps
    BY RequestKinds, Zenon
  <1> HIDE DEF a
  <1>3. CASE q.op = "create_user"
    <2>1. q.user \in Users /\ q.device \in Devices /\ q.profile \in Profiles
      BY <1>3, RequestFields, Zenon
    <2>2. CreateUser(a, q.user, q.device, q.profile, q.ts)
      BY <1>3, Zenon DEF OuterCheck, Insert, CreateUser, a
    <2> QED
      BY <1>1, <1>2, <2>1, <2>2, Zenon DEF CommonNext
  <1>4. CASE q.op = "create_device"
    <2>1. q.device \in Devices
      BY <1>4, RequestFields, Zenon
    <2>2. CreateDevice(a, q.device, q.ts)
      BY <1>4, Zenon DEF OuterCheck, Insert, CreateDevice, a
    <2> QED
      BY <1>1, <1>2, <2>1, <2>2, Zenon DEF CommonNext
  <1>5. CASE q.op = "revoke_user"
    <2>1. q.user \in Users
      BY <1>5, RequestFields, Zenon
    <2>2. RevokeUser(a, q.user, q.ts)
      BY <1>5, Zenon DEF OuterCheck, NestedCheck, Insert, RevokeUser, a
    <2> QED
      BY <1>1, <1>2, <2>1, <2>2, Zenon DEF CommonNext
  <1>6. CASE q.op = "update_user"
    <2>1. q.user \in Users /\ q.profile \in Profiles
      BY <1>6, RequestFields, Zenon
    <2>2. UpdateUser(a, q.user, q.profile, q.ts)
      BY <1>6, Zenon DEF OuterCheck, Insert, UpdateUser, a
    <2> QED
      BY <1>1, <1>2, <2>1, <2>2, Zenon DEF CommonNext
  <1> QED
    BY <1>3, <1>4, <1>5, <1>6, Zenon DEF CommonOps, CommonWrites

LEMMA RealmInsertIsNext ==
    ASSUME NEW q \in AnyRequest, q.op \in RealmOps, NEW s, NEW realms,
           s.common = commonTs, s.realm = realmTs[q.realm],
           OuterCheck(q), NestedCheck(q, s, realms), LastCheck(q, s), Insert(q)
    PROVE  RealmNext
  <1> DEFINE a == Author(q)
             r == q.realm
  <1>1. a \in devices
    BY AuthorOf, Zenon DEF OuterCheck
  <1>2. q.ts \in Timestamps /\ r \in Realms
    BY RequestKinds, Zenon
  <1> HIDE DEF a, r
  <1>3. CASE q.op = "create_realm"
    <2>1. CreateRealm(a, r, q.ts)
      BY <1>3, Zenon DEF OuterCheck, NestedCheck, NewerThan, Insert, CreateRealm, NewerThanTopics, a, r
    <2> QED
      BY <1>1, <1>2, <2>1, Zenon DEF RealmNext
  <1>4. CASE q.op = "share"
    <2>1. q.user \in Users /\ q.role \in RealmRoles /\ q.key \in KeyIndexes
      BY <1>4, RequestFields, Zenon
    <2>2. Share(a, r, q.user, q.role, q.key, q.ts)
      BY <1>4, Zenon DEF OuterCheck, NestedCheck, NewerThan, Insert, Share, NewerThanTopics, a, r
    <2> QED
      BY <1>1, <1>2, <2>1, <2>2, Zenon DEF RealmNext
  <1>5. CASE q.op = "unshare"
    <2>1. q.user \in Users
      BY <1>5, RequestFields, Zenon
    <2>2. Unshare(a, r, q.user, q.ts)
      BY <1>5, Zenon DEF OuterCheck, NestedCheck, NewerThan, Insert, Unshare, NewerThanTopics, a, r
    <2> QED
      BY <1>1, <1>2, <2>1, <2>2, Zenon DEF RealmNext
  <1>6. CASE q.op = "rename"
    <2>1. q.key \in KeyIndexes /\ q.initialNameOrFail \in BOOLEAN
      BY <1>6, RequestFields, Zenon
    <2>2. Rename(a, r, q.key, q.initialNameOrFail, q.ts)
      BY <1>6, Zenon DEF OuterCheck, NestedCheck, NewerThan, Insert, Rename, NewerThanTopics, a, r
    <2> QED
      BY <1>1, <1>2, <2>1, <2>2, Zenon DEF RealmNext
  <1>7. CASE q.op = "rotate_key"
    <2>1. q.key \in KeyIndexes /\ q.recipients \in SUBSET Users
      BY <1>7, RequestFields, Zenon
    <2>2. RotateKey(a, r, q.key, q.recipients, q.ts)
      BY <1>7, Zenon DEF OuterCheck, NestedCheck, LastCheck, NewerThan, Insert, RotateKey, NewerThanTopics, a, r
    <2> QED
      BY <1>1, <1>2, <2>1, <2>2, Zenon DEF RealmNext
  <1> QED
    BY <1>3, <1>4, <1>5, <1>6, <1>7, Zenon DEF RealmOps

LEMMA VlobInsertIsNext ==
    ASSUME NEW q \in AnyRequest, q.op \in VlobOps, NEW s, NEW realms,
           s.common = commonTs, s.realm = realmTs[q.realm],
           OuterCheck(q), NestedCheck(q, s, realms), LastCheck(q, s), Insert(q)
    PROVE  VlobNext
  <1> DEFINE a == Author(q)
             r == q.realm
  <1>1. a \in devices
    BY AuthorOf, Zenon DEF OuterCheck
  <1>2. q.ts \in Timestamps /\ r \in Realms
    BY RequestKinds, Zenon
  <1> HIDE DEF a, r
  <1>3. CASE q.op = "create_vlob"
    <2>1. q.vlob \in Vlobs /\ q.key \in KeyIndexes
      BY <1>3, RequestFields, Zenon
    <2>2. CreateVlob(a, r, q.vlob, q.key, q.ts)
      BY <1>3, Zenon DEF OuterCheck, NestedCheck, NewerThan, Insert, CreateVlob, NewerThanTopics, a, r
    <2> QED
      BY <1>1, <1>2, <2>1, <2>2, Zenon DEF VlobNext
  <1>4. CASE q.op = "update_vlob"
    <2>1. q.vlob \in Vlobs /\ q.key \in KeyIndexes /\ q.version \in 2 .. MaxVersions
      BY <1>4, RequestFields, Zenon
    <2>2. UpdateVlob(a, r, q.vlob, q.key, q.version, q.ts)
      BY <1>4, Zenon DEF OuterCheck, NestedCheck, LastCheck, NewerThan, Insert, UpdateVlob, NewerThanTopics, a, r
    <2> QED
      BY <1>1, <1>2, <2>1, <2>2, Zenon DEF VlobNext
  <1> QED
    BY <1>3, <1>4, Zenon DEF VlobOps

(***************************************************************************)
(* What an insertion changes.                                              *)
(***************************************************************************)

SameRealm(r) ==
    /\ realmTs'[r] = realmTs[r] /\ roles'[r] = roles[r]
    /\ rotations'[r] = rotations[r] /\ renames'[r] = renames[r]

LEMMA CommonInsertFrame ==
    ASSUME NEW q, q.op \in CommonOps, Insert(q)
    PROVE  UNCHANGED <<realmVars, vlobVars>>
  <1>1. CASE q.op = "create_user"
    BY <1>1, Zenon DEF Insert, InsertUser
  <1>2. CASE q.op = "create_device"
    BY <1>2, Zenon DEF Insert, InsertDevice
  <1>3. CASE q.op = "revoke_user"
    BY <1>3, Zenon DEF Insert, InsertRevocation
  <1>4. CASE q.op = "update_user"
    BY <1>4, Zenon DEF Insert, InsertProfile
  <1> QED
    BY <1>1, <1>2, <1>3, <1>4, Zenon DEF CommonOps, CommonWrites

LEMMA AddRoleFrame ==
    ASSUME TypeOK, NEW r \in Realms, NEW u, NEW role, NEW t, NEW author, AddRole(r, u, role, t, author)
    PROVE  /\ \A x \in Realms : x # r => realmTs'[x] = realmTs[x] /\ roles'[x] = roles[x]
           /\ roles'[r] # <<>>
  <1>1. roles[r] \in Seq(RoleCerts) /\ DOMAIN roles = Realms /\ DOMAIN realmTs = Realms
    BY Zenon DEF TypeOK
  <1> DEFINE c == [user |-> u, role |-> role, ts |-> t, author |-> author]
  <1>2. realmTs' = [realmTs EXCEPT ![r] = t] /\ roles' = [roles EXCEPT ![r] = Append(roles[r], c)]
    BY Zenon DEF AddRole
  <1> HIDE DEF c
  <1>3. Append(roles[r], c) # <<>>
    BY <1>1, AppendNotEmpty, Zenon
  <1> QED
    BY <1>1, <1>2, <1>3, Zenon

LEMMA RealmInsertFrame ==
    ASSUME TypeOK, NEW q \in AnyRequest, q.op \in RealmOps, Insert(q)
    PROVE  /\ UNCHANGED <<commonVars, vlobVars>>
           /\ \A r \in Realms : r # q.realm => SameRealm(r)
           /\ \A r \in Realms : RealmExists(r) => RealmExists(r)'
           /\ q.op = "create_realm" => RealmExists(q.realm)'
  <1> DEFINE r == q.realm
             a == Author(q)
  <1>1. r \in Realms
    BY RequestKinds, Zenon
  <1>2. /\ DOMAIN realmTs = Realms /\ DOMAIN roles = Realms
        /\ DOMAIN rotations = Realms /\ DOMAIN renames = Realms
    BY Zenon DEF TypeOK
  <1> HIDE DEF r, a
  <1>3. ASSUME NEW u, NEW role, AddRole(r, u, role, q.ts, a.id), renames' = renames,
               \A x \in Realms : x # r => rotations'[x] = rotations[x]
        PROVE  /\ \A x \in Realms : x # r => SameRealm(x)
               /\ \A x \in Realms : RealmExists(x) => RealmExists(x)'
               /\ RealmExists(r)'
    <2>1. /\ \A x \in Realms : x # r => realmTs'[x] = realmTs[x] /\ roles'[x] = roles[x]
          /\ roles'[r] # <<>>
      BY <1>1, <1>3, AddRoleFrame, Zenon
    <2> QED
      BY <1>3, <2>1, Zenon DEF SameRealm, RealmExists
  <1>4. ASSUME roles' = roles, realmTs' = [realmTs EXCEPT ![r] = q.ts],
               \A x \in Realms : x # r => rotations'[x] = rotations[x] /\ renames'[x] = renames[x]
        PROVE  /\ \A x \in Realms : x # r => SameRealm(x)
               /\ \A x \in Realms : RealmExists(x) => RealmExists(x)'
    BY <1>1, <1>2, <1>4, Zenon DEF SameRealm, RealmExists
  <1>5. CASE q.op = "create_realm"
    <2>1. InsertRole(r, a.user, "OWNER", q.ts, a.id)
      BY <1>5, Zenon DEF Insert, r, a
    <2>2. /\ UNCHANGED <<commonVars, vlobVars>> /\ rotations' = rotations /\ renames' = renames
          /\ AddRole(r, a.user, "OWNER", q.ts, a.id)
      BY <2>1, Zenon DEF InsertRole
    <2> QED
      BY <1>3, <2>2, Zenon DEF r
  <1>6. CASE q.op = "unshare"
    <2>1. InsertRole(r, q.user, "NONE", q.ts, a.id)
      BY <1>6, Zenon DEF Insert, r, a
    <2>2. /\ UNCHANGED <<commonVars, vlobVars>> /\ rotations' = rotations /\ renames' = renames
          /\ AddRole(r, q.user, "NONE", q.ts, a.id)
      BY <2>1, Zenon DEF InsertRole
    <2> QED
      BY <1>3, <1>6, <2>2, Zenon DEF r
  <1>7. CASE q.op = "share"
    <2>1. InsertShare(r, q.user, q.role, q.key, q.ts, a.id)
      BY <1>7, Zenon DEF Insert, r, a
    <2>2. /\ UNCHANGED <<commonVars, vlobVars>> /\ renames' = renames
          /\ AddRole(r, q.user, q.role, q.ts, a.id)
      BY <2>1, Zenon DEF InsertShare
    <2>3. \A x \in Realms : x # r => rotations'[x] = rotations[x]
      BY <1>1, <1>2, <2>1, Zenon DEF InsertShare
    <2> QED
      BY <1>3, <1>7, <2>2, <2>3, Zenon DEF r
  <1>8. CASE q.op = "rename"
    <2>1. InsertName(r, q.key, q.ts, a.id)
      BY <1>8, Zenon DEF Insert, r, a
    <2>2. /\ UNCHANGED <<commonVars, vlobVars>> /\ roles' = roles /\ rotations' = rotations
          /\ realmTs' = [realmTs EXCEPT ![r] = q.ts]
      BY <2>1, Zenon DEF InsertName
    <2>3. \A x \in Realms : x # r => renames'[x] = renames[x]
      BY <1>1, <1>2, <2>1, Zenon DEF InsertName
    <2> QED
      BY <1>4, <1>8, <2>2, <2>3, Zenon DEF r
  <1>9. CASE q.op = "rotate_key"
    <2>1. InsertRotation(r, q.recipients, q.ts, a.id)
      BY <1>9, Zenon DEF Insert, r, a
    <2>2. /\ UNCHANGED <<commonVars, vlobVars>> /\ roles' = roles /\ renames' = renames
          /\ realmTs' = [realmTs EXCEPT ![r] = q.ts]
      BY <2>1, Zenon DEF InsertRotation
    <2>3. \A x \in Realms : x # r => rotations'[x] = rotations[x]
      BY <1>1, <1>2, <2>1, Zenon DEF InsertRotation
    <2> QED
      BY <1>4, <1>9, <2>2, <2>3, Zenon DEF r
  <1> QED
    BY <1>5, <1>6, <1>7, <1>8, <1>9, Zenon DEF RealmOps

LEMMA VlobInsertFrame ==
    ASSUME TypeOK, NEW q \in AnyRequest, q.op \in VlobOps, Insert(q)
    PROVE  /\ UNCHANGED <<commonVars, realmVars>>
           /\ \A r \in Realms, v \in Vlobs : vlobs[r][v] # <<>> => vlobs'[r][v] # <<>>
           /\ \A r \in Realms, v \in Vlobs :
                (r # q.realm \/ v # q.vlob) => vlobs'[r][v] = vlobs[r][v]
  <1> DEFINE r == q.realm
             v == q.vlob
             c == Atom(q.key, q.ts, Author(q).id)
  <1>1. r \in Realms /\ v \in Vlobs
    BY RequestKinds, RequestFields, Zenon DEF VlobOps
  <1>2. vlobs \in [Realms -> [Vlobs -> Seq(Atoms)]]
    BY Zenon DEF TypeOK
  <1> HIDE DEF r, v, c
  <1>3. ASSUME NEW versions, versions # <<>>, InsertVlob(r, v, versions, q.ts)
        PROVE  /\ UNCHANGED <<commonVars, realmVars>>
               /\ \A x \in Realms, w \in Vlobs : vlobs[x][w] # <<>> => vlobs'[x][w] # <<>>
               /\ \A x \in Realms, w \in Vlobs : (x # r \/ w # v) => vlobs'[x][w] = vlobs[x][w]
    <2>1. vlobs' = [vlobs EXCEPT ![r][v] = versions] /\ UNCHANGED <<commonVars, realmVars>>
      BY <1>3, Zenon DEF InsertVlob
    <2> QED
      BY <1>1, <1>2, <1>3, <2>1, Zenon
  <1>4. CASE q.op = "create_vlob"
    <2>1. InsertVlob(r, v, <<c>>, q.ts) /\ <<c>> # <<>>
      BY <1>4, Zenon DEF Insert, r, v, c
    <2> QED
      BY <1>3, <2>1, Zenon DEF r, v
  <1>5. CASE q.op = "update_vlob"
    <2>1. InsertVlob(r, v, Append(vlobs[r][v], c), q.ts)
      BY <1>5, Zenon DEF Insert, r, v, c
    <2>2. Append(vlobs[r][v], c) # <<>>
      BY <1>1, <1>2, AppendNotEmpty, ZenonT(30)
    <2> QED
      BY <1>3, <2>1, <2>2, ZenonT(30) DEF r, v
  <1> QED
    BY <1>4, <1>5, Zenon DEF VlobOps

(***************************************************************************)
(* What a suspended handler checked, and how it stays true.                *)
(***************************************************************************)

LEMMA OuterCheckStays ==
    ASSUME NEW q \in AnyRequest, q.op \in NestingOps \cup WebhookOps, OuterCheck(q), UNCHANGED commonVars,
           q.op # "revoke_user" => (RealmExists(q.realm) => RealmExists(q.realm)'),
           q.op = "update_vlob" => (vlobs[q.realm][q.vlob] # <<>> => vlobs'[q.realm][q.vlob] # <<>>)
    PROVE  OuterCheck(q)'
  <1> DEFINE a == Author(q)
  <1>1. AuthorKnown(q)' /\ Author(q)' = Author(q)
    BY Zenon DEF OuterCheck, AuthorKnown, Author, commonVars
  <1>2. \A u : /\ (Exists(u)' <=> Exists(u)) /\ (IsActive(u)' <=> IsActive(u))
               /\ (IsActiveAdmin(u)' <=> IsActiveAdmin(u))
    BY Zenon DEF IsActiveAdmin, IsActive, IsRevoked, Exists, CurrentProfile, commonVars
  <1>3. CASE q.op = "revoke_user"
    <2>1. RevokeUserCheck(Author(q), q.user)
      BY <1>3, Zenon DEF OuterCheck
    <2>2. RevokeUserCheck(Author(q), q.user)'
      BY <1>1, <1>2, <2>1, Zenon DEF RevokeUserCheck
    <2> QED
      BY <1>1, <1>3, <2>2, Zenon DEF OuterCheck
  <1>4. CASE q.op = "share"
    <2>1. ShareCheck(Author(q), q.realm, q.user)
      BY <1>4, Zenon DEF OuterCheck
    <2>2. ShareCheck(Author(q), q.realm, q.user)'
      BY <1>1, <1>2, <1>4, <2>1, Zenon DEF ShareCheck
    <2> QED
      BY <1>1, <1>4, <2>2, Zenon DEF OuterCheck
  <1>5. CASE q.op = "unshare"
    <2>1. UnshareCheck(Author(q), q.realm, q.user)
      BY <1>5, Zenon DEF OuterCheck
    <2>2. UnshareCheck(Author(q), q.realm, q.user)'
      BY <1>1, <1>2, <1>5, <2>1, Zenon DEF UnshareCheck
    <2> QED
      BY <1>1, <1>5, <2>2, Zenon DEF OuterCheck
  <1>6. CASE q.op \in {"rename", "rotate_key", "create_vlob", "update_vlob"}
    <2>1. AuthorCheck(Author(q), q.realm) /\ (q.op = "update_vlob" => vlobs[q.realm][q.vlob] # <<>>)
      BY <1>6, Zenon DEF OuterCheck
    <2>2. AuthorCheck(Author(q), q.realm)'
      BY <1>1, <1>2, <1>6, <2>1, Zenon DEF AuthorCheck
    <2>3. q.op = "update_vlob" => vlobs'[q.realm][q.vlob] # <<>>
      BY <2>1, Zenon
    <2> QED
      BY <1>1, <1>6, <2>2, <2>3, Zenon DEF OuterCheck
  <1> QED
    BY <1>3, <1>4, <1>5, <1>6, Zenon DEF NestingOps, WebhookOps

LEMMA NestedCheckStays ==
    ASSUME NEW q \in AnyRequest, q.op \in WebhookOps, NEW s, NestedCheck(q, s, {}),
           UNCHANGED commonVars, SameRealm(q.realm),
           q.op = "create_vlob" => vlobs'[q.realm][q.vlob] = vlobs[q.realm][q.vlob]
    PROVE  NestedCheck(q, s, {})'
  <1>1. Author(q)' = Author(q)
    BY Zenon DEF Author, commonVars
  <1>2. LastKey(q.realm)' = LastKey(q.realm) /\ roles'[q.realm] = roles[q.realm]
    BY Zenon DEF LastKey, SameRealm
  <1>3. CASE q.op = "rotate_key"
    <2>1. RotateKeyCheck(Author(q), q.realm, q.key, q.recipients)
      BY <1>3, Zenon DEF NestedCheck
    <2>2. RotateKeyCheck(Author(q), q.realm, q.key, q.recipients)'
      BY <1>1, <1>2, <2>1, Zenon DEF RotateKeyCheck
    <2> QED
      BY <1>1, <1>3, <2>2, Zenon DEF NestedCheck
  <1>4. CASE q.op \in VlobOps
    <2>1. /\ WriteCheck(Author(q), q.realm, q.key) /\ NewerThan(q, s)
          /\ q.op = "create_vlob" => vlobs[q.realm][q.vlob] = <<>>
      BY <1>4, Zenon DEF NestedCheck, VlobOps
    <2>2. WriteCheck(Author(q), q.realm, q.key)'
      BY <1>1, <1>2, <2>1, Zenon DEF WriteCheck
    <2>3. NewerThan(q, s)'
      BY <2>1, Zenon DEF NewerThan
    <2>4. q.op = "create_vlob" => vlobs'[q.realm][q.vlob] = <<>>
      BY <2>1, Zenon
    <2> QED
      BY <1>1, <1>4, <2>2, <2>3, <2>4, Zenon DEF NestedCheck, VlobOps
  <1> QED
    BY <1>3, <1>4, Zenon DEF WebhookOps, VlobOps

LEMMA InsertIsNext ==
    ASSUME NEW q \in AnyRequest, q.op # "bootstrap", NEW s, s.common = commonTs, s.realm = RealmTsOf(q),
           OuterCheck(q), NestedCheck(q, s, NestedLock(q).read), LastCheck(q, s), Insert(q)
    PROVE  Next
  <1>1. q.op \in CommonOps \cup RealmOps \cup VlobOps
    BY RequestKinds, Zenon
  <1>2. CASE q.op \in CommonOps
    <2>1. q.op = "revoke_user" => NestedLock(q).read = RealmsOf(q.user)
      BY NestedLockCases, LockFields, ZenonT(30)
    <2>2. NestedCheck(q, s, RealmsOf(q.user))
      BY <1>2, <2>1, Zenon DEF NestedCheck, CommonOps, CommonWrites
    <2> QED
      BY <1>2, <2>2, CommonInsertIsNext, Zenon DEF Next
  <1>3. CASE q.op \in RealmOps \cup VlobOps
    <2>1. s.realm = realmTs[q.realm]
      BY <1>3, RequestKinds, Zenon DEF RealmTsOf
    <2> QED
      BY <1>3, <2>1, RealmInsertIsNext, VlobInsertIsNext, Zenon DEF Next
  <1> QED
    BY <1>1, <1>2, <1>3, Zenon

LEMMA InsertKeepsRealms ==
    ASSUME TypeOK, NEW q \in AnyRequest, q.op # "bootstrap", Insert(q), NEW r \in Realms, RealmExists(r)
    PROVE  RealmExists(r)'
  <1>1. q.op \in CommonOps \cup RealmOps \cup VlobOps
    BY RequestKinds, Zenon
  <1>2. CASE q.op \in CommonOps
    BY <1>2, CommonInsertFrame, Zenon DEF realmVars, RealmExists
  <1>3. CASE q.op \in RealmOps
    BY <1>3, RealmInsertFrame, Zenon
  <1>4. CASE q.op \in VlobOps
    BY <1>4, VlobInsertFrame, Zenon DEF realmVars, RealmExists
  <1> QED
    BY <1>1, <1>2, <1>3, <1>4, Zenon

LEMMA LockedRealmsExist ==
    ASSUME NEW q \in AnyRequest, q.op \notin {"bootstrap", "create_realm"}, OuterCheck(q),
           NEW r \in Realms, r \in AllLocks(q).read \cup AllLocks(q).write
    PROVE  RealmExists(r)
  <1>1. CASE q.op = "revoke_user"
    <2>1. AllLocks(q).write = {"common"} /\ AllLocks(q).read = RealmsOf(q.user)
      <3>1. OuterLock(q) = Lock({}, {"common"}) /\ NestedLock(q) = Lock(RealmsOf(q.user), {})
        BY <1>1, Zenon DEF OuterLock, NestedLock, CommonWrites
      <3>2. /\ OuterLock(q) \in LockRequests /\ NestedLock(q) \in LockRequests
        BY HandlerLocks, Zenon
      <3>3. /\ AllLocks(q).read = OuterLock(q).read \cup NestedLock(q).read
            /\ AllLocks(q).write = OuterLock(q).write \cup NestedLock(q).write
        BY <3>2, MergeFields, Zenon DEF AllLocks
      <3>4. /\ OuterLock(q).read = {} /\ OuterLock(q).write = {"common"}
            /\ NestedLock(q).read = RealmsOf(q.user) /\ NestedLock(q).write = {}
        BY <3>1, LockFields
      <3> QED
        BY <3>3, <3>4, Zenon
    <2>2. CurrentRole(roles[r], q.user) # "NONE"
      BY <2>1, TopicsAssumption, Zenon DEF RealmsOf
    <2>3. roles[r] = <<>> => CurrentRole(roles[r], q.user) = "NONE"
      BY DEF CurrentRole
    <2> QED
      BY <2>2, <2>3, Zenon DEF RealmExists
  <1>2. CASE q.op # "revoke_user"
    <2>1. q.op \in RealmOps \cup VlobOps /\ r = q.realm
      BY <1>2, NestedLockCases, ZenonT(30)
    <2>2. CASE q.op \in {"share", "unshare"}
      BY <2>1, <2>2, Zenon DEF OuterCheck, ShareCheck, UnshareCheck
    <2>3. CASE q.op \in {"rename", "rotate_key", "create_vlob", "update_vlob"}
      BY <2>1, <2>3, Zenon DEF OuterCheck, AuthorCheck
    <2> QED
      BY <2>1, <2>2, <2>3, Zenon DEF RealmOps, VlobOps
  <1> QED
    BY <1>1, <1>2, Zenon

(***************************************************************************)
(* The inductive invariant.                                                *)
(***************************************************************************)

Labels == {"idle", "outer", "nested", "webhook", "sending", "done"}

\* Waiting for the nested lock: the outer checks hold.
NestedPhase(q, sn) == q.op \in NestingOps /\ OuterCheck(q) /\ sn.common = commonTs

\* A create with no other create of its vlob around while webhooks are awaited.
Unrivalled(q) == q.op = "create_vlob" => OneCreator

\* Awaiting webhooks: all checks made so far hold.
WebhookPhase(q, sn) ==
    /\ q.op \in WebhookOps /\ OuterCheck(q) /\ (Unrivalled(q) => NestedCheck(q, sn, {}))
    /\ sn.common = commonTs /\ sn.realm = realmTs[q.realm]

Phase(t) ==
    \A q, sn : q = req[t] /\ sn = seen[t] =>
        /\ pc[t] # "idle" => q \in Requests[sequestered][t]
        /\ pc[t] \in {"idle", "outer", "done"} => locked[t] = NoLock
        /\ pc[t] = "nested" =>
            locked[t] = OuterLock(q) /\ wanted[t] = NestedLock(q) /\ NestedPhase(q, sn)
        /\ pc[t] = "webhook" => sequestered /\ locked[t] = AllLocks(q) /\ WebhookPhase(q, sn)

TasksOK ==
    /\ sequestered \in BOOLEAN /\ pc \in [Tasks -> Labels]
    /\ DOMAIN req = Tasks /\ DOMAIN wanted = Tasks /\ DOMAIN seen = Tasks

HeldRealmsExist ==
    \A t \in Tasks, r \in Realms : r \in locked[t].read \cup locked[t].write => RealmExists(r)

\* What makes the checks of a suspended handler still true when it goes on.
ServerInv ==
    /\ TypeOK /\ TasksOK /\ HeldRealmsExist
    /\ Books(writeLocked, readLocked, locked)
    /\ \A t \in Tasks : Phase(t)

SameTask(t) ==
    /\ pc'[t] = pc[t] /\ req'[t] = req[t] /\ locked'[t] = locked[t]
    /\ wanted'[t] = wanted[t] /\ seen'[t] = seen[t]

LEMMA SomeRequest ==
    ASSUME NEW t \in Tasks, sequestered \in BOOLEAN, NEW q \in Requests[sequestered][t]
    PROVE  q \in AnyRequest
  BY RequestsAssumption, Zenon DEF AnyRequest

\* A step that changes nothing of the organization and nothing of a task.
LEMMA QuietStep ==
    ASSUME ServerInv, UNCHANGED <<vars, sequestered>>, NEW t \in Tasks, SameTask(t)
    PROVE  Phase(t)'
  <1> SUFFICES ASSUME NEW q, NEW sn, q = req'[t], sn = seen'[t]
               PROVE  /\ pc'[t] # "idle" => q \in Requests[sequestered'][t]
                      /\ pc'[t] \in {"idle", "outer", "done"} => locked'[t] = NoLock
                      /\ pc'[t] = "nested" =>
                          locked'[t] = OuterLock(q) /\ wanted'[t] = NestedLock(q)' /\ NestedPhase(q, sn)'
                      /\ pc'[t] = "webhook" => sequestered' /\ locked'[t] = AllLocks(q)' /\ WebhookPhase(q, sn)'
    BY ZenonT(30) DEF Phase
  <1>0. q = req[t] /\ sn = seen[t]
    BY Zenon DEF SameTask
  <1>1. /\ pc[t] # "idle" => q \in Requests[sequestered][t]
        /\ pc[t] \in {"idle", "outer", "done"} => locked[t] = NoLock
        /\ pc[t] = "nested" =>
            locked[t] = OuterLock(q) /\ wanted[t] = NestedLock(q) /\ NestedPhase(q, sn)
        /\ pc[t] = "webhook" => sequestered /\ locked[t] = AllLocks(q) /\ WebhookPhase(q, sn)
    BY <1>0, Zenon DEF ServerInv, Phase
  <1>2. pc[t] # "idle" => q \in AnyRequest
    BY <1>1, SomeRequest, ZenonT(30) DEF ServerInv, TasksOK
  <1>3. UNCHANGED <<commonVars, realmVars, vlobVars>>
    BY Zenon DEF vars, commonVars, realmVars, vlobVars
  <1>4. \A x : NestedLock(x)' = NestedLock(x) /\ AllLocks(x)' = AllLocks(x)
    <2>1. \A u : RealmsOf(u)' = RealmsOf(u)
      BY <1>3, Zenon DEF RealmsOf, realmVars
    <2> QED
      BY <2>1, Zenon DEF NestedLock, AllLocks
  <1>5. ASSUME pc[t] = "nested" PROVE NestedPhase(q, sn)'
    <2>1. q \in AnyRequest /\ q.op \in NestingOps /\ OuterCheck(q) /\ sn.common = commonTs
      BY <1>1, <1>2, <1>5, Zenon DEF NestedPhase
    <2>2. OuterCheck(q)'
      BY <1>3, <2>1, OuterCheckStays, Zenon DEF realmVars, vlobVars, RealmExists
    <2> QED
      BY <1>3, <2>1, <2>2, Zenon DEF NestedPhase, commonVars
  <1>6. ASSUME pc[t] = "webhook" PROVE WebhookPhase(q, sn)'
    <2>1. /\ q \in AnyRequest /\ q.op \in WebhookOps /\ OuterCheck(q)
          /\ Unrivalled(q) => NestedCheck(q, sn, {})
          /\ sn.common = commonTs /\ sn.realm = realmTs[q.realm]
      BY <1>1, <1>2, <1>6, ZenonT(30) DEF WebhookPhase
    <2>2. OuterCheck(q)'
      BY <1>3, <2>1, OuterCheckStays, Zenon DEF realmVars, vlobVars, RealmExists
    <2>3. Unrivalled(q) => NestedCheck(q, sn, {})'
      BY <1>3, <2>1, NestedCheckStays, Zenon DEF realmVars, vlobVars, SameRealm
    <2> QED
      BY <1>3, <2>1, <2>2, <2>3, ZenonT(30) DEF WebhookPhase, Unrivalled, OneCreator, Creates, commonVars, realmVars
  <1> QED
    BY <1>1, <1>4, <1>5, <1>6, ZenonT(30) DEF SameTask

\* An insertion by another task, whose locks exclude those of this one.
LEMMA OthersInsert ==
    ASSUME ServerInv, NEW t \in Tasks, NEW u \in Tasks, t # u, SameTask(t),
           sequestered' = sequestered,
           NEW o \in Requests[sequestered][u], o.op # "bootstrap", OuterCheck(o), Insert(o),
           Exclusive(locked'), locked'[u] = AllLocks(o)
    PROVE  Phase(t)'
  <1> SUFFICES ASSUME NEW q, NEW sn, q = req'[t], sn = seen'[t]
               PROVE  /\ pc'[t] # "idle" => q \in Requests[sequestered'][t]
                      /\ pc'[t] \in {"idle", "outer", "done"} => locked'[t] = NoLock
                      /\ pc'[t] = "nested" =>
                          locked'[t] = OuterLock(q) /\ wanted'[t] = NestedLock(q)' /\ NestedPhase(q, sn)'
                      /\ pc'[t] = "webhook" => sequestered' /\ locked'[t] = AllLocks(q)' /\ WebhookPhase(q, sn)'
    BY ZenonT(30) DEF Phase
  <1>0. q = req[t] /\ sn = seen[t]
    BY Zenon DEF SameTask
  <1>1. /\ pc[t] # "idle" => q \in Requests[sequestered][t]
        /\ pc[t] \in {"idle", "outer", "done"} => locked[t] = NoLock
        /\ pc[t] = "nested" =>
            locked[t] = OuterLock(q) /\ wanted[t] = NestedLock(q) /\ NestedPhase(q, sn)
        /\ pc[t] = "webhook" => sequestered /\ locked[t] = AllLocks(q) /\ WebhookPhase(q, sn)
    BY <1>0, Zenon DEF ServerInv, Phase
  <1>2. /\ pc[t] # "idle" => q \in AnyRequest
        /\ o \in AnyRequest /\ TypeOK
    BY <1>1, SomeRequest, ZenonT(30) DEF ServerInv, TasksOK
  <1>3. CASE pc[t] \notin {"nested", "webhook"}
    BY <1>1, <1>3, ZenonT(30) DEF SameTask
  <1>4. CASE pc[t] \in {"nested", "webhook"}
    <2>1. /\ q \in AnyRequest /\ q.op \in NestingOps \cup WebhookOps /\ OuterCheck(q)
          /\ locked'[t] = locked[t] /\ sn.common = commonTs
      BY <1>1, <1>2, <1>4, ZenonT(30) DEF NestedPhase, WebhookPhase, SameTask
    <2>2. /\ OuterLock(q) \in LockRequests /\ NestedLock(q) \in LockRequests
          /\ OuterLock(o) \in LockRequests /\ NestedLock(o) \in LockRequests
      BY <1>2, <2>1, HandlerLocks, Zenon
    <2>3. /\ AllLocks(q).read = OuterLock(q).read \cup NestedLock(q).read
          /\ AllLocks(q).write = OuterLock(q).write \cup NestedLock(q).write
          /\ AllLocks(o).read = OuterLock(o).read \cup NestedLock(o).read
          /\ AllLocks(o).write = OuterLock(o).write \cup NestedLock(o).write
      BY <2>2, MergeFields, ZenonT(30) DEF AllLocks
    <2>4. OuterLock(q).read \subseteq locked[t].read /\ OuterLock(q).write \subseteq locked[t].write
      BY <1>1, <1>4, <2>3, ZenonT(30)
    <2>5. /\ AllLocks(o).write \cap (locked[t].read \cup locked[t].write) = {}
          /\ locked[t].write \cap (AllLocks(o).read \cup AllLocks(o).write) = {}
      BY <2>1, ZenonT(30) DEF Exclusive
    <2>6. "common" \in OuterLock(q).read \cup OuterLock(q).write
      BY <2>1, HandlerLocks, ZenonT(30)
    <2>7. o.op \notin CommonWrites
      BY <1>2, <2>3, <2>4, <2>5, <2>6, HandlerLocks, ZenonT(30)
    <2>8. q.op # "revoke_user"
      <3>1. "common" \in OuterLock(o).read
        BY <1>2, <2>7, HandlerLocks, Zenon
      <3>2. "common" \notin OuterLock(q).write
        BY <2>3, <2>4, <2>5, <3>1, Zenon
      <3>3. q.op \notin CommonWrites
        BY <2>1, <3>2, HandlerLocks, ZenonT(30)
      <3> QED
        BY <3>3, Zenon DEF CommonWrites
    <2>9. q.realm \in Realms /\ (q.op \in VlobOps => q.vlob \in Vlobs)
      BY <2>1, <2>8, RequestKinds, RequestFields, ZenonT(30) DEF NestingOps, WebhookOps, RealmOps, VlobOps
    <2>10. o.op \in RealmOps \cup VlobOps
      BY <1>2, <2>7, RequestKinds, ZenonT(30) DEF CommonOps, CommonWrites
    <2>11. /\ UNCHANGED commonVars
           /\ \A r \in Realms : RealmExists(r) => RealmExists(r)'
           /\ \A r \in Realms, v \in Vlobs : vlobs[r][v] # <<>> => vlobs'[r][v] # <<>>
      <3>1. CASE o.op \in RealmOps
        BY <1>2, <3>1, RealmInsertFrame, ZenonT(30) DEF vlobVars
      <3>2. CASE o.op \in VlobOps
        BY <1>2, <3>2, VlobInsertFrame, ZenonT(30) DEF realmVars, RealmExists
      <3> QED
        BY <2>10, <3>1, <3>2, ZenonT(30)
    <2>12. OuterCheck(q)' /\ sn.common = commonTs'
      BY <2>1, <2>9, <2>11, OuterCheckStays, Zenon DEF commonVars, VlobOps
    <2>13. NestedLock(q)' = NestedLock(q) /\ AllLocks(q)' = AllLocks(q)
      BY <2>8, Zenon DEF NestedLock, AllLocks
    <2>14. ASSUME pc[t] = "webhook" PROVE WebhookPhase(q, sn)'
      <3>1. /\ q.op \in WebhookOps /\ sn.realm = realmTs[q.realm]
            /\ Unrivalled(q) => NestedCheck(q, sn, {})
            /\ sequestered /\ locked[t] = AllLocks(q)
        BY <1>1, <2>14, ZenonT(30) DEF WebhookPhase
      <3>2. q.realm \in locked[t].read \cup locked[t].write
        BY <2>1, <2>3, <3>1, HandlerLocks, ZenonT(30) DEF WebhookOps, RealmOps, VlobOps
      <3>3. SameRealm(q.realm)
        <4>1. CASE o.op \in RealmOps
          <5>1. o.realm \in AllLocks(o).write
            BY <1>2, <2>3, <4>1, HandlerLocks, ZenonT(30)
          <5>2. o.realm # q.realm
            BY <2>5, <3>2, <5>1, ZenonT(30)
          <5> QED
            BY <1>2, <2>9, <4>1, <5>2, RealmInsertFrame, ZenonT(30)
        <4>2. CASE o.op \in VlobOps
          BY <1>2, <4>2, VlobInsertFrame, ZenonT(30) DEF realmVars, SameRealm
        <4> QED
          BY <2>10, <4>1, <4>2, ZenonT(30)
      <3>4. ASSUME q.op = "create_vlob", OneCreator PROVE vlobs'[q.realm][q.vlob] = vlobs[q.realm][q.vlob]
        <4>1. vlobs[q.realm][q.vlob] = <<>> /\ q.vlob \in Vlobs
          BY <2>9, <3>1, <3>4, Zenon DEF NestedCheck, VlobOps, Unrivalled
        <4>2. CASE o.op \in RealmOps
          BY <1>2, <4>2, RealmInsertFrame, Zenon DEF vlobVars
        <4>3. CASE o.op \in VlobOps
          <5>1. o.realm # q.realm \/ o.vlob # q.vlob
            <6>1. CASE o.op = "create_vlob"
              <7>1. o \in Requests[TRUE][u] /\ q \in Requests[TRUE][t]
                BY <1>1, <2>14, <3>1, ZenonT(30) DEF ServerInv, TasksOK
              <7>2. Creates(u, o.realm, o.vlob) /\ Creates(t, q.realm, q.vlob)
                BY <3>4, <6>1, <7>1, ZenonT(30) DEF Creates
              <7> QED
                BY <2>9, <3>4, <4>1, <7>2, Zenon DEF OneCreator
            <6>2. CASE o.op = "update_vlob"
              BY <4>1, <6>2, Zenon DEF OuterCheck
            <6> QED
              BY <4>3, <6>1, <6>2, Zenon DEF VlobOps
          <5> QED
            BY <1>2, <2>9, <4>1, <4>3, <5>1, VlobInsertFrame, ZenonT(30)
        <4> QED
          BY <2>10, <4>2, <4>3, ZenonT(30)
      <3>5. Unrivalled(q) => NestedCheck(q, sn, {})'
        BY <2>1, <2>11, <3>1, <3>3, <3>4, NestedCheckStays, ZenonT(30) DEF Unrivalled
      <3> QED
        BY <2>12, <3>1, <3>3, <3>5, ZenonT(30) DEF WebhookPhase, SameRealm, Unrivalled, OneCreator, Creates
    <2>15. pc[t] = "nested" => NestedPhase(q, sn)'
      BY <1>1, <2>12, ZenonT(30) DEF NestedPhase
    <2> QED
      BY <1>1, <2>13, <2>14, <2>15, ZenonT(30) DEF SameTask
  <1> QED
    BY <1>3, <1>4, ZenonT(30)

(***************************************************************************)
(* The steps of a task.                                                    *)
(***************************************************************************)

AtomicStep == UNCHANGED vars \/ Next

LEMMA LeaveStep ==
    ASSUME ServerInv, NEW t \in Tasks, Leave(t), sequestered' = sequestered, roles' = roles
    PROVE  /\ TasksOK' /\ HeldRealmsExist' /\ Books(writeLocked, readLocked, locked)'
           /\ \A s \in Tasks : s # t => SameTask(s)
           /\ pc'[t] = "done" /\ locked'[t] = NoLock /\ req'[t] = req[t]
  <1>1. /\ locked \in [Tasks -> LockRequests] /\ pc \in [Tasks -> Labels] /\ TasksOK
        /\ Books(writeLocked, readLocked, locked) /\ HeldRealmsExist
    BY ZenonT(30) DEF ServerInv, Books, TasksOK
  <1>2. /\ ReleaseLocks(locked[t]) /\ locked' = [locked EXCEPT ![t] = NoLock]
        /\ pc' = [pc EXCEPT ![t] = "done"] /\ UNCHANGED <<req, wanted, seen>>
    BY Zenon DEF Leave, Goto
  <1>3. Books(writeLocked', readLocked', locked')
    BY <1>1, <1>2, ReleaseBooks, ZenonT(30)
  <1>4. TasksOK'
    BY <1>1, <1>2, ZenonT(30) DEF TasksOK, Labels
  <1>5. /\ \A s \in Tasks : s # t => SameTask(s)
        /\ pc'[t] = "done" /\ locked'[t] = NoLock /\ req'[t] = req[t]
    BY <1>1, <1>2, Zenon DEF SameTask
  <1>6. NoLock.read = {} /\ NoLock.write = {}
    BY LockFields, Zenon DEF NoLock
  <1>7. HeldRealmsExist'
    BY <1>1, <1>5, <1>6, Zenon DEF HeldRealmsExist, SameTask, RealmExists
  <1> QED
    BY <1>3, <1>4, <1>5, <1>7, ZenonT(30)

LEMMA RefuseStep ==
    ASSUME ServerInv, NEW t \in Tasks, pc[t] # "idle", Refuse(t), sequestered' = sequestered
    PROVE  ServerInv'
  <1>1. Leave(t) /\ UNCHANGED vars /\ roles' = roles
    BY Zenon DEF Refuse, vars
  <1>2. /\ TasksOK' /\ HeldRealmsExist' /\ Books(writeLocked, readLocked, locked)'
        /\ \A s \in Tasks : s # t => SameTask(s)
        /\ pc'[t] = "done" /\ locked'[t] = NoLock /\ req'[t] = req[t]
    BY <1>1, LeaveStep, Zenon
  <1>3. TypeOK'
    BY <1>1, NextTypes, Zenon DEF ServerInv
  <1>4. \A s \in Tasks : s # t => Phase(s)'
    BY <1>1, <1>2, QuietStep, ZenonT(30)
  <1>5. req[t] \in Requests[sequestered][t]
    BY ZenonT(30) DEF ServerInv, Phase
  <1>6. Phase(t)'
    BY <1>2, <1>5, ZenonT(30) DEF Phase
  <1> QED
    BY <1>2, <1>3, <1>4, <1>6, ZenonT(30) DEF ServerInv

LEMMA BootstrapStep ==
    ASSUME ServerInv, NEW t \in Tasks, pc[t] # "idle", Leave(t), sequestered' = sequestered,
           req[t].op = "bootstrap", Bootstrap(req[t].user, req[t].device, req[t].ts)
    PROVE  ServerInv' /\ Next
  <1>1. req[t] \in Requests[sequestered][t] /\ req[t] \in AnyRequest
    <2>1. Phase(t) /\ sequestered \in BOOLEAN
      BY Zenon DEF ServerInv, TasksOK
    <2>2. req[t] \in Requests[sequestered][t]
      BY <2>1, ZenonT(30) DEF Phase
    <2> QED
      BY <2>1, <2>2, SomeRequest, Zenon
  <1>2. req[t].user \in Users /\ req[t].device \in Devices /\ req[t].ts \in Timestamps
    BY <1>1, RequestKinds, RequestFields, ZenonT(30)
  <1>3. Next
    BY <1>2, Zenon DEF Next, CommonNext
  <1>4. roles' = roles /\ devices = {}
    BY Zenon DEF Bootstrap, InsertUser, realmVars
  <1>5. /\ TasksOK' /\ HeldRealmsExist' /\ Books(writeLocked, readLocked, locked)'
        /\ \A s \in Tasks : s # t => SameTask(s)
        /\ pc'[t] = "done" /\ locked'[t] = NoLock /\ req'[t] = req[t]
    BY <1>4, LeaveStep, Zenon
  <1>6. TypeOK'
    BY <1>3, NextTypes, Zenon DEF ServerInv
  <1>7. ASSUME NEW s \in Tasks, s # t PROVE Phase(s)'
    <2>1. pc[s] \notin {"nested", "webhook"}
      BY <1>4, Zenon DEF ServerInv, Phase, NestedPhase, WebhookPhase, OuterCheck, AuthorKnown
    <2> QED
      BY <1>5, <1>7, <2>1, ZenonT(30) DEF ServerInv, Phase, SameTask
  <1>8. Phase(t)'
    BY <1>1, <1>5, ZenonT(30) DEF Phase
  <1> QED
    BY <1>3, <1>5, <1>6, <1>7, <1>8, Zenon DEF ServerInv

\* The locks a task holds once it has taken more of them.
LEMMA HoldStep ==
    ASSUME ServerInv, NEW t \in Tasks, NEW q \in AnyRequest, NEW taking \in LockRequests,
           ~Conflict(taking), taking.read \cap locked[t].read = {}, MarkTaken(taking),
           locked' = [locked EXCEPT ![t] = Merge(@, taking)], Merge(locked[t], taking) = AllLocks(q)
    PROVE  /\ Books(writeLocked, readLocked, locked)' /\ Exclusive(locked')
           /\ locked'[t] = AllLocks(q) /\ \A s \in Tasks : s # t => locked'[s] = locked[s]
  <1>1. Books(writeLocked, readLocked, locked) /\ locked \in [Tasks -> LockRequests]
    BY ZenonT(30) DEF ServerInv, Books
  <1>2. Books(writeLocked', readLocked', locked')
    BY <1>1, TakeBooks, ZenonT(30)
  <1>3. Exclusive(locked')
    BY <1>2, Zenon DEF Books
  <1> QED
    BY <1>1, <1>2, <1>3, ZenonT(30)

LEMMA InsertStep ==
    ASSUME ServerInv, NEW t \in Tasks, NEW q \in Requests[sequestered][t],
           q.op # "bootstrap", NEW s, s.common = commonTs, s.realm = RealmTsOf(q),
           OuterCheck(q), Unrivalled(q) => NestedCheck(q, s, NestedLock(q).read), LastCheck(q, s), Insert(q),
           Books(writeLocked, readLocked, locked)', Exclusive(locked'), locked'[t] = AllLocks(q),
           sequestered' = sequestered, TasksOK', pc'[t] = "sending", req'[t] = q,
           \A x \in Tasks : x # t => SameTask(x)
    PROVE  ServerInv' /\ (NestedCheck(q, s, NestedLock(q).read) => Next)
  <1>1. q \in AnyRequest /\ TypeOK
    BY SomeRequest, ZenonT(30) DEF ServerInv, TasksOK
  <1>2. NestedCheck(q, s, NestedLock(q).read) => Next
    BY <1>1, InsertIsNext, ZenonT(30)
  <1>3. TypeOK'
    <2>1. CASE q.op # "create_vlob"
      BY <1>1, <1>2, <2>1, NextTypes, ZenonT(30) DEF Unrivalled
    <2>2. CASE q.op = "create_vlob"
      <3>1. q.realm \in Realms /\ q.vlob \in Vlobs /\ q.key \in KeyIndexes /\ q.ts \in Timestamps
        BY <1>1, <2>2, RequestKinds, RequestFields, ZenonT(30) DEF VlobOps
      <3>2. Author(q) \in devices
        BY AuthorOf, Zenon DEF OuterCheck
      <3>3. InsertVlob(q.realm, q.vlob, <<Atom(q.key, q.ts, Author(q).id)>>, q.ts)
        BY <2>2, Zenon DEF Insert
      <3>4. <<Atom(q.key, q.ts, Author(q).id)>> \in Seq(Atoms)
        BY <1>1, <3>1, <3>2, VersionsType, Zenon
      <3> QED
        BY <1>1, <3>1, <3>3, <3>4, VlobTypes, Zenon
    <2> QED
      BY <2>1, <2>2, ZenonT(30)
  <1>4. \A x \in Tasks : x # t => Phase(x)'
    BY OthersInsert, ZenonT(30)
  <1>5. Phase(t)'
    BY ZenonT(30) DEF Phase
  <1>6. HeldRealmsExist'
    <2>1. \A r \in Realms : RealmExists(r) => RealmExists(r)'
      BY <1>1, InsertKeepsRealms, ZenonT(30)
    <2>2. ASSUME NEW r \in Realms, r \in AllLocks(q).read \cup AllLocks(q).write
          PROVE  RealmExists(r)'
      <3>1. CASE q.op = "create_realm"
        <4>1. r = q.realm
          BY <1>1, <2>2, <3>1, NestedLockCases, ZenonT(30)
        <4> QED
          BY <1>1, <3>1, <4>1, RealmInsertFrame, ZenonT(30) DEF RealmOps
      <3>2. CASE q.op # "create_realm"
        BY <1>1, <2>1, <2>2, <3>2, LockedRealmsExist, ZenonT(30)
      <3> QED
        BY <3>1, <3>2, ZenonT(30)
    <2> QED
      BY <2>1, <2>2, ZenonT(30) DEF HeldRealmsExist, ServerInv, SameTask
  <1> QED
    BY <1>2, <1>3, <1>4, <1>5, <1>6, ZenonT(30) DEF ServerInv

LEMMA SuspendStep ==
    ASSUME ServerInv, NEW t \in Tasks, UNCHANGED <<vars, sequestered>>, TasksOK',
           Books(writeLocked, readLocked, locked)', Phase(t)',
           \A x \in Tasks : x # t => SameTask(x),
           \A r \in Realms : r \in locked'[t].read \cup locked'[t].write => RealmExists(r)
    PROVE  ServerInv'
  <1>1. TypeOK'
    BY NextTypes, Zenon DEF ServerInv
  <1>2. \A x \in Tasks : x # t => Phase(x)'
    BY QuietStep, Zenon
  <1>3. \A r : RealmExists(r)' <=> RealmExists(r)
    BY Zenon DEF RealmExists, vars
  <1>4. HeldRealmsExist'
    BY <1>3, ZenonT(30) DEF HeldRealmsExist, ServerInv, SameTask
  <1> QED
    BY <1>1, <1>2, <1>4, Zenon DEF ServerInv

\* All that follows the nested lock, up to the next suspension point.
LEMMA ProceedStep ==
    ASSUME ServerInv, NEW t \in Tasks, NEW q \in Requests[sequestered][t], q = req[t],
           pc[t] \in {"outer", "nested"}, q.op # "bootstrap", OuterCheck(q),
           NEW taking \in LockRequests, ~Conflict(taking), taking.read \cap locked[t].read = {},
           Merge(locked[t], taking) = AllLocks(q),
           NEW s, s.common = commonTs, s.realm = RealmTsOf(q),
           Proceed(t, taking, NestedLock(q).read, s), sequestered' = sequestered
    PROVE  ServerInv' /\ AtomicStep
  <1> DEFINE realms == NestedLock(q).read
  <1>1. q \in AnyRequest
    BY SomeRequest, ZenonT(30) DEF ServerInv, TasksOK
  <1>2. TasksOK /\ pc \in [Tasks -> Labels]
    BY ZenonT(30) DEF ServerInv, TasksOK
  <1>3. CASE Refuse(t)
    BY <1>3, RefuseStep, ZenonT(30) DEF Refuse, AtomicStep
  <1>4. ASSUME NEW label \in Labels, Hold(t, taking), seen' = [seen EXCEPT ![t] = s],
               Goto(t, label), UNCHANGED <<req, wanted>>
        PROVE  /\ Books(writeLocked, readLocked, locked)' /\ Exclusive(locked')
               /\ locked'[t] = AllLocks(q) /\ TasksOK'
               /\ pc'[t] = label /\ req'[t] = q /\ seen'[t] = s
               /\ \A x \in Tasks : x # t => SameTask(x)
    <2>1. MarkTaken(taking) /\ locked' = [locked EXCEPT ![t] = Merge(@, taking)]
      BY <1>4, ZenonT(30) DEF Hold, TakeLocks
    <2>2. /\ Books(writeLocked, readLocked, locked)' /\ Exclusive(locked')
          /\ locked'[t] = AllLocks(q) /\ \A x \in Tasks : x # t => locked'[x] = locked[x]
      BY <1>1, <2>1, HoldStep, ZenonT(30)
    <2>3. TasksOK' /\ pc'[t] = label /\ req'[t] = q /\ seen'[t] = s
      BY <1>2, <1>4, ZenonT(30) DEF TasksOK, Goto
    <2>4. \A x \in Tasks : x # t => SameTask(x)
      BY <1>2, <1>4, <2>2, ZenonT(30) DEF SameTask, Goto, TasksOK
    <2> QED
      BY <2>2, <2>3, <2>4, ZenonT(30)
  <1>5. CASE /\ NestedCheck(q, s, realms) /\ AwaitsWebhook(q) /\ Hold(t, taking)
             /\ seen' = [seen EXCEPT ![t] = s] /\ Goto(t, "webhook") /\ UNCHANGED <<vars, req, wanted>>
    <2>1. /\ Books(writeLocked, readLocked, locked)' /\ TasksOK'
          /\ locked'[t] = AllLocks(q) /\ pc'[t] = "webhook" /\ req'[t] = q /\ seen'[t] = s
          /\ \A x \in Tasks : x # t => SameTask(x)
      BY <1>4, <1>5, ZenonT(30) DEF Labels
    <2>2. sequestered /\ q.op \in WebhookOps
      BY <1>5, ZenonT(30) DEF AwaitsWebhook, WebhookOps
    <2>3. NestedCheck(q, s, {})
      BY <1>5, <2>2, ZenonT(30) DEF NestedCheck, WebhookOps
    <2>4. UNCHANGED <<commonVars, realmVars, vlobVars>>
      BY <1>5, ZenonT(30) DEF vars, commonVars, realmVars, vlobVars
    <2>5. OuterCheck(q)'
      BY <1>1, <2>2, <2>4, OuterCheckStays, ZenonT(30) DEF realmVars, vlobVars, RealmExists
    <2>6. NestedCheck(q, s, {})'
      BY <1>1, <2>2, <2>3, <2>4, NestedCheckStays, ZenonT(30) DEF realmVars, vlobVars, SameRealm
    <2>7. s.common = commonTs' /\ s.realm = realmTs'[q.realm]
      BY <1>1, <2>2, <2>4, RequestKinds, ZenonT(30) DEF commonVars, realmVars, RealmTsOf, WebhookOps, RealmOps, VlobOps
    <2>8. WebhookPhase(q, s)'
      BY <2>2, <2>5, <2>6, <2>7, ZenonT(30) DEF WebhookPhase
    <2>9. AllLocks(q)' = AllLocks(q)
      BY <2>2, Zenon DEF AllLocks, NestedLock, WebhookOps
    <2>10. Phase(t)'
      BY <2>1, <2>2, <2>8, <2>9, ZenonT(30) DEF Phase
    <2>11. \A r \in Realms : r \in locked'[t].read \cup locked'[t].write => RealmExists(r)
      BY <1>1, <2>1, <2>2, LockedRealmsExist, ZenonT(30) DEF WebhookOps
    <2>12. ServerInv'
      BY <1>5, <2>1, <2>10, <2>11, SuspendStep, ZenonT(30)
    <2> QED
      BY <1>5, <2>12, ZenonT(30) DEF AtomicStep
  <1>6. CASE /\ NestedCheck(q, s, realms) /\ LastCheck(q, s) /\ Insert(q) /\ Hold(t, taking)
             /\ seen' = [seen EXCEPT ![t] = s] /\ Goto(t, "sending") /\ UNCHANGED <<req, wanted>>
    <2>1. /\ Books(writeLocked, readLocked, locked)' /\ Exclusive(locked') /\ TasksOK'
          /\ locked'[t] = AllLocks(q) /\ pc'[t] = "sending" /\ req'[t] = q
          /\ \A x \in Tasks : x # t => SameTask(x)
      BY <1>4, <1>6, ZenonT(30) DEF Labels
    <2>2. ServerInv' /\ Next
      BY <1>6, <2>1, InsertStep, ZenonT(30)
    <2> QED
      BY <2>2, ZenonT(30) DEF AtomicStep
  <1> QED
    BY <1>3, <1>5, <1>6, ZenonT(30) DEF Proceed

\* A task goes back to wait for locks.
LEMMA WaitStep ==
    ASSUME ServerInv, NEW t \in Tasks, WaitForRelease(t), UNCHANGED <<vars, taskVars, sequestered>>
    PROVE  ServerInv'
  <1>1. UNCHANGED <<writeLocked, readLocked, pc, req, locked, wanted, seen, roles>>
    BY Zenon DEF WaitForRelease, taskVars, vars
  <1>2. \A x \in Tasks : SameTask(x)
    BY <1>1, Zenon DEF SameTask
  <1>3. \A x \in Tasks : Phase(x)'
    BY <1>2, QuietStep, Zenon
  <1>4. TypeOK'
    BY NextTypes, Zenon DEF ServerInv
  <1>5. TasksOK' /\ HeldRealmsExist' /\ Books(writeLocked, readLocked, locked)'
    BY <1>1, Zenon DEF ServerInv, TasksOK, HeldRealmsExist, RealmExists
  <1> QED
    BY <1>3, <1>4, <1>5, Zenon DEF ServerInv

LEMMA MergeNothing ==
    ASSUME NEW q \in LockRequests
    PROVE  Merge(NoLock, q) = q
  <1>1. NoLock.read = {} /\ NoLock.write = {}
    BY LockFields, Zenon DEF NoLock
  <1>2. NoLock.read \cup q.read = q.read /\ NoLock.write \cup q.write = q.write
    BY <1>1, Zenon
  <1>3. Merge(NoLock, q) = Lock(q.read, q.write)
    BY <1>2, Zenon DEF Merge
  <1> QED
    BY <1>3, LockFields, Zenon

LEMMA EnterStep ==
    ASSUME ServerInv, NEW t \in Tasks, Enter(t)
    PROVE  ServerInv' /\ AtomicStep /\ sequestered' = sequestered
  <1> SUFFICES ASSUME NEW q, q = req[t]
               PROVE  ServerInv' /\ AtomicStep /\ sequestered' = sequestered
    BY Zenon
  <1>1. pc[t] = "outer" /\ q.op # "bootstrap" /\ sequestered' = sequestered
    BY ZenonT(30) DEF Enter, settings
  <1>2. q \in Requests[sequestered][t] /\ q \in AnyRequest /\ locked[t] = NoLock
    <2>1. Phase(t) /\ sequestered \in BOOLEAN
      BY Zenon DEF ServerInv, TasksOK
    <2>2. q \in Requests[sequestered][t] /\ locked[t] = NoLock
      BY <1>1, <2>1, Zenon DEF Phase
    <2> QED
      BY <2>1, <2>2, SomeRequest, ZenonT(30)
  <1>3. /\ OuterLock(q) \in LockRequests /\ NestedLock(q) \in LockRequests /\ NoLock \in LockRequests
        /\ AllLocks(q) \in LockRequests /\ NoLock.read = {} /\ NoLock.write = {}
        /\ AllLocks(q).read = OuterLock(q).read \cup NestedLock(q).read
        /\ AllLocks(q).write = OuterLock(q).write \cup NestedLock(q).write
    <2>1. OuterLock(q) \in LockRequests /\ NestedLock(q) \in LockRequests
      BY <1>2, HandlerLocks, Zenon
    <2>2. /\ AllLocks(q) \in LockRequests
          /\ AllLocks(q).read = OuterLock(q).read \cup NestedLock(q).read
          /\ AllLocks(q).write = OuterLock(q).write \cup NestedLock(q).write
      BY <2>1, MergeFields, ZenonT(30) DEF AllLocks
    <2>3. NoLock \in LockRequests /\ NoLock.read = {} /\ NoLock.write = {}
      BY LockFields, Zenon DEF NoLock
    <2> QED
      BY <2>1, <2>2, <2>3, ZenonT(30)
  <1>4. TasksOK /\ pc \in [Tasks -> Labels] /\ locked \in [Tasks -> LockRequests]
    BY ZenonT(30) DEF ServerInv, TasksOK, Books
  <1>5. CASE WaitForRelease(t) /\ UNCHANGED <<vars, taskVars>>
    BY <1>1, <1>5, WaitStep, Zenon DEF AtomicStep
  <1>6. CASE Refuse(t)
    BY <1>1, <1>6, RefuseStep, Zenon DEF Refuse, AtomicStep
  <1>7. CASE /\ ~Conflict(OuterLock(q)) /\ OuterCheck(q) /\ Conflict(NestedLock(q)) /\ Goto(t, "nested")
             /\ wanted' = [wanted EXCEPT ![t] = NestedLock(q)]
             /\ seen' = [seen EXCEPT ![t] = [common |-> commonTs, realm |-> 0]]
             /\ MarkTaken(OuterLock(q))
             /\ locked' = [locked EXCEPT ![t] = OuterLock(q)] /\ UNCHANGED <<vars, req>>
    <2>1. Merge(locked[t], OuterLock(q)) = OuterLock(q)
      BY <1>2, <1>3, MergeNothing, ZenonT(30)
    <2>2. locked' = [locked EXCEPT ![t] = Merge(@, OuterLock(q))]
      BY <1>4, <1>7, <2>1, Zenon
    <2>3. Books(writeLocked', readLocked', locked')
      BY <1>2, <1>3, <1>7, <2>2, TakeBooks, ZenonT(30) DEF ServerInv
    <2>4. TasksOK'
      BY <1>1, <1>4, <1>7, ZenonT(30) DEF TasksOK, Goto, Labels
    <2>5. \A x \in Tasks : x # t => SameTask(x)
      BY <1>4, <1>7, ZenonT(30) DEF SameTask, Goto, TasksOK
    <2>6. /\ pc'[t] = "nested" /\ req'[t] = q /\ locked'[t] = OuterLock(q) /\ wanted'[t] = NestedLock(q)
          /\ seen'[t] = [common |-> commonTs, realm |-> 0]
      BY <1>4, <1>7, ZenonT(30) DEF TasksOK, Goto
    <2>7. q.op # "create_realm"
      <3>1. SUFFICES ASSUME q.op = "create_realm" PROVE FALSE
        BY Zenon
      <3>2. q.realm \in Realms /\ ~RealmExists(q.realm) /\ NestedLock(q) = Lock({}, {q.realm})
        BY <1>2, <1>7, <3>1, RequestKinds, NestedLockCases, ZenonT(30) DEF OuterCheck, CreateRealmCheck, RealmOps
      <3>3. q.realm \in Topics
        BY <3>2, TopicsAssumption, Zenon
      <3>4. q.realm \in writeLocked \/ readLocked[q.realm] # 0
        <4>1. Lock({}, {q.realm}).read = {} /\ Lock({}, {q.realm}).write = {q.realm}
          BY LockFields, Zenon
        <4>2. NestedLock(q).read = {} /\ NestedLock(q).write = {q.realm}
          BY <3>2, <4>1, Zenon
        <4>3. Conflict(NestedLock(q))
          BY <1>7, Zenon
        <4> QED
          BY <4>2, <4>3, Zenon DEF Conflict
      <3>5. \E x \in Tasks : q.realm \in locked[x].read \cup locked[x].write
        <4>1. /\ q.realm \in writeLocked <=> \E x \in Tasks : q.realm \in locked[x].write
              /\ readLocked[q.realm] = Cardinality(Readers(locked, q.realm))
              /\ FiniteSetFacts
          BY <3>3, ZenonT(30) DEF ServerInv, Books
        <4>2. Readers(locked, q.realm) = {} => readLocked[q.realm] = 0
          BY <4>1, CountNothing, Zenon
        <4> QED
          BY <3>4, <4>1, <4>2, Zenon DEF Readers
      <3> QED
        BY <3>2, <3>5, ZenonT(30) DEF ServerInv, HeldRealmsExist
    <2>8. q.op \in NestingOps
      <3>1. ~Conflict(NoLock)
        BY <1>3, ZenonT(30) DEF Conflict
      <3> QED
        BY <1>2, <1>7, <2>7, <3>1, NestedLockCases, ZenonT(30)
    <2>9. UNCHANGED <<commonVars, realmVars, vlobVars>>
      BY <1>7, Zenon DEF vars, commonVars, realmVars, vlobVars
    <2>10. OuterCheck(q)'
      BY <1>2, <1>7, <2>8, <2>9, OuterCheckStays, ZenonT(30) DEF realmVars, vlobVars, RealmExists
    <2>11. NestedLock(q)' = NestedLock(q)
      BY <2>9, Zenon DEF NestedLock, RealmsOf, realmVars
    <2>12. Phase(t)'
      <3>1. SUFFICES ASSUME NEW sn, sn = seen'[t] PROVE NestedPhase(q, sn)'
        BY <1>1, <1>2, <2>6, <2>11, ZenonT(30) DEF Phase
      <3>2. seen'[t].common = commonTs
        BY <2>6
      <3>3. sn.common = commonTs'
        BY <2>9, <3>1, <3>2, Zenon DEF commonVars
      <3> QED
        BY <2>8, <2>10, <3>3, Zenon DEF NestedPhase
    <2>13. \A r \in Realms : r \in locked'[t].read \cup locked'[t].write => RealmExists(r)
      BY <1>1, <1>2, <1>3, <1>7, <2>6, <2>7, LockedRealmsExist, ZenonT(30)
    <2>14. Books(writeLocked, readLocked, locked)'
      BY <2>3, Zenon
    <2>15. ServerInv'
      BY <1>1, <1>7, <2>4, <2>5, <2>12, <2>13, <2>14, SuspendStep, ZenonT(30)
    <2> QED
      BY <1>1, <1>7, <2>15, ZenonT(30) DEF AtomicStep
  <1>8. CASE /\ ~Conflict(OuterLock(q)) /\ OuterCheck(q) /\ ~Conflict(NestedLock(q))
             /\ Proceed(t, AllLocks(q), NestedLock(q).read, [common |-> commonTs, realm |-> RealmTsOf(q)])
    <2>1. ~Conflict(AllLocks(q))
      BY <1>3, <1>8, ZenonT(30) DEF Conflict
    <2>2. Merge(locked[t], AllLocks(q)) = AllLocks(q)
      BY <1>2, <1>3, MergeNothing, ZenonT(30)
    <2>3. AllLocks(q).read \cap locked[t].read = {}
      BY <1>2, <1>3, Zenon
    <2> DEFINE s == [common |-> commonTs, realm |-> RealmTsOf(q)]
    <2>4. s.common = commonTs /\ s.realm = RealmTsOf(q) /\ Proceed(t, AllLocks(q), NestedLock(q).read, s)
      BY <1>8, Zenon
    <2> HIDE DEF s
    <2>5. ServerInv' /\ AtomicStep
      BY <1>1, <1>2, <1>3, <1>8, <2>1, <2>2, <2>3, <2>4, ProceedStep, ZenonT(30)
    <2> QED
      BY <1>1, <2>5, Zenon
  <1> QED
    BY <1>5, <1>6, <1>7, <1>8, ZenonT(30) DEF Enter, AllLocks

LEMMA NestStep ==
    ASSUME ServerInv, NEW t \in Tasks, Nest(t)
    PROVE  ServerInv' /\ AtomicStep /\ sequestered' = sequestered
  <1> SUFFICES ASSUME NEW q, q = req[t]
               PROVE  ServerInv' /\ AtomicStep /\ sequestered' = sequestered
    BY Zenon
  <1>1. pc[t] = "nested" /\ sequestered' = sequestered
    BY ZenonT(30) DEF Nest, settings
  <1>2. /\ q \in Requests[sequestered][t] /\ q \in AnyRequest
        /\ locked[t] = OuterLock(q) /\ wanted[t] = NestedLock(q)
        /\ q.op \in NestingOps /\ OuterCheck(q) /\ seen[t].common = commonTs
    <2>1. Phase(t) /\ sequestered \in BOOLEAN
      BY Zenon DEF ServerInv, TasksOK
    <2>2. q \in Requests[sequestered][t] /\ locked[t] = OuterLock(q) /\ wanted[t] = NestedLock(q)
      BY <1>1, <2>1, Zenon DEF Phase
    <2>3. NestedPhase(q, seen[t])
      BY <1>1, <2>1, Zenon DEF Phase
    <2>4. q \in AnyRequest
      BY <2>1, <2>2, SomeRequest, Zenon
    <2> QED
      BY <2>2, <2>3, <2>4, Zenon DEF NestedPhase
  <1>3. CASE WaitForRelease(t) /\ UNCHANGED <<vars, taskVars>>
    BY <1>1, <1>3, WaitStep, Zenon DEF AtomicStep
  <1>4. CASE /\ ~Conflict(wanted[t])
             /\ Proceed(t, wanted[t], wanted[t].read, [common |-> seen[t].common, realm |-> RealmTsOf(req[t])])
    <2>1. q.op # "bootstrap"
      BY <1>2, Zenon DEF NestingOps
    <2>2. NestedLock(q) \in LockRequests /\ NestedLock(q).read \cap locked[t].read = {}
      BY <1>2, HandlerLocks, ZenonT(30)
    <2>3. Merge(locked[t], NestedLock(q)) = AllLocks(q) /\ ~Conflict(NestedLock(q))
      BY <1>2, <1>4, ZenonT(30) DEF AllLocks
    <2> DEFINE s == [common |-> seen[t].common, realm |-> RealmTsOf(q)]
    <2>4. /\ s.common = commonTs /\ s.realm = RealmTsOf(q)
          /\ Proceed(t, NestedLock(q), NestedLock(q).read, s)
      BY <1>2, <1>4, ZenonT(30)
    <2> HIDE DEF s
    <2>5. ServerInv' /\ AtomicStep
      BY <1>1, <1>2, <2>1, <2>2, <2>3, <2>4, ProceedStep, ZenonT(30)
    <2> QED
      BY <1>1, <2>5, Zenon
  <1> QED
    BY <1>3, <1>4, ZenonT(30) DEF Nest

LEMMA WebhookStep ==
    ASSUME ServerInv, NEW t \in Tasks, Webhook(t)
    PROVE  ServerInv' /\ (OneCreator => AtomicStep) /\ sequestered' = sequestered
  <1> SUFFICES ASSUME NEW q, q = req[t], NEW s, s = seen[t]
               PROVE  ServerInv' /\ (OneCreator => AtomicStep) /\ sequestered' = sequestered
    BY Zenon
  <1>1. pc[t] = "webhook" /\ sequestered' = sequestered
    BY ZenonT(30) DEF Webhook, settings
  <1>2. /\ q \in Requests[sequestered][t] /\ q \in AnyRequest
        /\ locked[t] = AllLocks(q) /\ q.op \in WebhookOps /\ OuterCheck(q)
        /\ Unrivalled(q) => NestedCheck(q, s, {})
        /\ s.common = commonTs /\ s.realm = realmTs[q.realm]
    <2>1. Phase(t) /\ sequestered \in BOOLEAN
      BY ZenonT(30) DEF ServerInv, TasksOK
    <2>2. q \in Requests[sequestered][t] /\ locked[t] = AllLocks(q) /\ WebhookPhase(q, s)
      BY <1>1, <2>1, ZenonT(30) DEF Phase
    <2>3. q \in AnyRequest
      BY <2>1, <2>2, SomeRequest, Zenon
    <2> QED
      BY <2>2, <2>3, ZenonT(30) DEF WebhookPhase
  <1>3. CASE Refuse(t)
    BY <1>1, <1>3, RefuseStep, Zenon DEF Refuse, AtomicStep
  <1>4. CASE /\ LastCheck(q, s) /\ Insert(q) /\ Goto(t, "sending")
             /\ UNCHANGED <<lockVars, req, locked, wanted, seen>>
    <2>1. TasksOK /\ pc \in [Tasks -> Labels]
      BY Zenon DEF ServerInv, TasksOK
    <2>2. /\ TasksOK' /\ pc'[t] = "sending" /\ req'[t] = q /\ locked'[t] = AllLocks(q)
          /\ \A x \in Tasks : x # t => SameTask(x)
      BY <1>1, <1>2, <1>4, <2>1, ZenonT(30) DEF TasksOK, Goto, SameTask, Labels
    <2>3. Books(writeLocked, readLocked, locked)'
      BY <1>4, Zenon DEF ServerInv, lockVars
    <2>4. Exclusive(locked')
      BY <1>4, ZenonT(30) DEF ServerInv, Books
    <2>5. (Unrivalled(q) => NestedCheck(q, s, NestedLock(q).read)) /\ q.op # "bootstrap"
      BY <1>2, Zenon DEF NestedCheck, WebhookOps
    <2>6. s.realm = RealmTsOf(q)
      BY <1>2, RequestKinds, ZenonT(30) DEF RealmTsOf, WebhookOps, RealmOps, VlobOps
    <2>7. ServerInv' /\ (NestedCheck(q, s, NestedLock(q).read) => Next)
      BY <1>1, <1>2, <1>4, <2>2, <2>3, <2>4, <2>5, <2>6, InsertStep, ZenonT(30)
    <2> QED
      BY <1>1, <2>5, <2>7, Zenon DEF AtomicStep, Unrivalled
  <1> QED
    BY <1>3, <1>4, ZenonT(30) DEF Webhook

LEMMA StartStep ==
    ASSUME ServerInv, NEW t \in Tasks, Start(t)
    PROVE  ServerInv' /\ UNCHANGED vars /\ sequestered' = sequestered
  <1>1. PICK q \in Requests[sequestered][t] :
            /\ req' = [req EXCEPT ![t] = q]
            /\ Goto(t, IF expired /\ q.op # "bootstrap" THEN "done" ELSE "outer")
    BY ZenonT(30) DEF Start
  <1>2. /\ pc[t] = "idle" /\ UNCHANGED <<vars, lockVars, settings, locked, wanted, seen>>
        /\ sequestered' = sequestered
    BY ZenonT(30) DEF Start, settings
  <1>3. TasksOK /\ pc \in [Tasks -> Labels] /\ locked[t] = NoLock
    BY <1>2, ZenonT(30) DEF ServerInv, TasksOK, Phase
  <1>4. pc'[t] \in {"outer", "done"} /\ req'[t] = q /\ locked'[t] = NoLock
    BY <1>1, <1>2, <1>3, Zenon DEF Goto, TasksOK
  <1>5. \A x \in Tasks : x # t => SameTask(x)
    BY <1>1, <1>2, <1>3, Zenon DEF SameTask, Goto, TasksOK
  <1>6. TasksOK'
    BY <1>1, <1>2, <1>3, Zenon DEF TasksOK, Goto, Labels
  <1>7. Phase(t)'
    BY <1>2, <1>4, Zenon DEF Phase
  <1>8. Books(writeLocked, readLocked, locked)'
    BY <1>2, Zenon DEF ServerInv, lockVars
  <1>9. \A r \in Realms : r \in locked'[t].read \cup locked'[t].write => RealmExists(r)
    BY <1>4, LockFields DEF NoLock
  <1>10. ServerInv'
    BY <1>2, <1>5, <1>6, <1>7, <1>8, <1>9, SuspendStep, ZenonT(30)
  <1> QED
    BY <1>2, <1>10, Zenon

LEMMA ServerStep ==
    ASSUME ServerInv, [ServerNext]_serverVars
    PROVE  ServerInv' /\ (OneCreator => AtomicStep)
  <1>1. ASSUME NEW t \in Tasks, Start(t) PROVE ServerInv' /\ (OneCreator => AtomicStep)
    BY <1>1, StartStep, Zenon DEF AtomicStep
  <1>2. ASSUME NEW t \in Tasks, EnterBootstrap(t) PROVE ServerInv' /\ (OneCreator => AtomicStep)
    <2>1. pc[t] = "outer" /\ req[t].op = "bootstrap" /\ sequestered' = sequestered
      BY <1>2, Zenon DEF EnterBootstrap, settings
    <2>2. CASE WaitForRelease(t) /\ UNCHANGED <<vars, taskVars>>
      BY <2>1, <2>2, WaitStep, Zenon DEF AtomicStep
    <2>3. CASE Refuse(t)
      BY <2>1, <2>3, RefuseStep, Zenon DEF Refuse, AtomicStep
    <2>4. CASE Bootstrap(req[t].user, req[t].device, req[t].ts) /\ Leave(t)
      BY <2>1, <2>4, BootstrapStep, Zenon DEF AtomicStep
    <2> QED
      BY <1>2, <2>2, <2>3, <2>4, ZenonT(30) DEF EnterBootstrap
  <1>3. ASSUME NEW t \in Tasks, Enter(t) PROVE ServerInv' /\ (OneCreator => AtomicStep)
    BY <1>3, EnterStep, Zenon
  <1>4. ASSUME NEW t \in Tasks, Nest(t) PROVE ServerInv' /\ (OneCreator => AtomicStep)
    BY <1>4, NestStep, Zenon
  <1>5. ASSUME NEW t \in Tasks, Webhook(t) PROVE ServerInv' /\ (OneCreator => AtomicStep)
    BY <1>5, WebhookStep, Zenon
  <1>6. ASSUME NEW t \in Tasks, Finish(t) PROVE ServerInv' /\ (OneCreator => AtomicStep)
    <2>1. pc[t] # "idle" /\ sequestered' = sequestered /\ Refuse(t)
      BY <1>6, Zenon DEF Finish, Refuse, settings
    <2> QED
      BY <2>1, RefuseStep, Zenon DEF Refuse, AtomicStep
  <1>7. ASSUME UNCHANGED <<vars, lockVars, sequestered, taskVars>> PROVE ServerInv' /\ (OneCreator => AtomicStep)
    <2>1. UNCHANGED <<writeLocked, readLocked, pc, req, locked, wanted, seen, roles>>
      BY <1>7, Zenon DEF lockVars, taskVars, vars
    <2>2. \A x \in Tasks : Phase(x)'
      BY <1>7, <2>1, QuietStep, Zenon DEF SameTask
    <2>3. TypeOK'
      BY <1>7, NextTypes, Zenon DEF ServerInv
    <2>4. TasksOK' /\ HeldRealmsExist' /\ Books(writeLocked, readLocked, locked)'
      BY <1>7, <2>1, Zenon DEF ServerInv, TasksOK, HeldRealmsExist, RealmExists
    <2> QED
      BY <1>7, <2>2, <2>3, <2>4, Zenon DEF ServerInv, AtomicStep
  <1>8. CASE UpdateExpired
    BY <1>7, <1>8, Zenon DEF UpdateExpired
  <1>9. CASE Terminated \/ UNCHANGED serverVars
    BY <1>7, <1>9, Zenon DEF Terminated, serverVars, settings
  <1> QED
    BY <1>1, <1>2, <1>3, <1>4, <1>5, <1>6, <1>8, <1>9, ZenonT(30) DEF ServerNext

LEMMA ServerInvInit ==
    ASSUME FiniteSetFacts
    PROVE  ServerInit => ServerInv
  <1> SUFFICES ASSUME ServerInit PROVE ServerInv
    BY Zenon
  <1>1. TypeOK
    BY InitTypes, Zenon DEF ServerInit
  <1>2. /\ NoLock \in LockRequests /\ NoLock.read = {} /\ NoLock.write = {}
    BY LockFields, Zenon DEF NoLock
  <1>3. /\ sequestered \in BOOLEAN /\ pc = [t \in Tasks |-> "idle"] /\ req = [t \in Tasks |-> NoRequest]
        /\ locked = [t \in Tasks |-> NoLock] /\ wanted = [t \in Tasks |-> NoLock]
        /\ seen = [t \in Tasks |-> [common |-> 0, realm |-> 0]]
        /\ writeLocked = {} /\ readLocked = [p \in Topics |-> 0]
    BY Zenon DEF ServerInit, TaskInit, LockInit
  <1>4. TasksOK /\ HeldRealmsExist
    BY <1>2, <1>3, Zenon DEF TasksOK, HeldRealmsExist, Labels
  <1>5. \A t \in Tasks : Phase(t)
    BY <1>3, ZenonT(30) DEF Phase
  <1>6. \A p \in Topics : Readers(locked, p) = {}
    BY <1>2, <1>3, Zenon DEF Readers
  <1>7. Books(writeLocked, readLocked, locked)
    BY <1>2, <1>3, <1>6, CountNothing, ZenonT(30) DEF Books, Exclusive
  <1> QED
    BY <1>1, <1>4, <1>5, <1>7, Zenon DEF ServerInv

=============================================================================
