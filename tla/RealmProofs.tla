---------------------------- MODULE RealmProofs -----------------------------
(***************************************************************************)
(* What the clients check of the vlobs and of the certificates of a realm  *)
(* holds of everything the server stores, for any set of users, devices,   *)
(* realms and vlobs: the causality of the timestamps the clients choose.   *)
(***************************************************************************)
EXTENDS OrganizationProofs

(***************************************************************************)
(* Vlobs.                                                                  *)
(***************************************************************************)

\* Certificates of a sequence of roles are strictly ordered by timestamp.
Ordered(rs) == \A i, j \in DOMAIN rs : i < j => rs[i].ts < rs[j].ts

\* Nothing is newer than what RequireGreaterTimestamp compares with: device
\* certificates and the common topic, role certificates and the realm topic,
\* vlobs and realm.last_vlob_timestamp; vlobs only are in realms that exist.
DevicesDated == \A c \in devices : c.ts <= commonTs

RolesDated ==
    \A r \in Realms :
        /\ Ordered(roles[r])
        /\ \A i \in DOMAIN roles[r] : roles[r][i].ts <= realmTs[r]

VlobsDated ==
    \A r \in Realms, v \in Vlobs : \A i \in DOMAIN vlobs[r][v] :
        /\ vlobs[r][v][i].ts <= lastVlob[r]
        /\ RealmExists(r)

\* VlobsAcceptable needs the three: a vlob is stored with the current role of
\* its author, which is the role at its timestamp because every role is older,
\* and a later role certificate is newer than every vlob.
VlobInv == TypeOK /\ DevicesDated /\ RolesDated /\ VlobsDated /\ VlobsAcceptable

\* What TypeOK says of the variables the timestamps are compared with.
LEMMA TypeFacts ==
    ASSUME TypeOK
    PROVE  /\ commonTs \in Nat
           /\ roles \in [Realms -> Seq(RoleCerts)]
           /\ realmTs \in [Realms -> Nat]
           /\ lastVlob \in [Realms -> Nat]
           /\ vlobs \in [Realms -> [Vlobs -> Seq(Atoms)]]
  BY Zenon DEF TypeOK

LEMMA RoleTimestamps ==
    ASSUME NEW rs \in Seq(RoleCerts), NEW i \in DOMAIN rs
    PROVE  rs[i] \in RoleCerts /\ rs[i].ts \in Nat
  <1>1. rs[i] \in RoleCerts
    OBVIOUS
  <1> QED
    BY <1>1, TimestampsAssumption, Zenon DEF RoleCerts

LEMMA RoleAtIs ==
    ASSUME NEW rs \in Seq(RoleCerts), Ordered(rs), NEW u, NEW t, NEW i,
           IsNewestFor(rs, u, t, i)
    PROVE  RoleAt(rs, u, t) = rs[i].role
  <1>1. i \in DOMAIN rs
    BY Zenon DEF IsNewestFor
  <1>2. \A j \in DOMAIN rs : rs[j].ts \in Nat
    BY RoleTimestamps, Zenon
  <1>3. \A j \in DOMAIN rs : IsNewestFor(rs, u, t, j) => j = i
    BY <1>1, <1>2 DEF IsNewestFor, Ordered
  <1>4. (CHOOSE j \in DOMAIN rs : IsNewestFor(rs, u, t, j)) = i
    BY <1>1, <1>3, Zenon
  <1> QED
    BY <1>1, <1>4, Zenon DEF RoleAt

\* The role a user has now is the one it has at any later time.
LEMMA CurrentRoleIsNewest ==
    ASSUME NEW rs \in Seq(RoleCerts), Ordered(rs), NEW u, NEW t \in Nat,
           \A i \in DOMAIN rs : rs[i].ts <= t,
           CurrentRole(rs, u) # "NONE"
    PROVE  RoleAt(rs, u, t) = CurrentRole(rs, u)
  <1>1. PICK i \in DOMAIN rs : IsLastFor(rs, u, i)
    BY Zenon DEF CurrentRole
  <1>2. \A j \in DOMAIN rs : rs[j].ts \in Nat
    BY RoleTimestamps, Zenon
  <1>3. \A j \in DOMAIN rs : rs[j].user = u => rs[j].ts <= rs[i].ts
    BY <1>1, <1>2 DEF IsLastFor, Ordered
  <1>4. IsNewestFor(rs, u, t, i)
    BY <1>1, <1>3, Zenon DEF IsNewestFor, IsLastFor
  <1> QED
    BY <1>1, <1>4, RoleAtIs, CurrentRoleIs

\* A certificate does not change the roles before its timestamp.
LEMMA PastRolesUnchanged ==
    ASSUME NEW rs \in Seq(RoleCerts), NEW c \in RoleCerts, Ordered(rs),
           Ordered(Append(rs, c)), NEW u, NEW t \in Nat, t < c.ts
    PROVE  RoleAt(Append(rs, c), u, t) = RoleAt(rs, u, t)
  <1> DEFINE qs == Append(rs, c)
  <1>1. /\ qs \in Seq(RoleCerts)
        /\ Len(qs) = Len(rs) + 1
        /\ qs[Len(rs) + 1] = c
        /\ \A i \in 1 .. Len(rs) : qs[i] = rs[i]
    OBVIOUS
  <1>2. c.ts \in Nat
    BY TimestampsAssumption, Zenon DEF RoleCerts
  <1>3. \A i : IsNewestFor(qs, u, t, i) <=> IsNewestFor(rs, u, t, i)
    BY <1>1, <1>2, SMTT(30) DEF IsNewestFor
  <1>4. CASE \E i \in DOMAIN rs : IsNewestFor(rs, u, t, i)
    <2> PICK i \in DOMAIN rs : IsNewestFor(rs, u, t, i)
      BY <1>4, Zenon
    <2>1. RoleAt(rs, u, t) = rs[i].role
      BY RoleAtIs, Zenon
    <2>2. Ordered(qs) /\ IsNewestFor(qs, u, t, i)
      BY <1>3, Zenon
    <2>3. RoleAt(qs, u, t) = qs[i].role
      <3> HIDE DEF qs
      <3> QED
        BY <1>1, <2>2, RoleAtIs
    <2> QED
      BY <1>1, <2>1, <2>3
  <1>5. CASE ~ \E i \in DOMAIN rs : IsNewestFor(rs, u, t, i)
    <2>1. ~ \E i \in DOMAIN qs : IsNewestFor(qs, u, t, i)
      BY <1>3, <1>5, Zenon DEF IsNewestFor
    <2> QED
      BY <1>5, <2>1, Zenon DEF RoleAt
  <1> QED
    BY <1>4, <1>5, Zenon

\* Devices are only added: what a client knows of them stays known.
LEMMA AcceptableIsStable ==
    ASSUME TypeOK, VlobsAcceptable, devices \subseteq devices', UNCHANGED <<roles, vlobs>>
    PROVE  VlobsAcceptable'
  BY DEF VlobsAcceptable, AtomAcceptable, KnownDevice, ContentsOf

\* The same for a step that changes roles or vlobs, with their new values.
LEMMA AcceptableAgain ==
    ASSUME devices' = devices,
           \A q \in Realms, w \in Vlobs : \A i \in DOMAIN vlobs'[q][w] :
              AtomAcceptable(roles'[q], vlobs'[q][w][i])
    PROVE  VlobsAcceptable'
  BY DEF VlobsAcceptable, ContentsOf, AtomAcceptable, KnownDevice

LEMMA DevicesRemainDated ==
    ASSUME VlobInv, CommonNext
    PROVE  DevicesDated' /\ devices \subseteq devices' /\ UNCHANGED <<realmVars, vlobVars>>
  <1> USE DEF VlobInv
  <1>1. commonTs \in Nat /\ \A c \in devices : c.ts \in Nat
    BY TimestampsAssumption, Zenon DEF TypeOK, DeviceCerts
  <1>2. ASSUME NEW u \in Users, NEW d \in Devices, NEW t \in Timestamps, Bootstrap(u, d, t)
        PROVE  DevicesDated' /\ devices \subseteq devices' /\ UNCHANGED <<realmVars, vlobVars>>
    BY <1>2, TimestampsAssumption DEF Bootstrap, InsertUser, AddDevice, DevicesDated
  <1>3. ASSUME NEW a \in devices, NEW u \in Users, NEW d \in Devices, NEW p \in Profiles,
               NEW t \in Timestamps, CreateUser(a, u, d, p, t)
        PROVE  DevicesDated' /\ devices \subseteq devices' /\ UNCHANGED <<realmVars, vlobVars>>
    BY <1>1, <1>3, TimestampsAssumption DEF CreateUser, InsertUser, AddDevice, DevicesDated
  <1>4. ASSUME NEW a \in devices, NEW d \in Devices, NEW t \in Timestamps,
               CreateDevice(a, d, t)
        PROVE  DevicesDated' /\ devices \subseteq devices' /\ UNCHANGED <<realmVars, vlobVars>>
    BY <1>1, <1>4, TimestampsAssumption DEF CreateDevice, InsertDevice, AddDevice, DevicesDated
  <1>5. ASSUME NEW a \in devices, NEW u \in Users, NEW t \in Timestamps, RevokeUser(a, u, t)
        PROVE  DevicesDated' /\ devices \subseteq devices' /\ UNCHANGED <<realmVars, vlobVars>>
    BY <1>1, <1>5, TimestampsAssumption DEF RevokeUser, InsertRevocation, DevicesDated
  <1>6. ASSUME NEW a \in devices, NEW u \in Users, NEW p \in Profiles,
               NEW t \in Timestamps, UpdateUser(a, u, p, t)
        PROVE  DevicesDated' /\ devices \subseteq devices' /\ UNCHANGED <<realmVars, vlobVars>>
    BY <1>1, <1>6, TimestampsAssumption DEF UpdateUser, InsertProfile, DevicesDated
  <1> QED
    BY <1>2, <1>3, <1>4, <1>5, <1>6, Zenon DEF CommonNext

LEMMA CommonKeepsVlobs ==
    ASSUME VlobInv, CommonNext
    PROVE  VlobInv'
  <1> USE DEF VlobInv
  <1>1. TypeOK'
    BY CommonNextTypes, Zenon
  <1>2. DevicesDated' /\ devices \subseteq devices' /\ UNCHANGED <<realmVars, vlobVars>>
    BY DevicesRemainDated, Zenon
  <1>3. RolesDated'
    BY <1>2, Zenon DEF RolesDated, Ordered, realmVars
  <1>4. VlobsDated'
    BY <1>2, Zenon DEF VlobsDated, RealmExists, realmVars, vlobVars
  <1>5. VlobsAcceptable'
    BY <1>2, AcceptableIsStable, Zenon DEF realmVars, vlobVars
  <1> QED
    BY <1>1, <1>2, <1>3, <1>4, <1>5, Zenon

\* Appending a certificate that is newer than all others.
LEMMA OrderedAppend ==
    ASSUME NEW rs \in Seq(RoleCerts), NEW c \in RoleCerts, Ordered(rs), NEW m \in Nat,
           \A i \in DOMAIN rs : rs[i].ts <= m, c.ts > m
    PROVE  /\ Ordered(Append(rs, c))
           /\ \A i \in DOMAIN Append(rs, c) : Append(rs, c)[i].ts <= c.ts
  <1> DEFINE qs == Append(rs, c)
             n == Len(rs)
  <1>1. /\ DOMAIN qs = 1 .. n + 1
        /\ qs[n + 1] = c
        /\ \A i \in 1 .. n : qs[i] = rs[i]
        /\ n \in Nat
        /\ DOMAIN rs = 1 .. n
    OBVIOUS
  <1>2. \A i \in 1 .. n : rs[i].ts \in Nat
    BY <1>1, RoleTimestamps, Zenon
  <1>3. c.ts \in Nat
    BY TimestampsAssumption, Zenon DEF RoleCerts
  <1> HIDE DEF qs, n
  <1>4. \A i \in 1 .. n : qs[i].ts \in Nat /\ qs[i].ts < c.ts
    BY <1>1, <1>2, <1>3, SMTT(30)
  <1>5. \A i, j \in 1 .. n : i < j => qs[i].ts < qs[j].ts
    BY <1>1, Zenon DEF Ordered
  <1>6. Ordered(qs)
    BY <1>1, <1>4, <1>5 DEF Ordered
  <1>7. \A i \in DOMAIN qs : qs[i].ts <= c.ts
    BY <1>1, <1>3, <1>4
  <1> QED
    BY <1>6, <1>7, Zenon DEF qs

\* A role certificate newer than its topic, for a realm that is new or whose
\* vlobs are all older.
LEMMA AddRoleKeepsVlobs ==
    ASSUME VlobInv, TypeOK', NEW r \in Realms, NEW u \in Users, NEW role \in Roles,
           NEW t \in Timestamps, NEW author \in Devices,
           AddRole(r, u, role, t, author), UNCHANGED <<commonVars, vlobVars>>,
           t > realmTs[r], RealmExists(r) => t > lastVlob[r]
    PROVE  VlobInv'
  <1> DEFINE c == [user |-> u, role |-> role, ts |-> t, author |-> author]
             rs == roles[r]
             qs == Append(rs, c)
  <1>1. TypeOK /\ RolesDated
    BY Zenon DEF VlobInv
  <1>2. DevicesDated /\ VlobsDated
    BY Zenon DEF VlobInv
  <1>3. VlobsAcceptable
    BY Zenon DEF VlobInv
  <1>4. /\ roles \in [Realms -> Seq(RoleCerts)]
        /\ realmTs \in [Realms -> Nat]
        /\ lastVlob \in [Realms -> Nat]
        /\ vlobs \in [Realms -> [Vlobs -> Seq(Atoms)]]
    BY <1>1, TypeFacts, Zenon
  <1>5. c \in RoleCerts /\ rs \in Seq(RoleCerts) /\ t \in Nat
    BY <1>4, TimestampsAssumption, Zenon DEF RoleCerts
  <1>6. roles' = [roles EXCEPT ![r] = qs] /\ realmTs' = [realmTs EXCEPT ![r] = t]
    BY Zenon DEF AddRole
  <1>7. /\ Len(qs) = Len(rs) + 1
        /\ qs[Len(rs) + 1] = c
        /\ \A i \in 1 .. Len(rs) : qs[i] = rs[i]
        /\ qs \in Seq(RoleCerts)
        /\ qs # <<>>
    BY <1>5
  <1>8. c.ts = t
    BY Zenon
  <1>9. roles'[r] = qs /\ realmTs'[r] = t
    BY <1>4, <1>6, Zenon
  <1>10. \A q \in Realms : q # r => roles'[q] = roles[q] /\ realmTs'[q] = realmTs[q]
    BY <1>4, <1>6, Zenon
  <1>11. Ordered(rs) /\ \A i \in DOMAIN rs : rs[i].ts <= realmTs[r]
    BY <1>1, Zenon DEF RolesDated
  <1>12. Ordered(qs) /\ \A i \in DOMAIN qs : qs[i].ts <= t
    <2> HIDE DEF c
    <2>1. realmTs[r] \in Nat
      BY <1>4, Zenon
    <2> QED
      BY <1>5, <1>8, <1>11, <2>1, OrderedAppend, Zenon
  <1>13. ASSUME NEW w, NEW s \in Nat, s < t
         PROVE  RoleAt(qs, w, s) = RoleAt(rs, w, s)
    <2> HIDE DEF c
    <2> QED
      BY <1>5, <1>8, <1>11, <1>12, <1>13, PastRolesUnchanged, Zenon
  <1> HIDE DEF c, qs
  <1>14. RolesDated'
    BY <1>1, <1>9, <1>10, <1>12, Zenon DEF RolesDated
  <1>15. DevicesDated'
    BY <1>2, Zenon DEF DevicesDated, commonVars
  <1>16. VlobsDated'
    <2>1. \A q \in Realms : RealmExists(q) => RealmExists(q)'
      BY <1>7, <1>9, <1>10, Zenon DEF RealmExists
    <2> QED
      BY <1>2, <2>1, Zenon DEF VlobsDated, vlobVars
  <1>17. ASSUME NEW q \in Realms, NEW v \in Vlobs, NEW i \in DOMAIN vlobs[q][v]
         PROVE  AtomAcceptable(roles'[q], vlobs[q][v][i])
    <2> DEFINE x == vlobs[q][v][i]
    <2>1. AtomAcceptable(roles[q], x)
      BY <1>3, Zenon DEF VlobsAcceptable, ContentsOf
    <2>2. x.ts \in Nat
      <3>1. x \in Atoms
        BY <1>4
      <3> QED
        BY <3>1, TimestampsAssumption, Zenon DEF Atoms
    <2>3. x.ts <= lastVlob[q] /\ RealmExists(q)
      BY <1>2, Zenon DEF VlobsDated
    <2> HIDE DEF x
    <2>4. ASSUME q # r
          PROVE  AtomAcceptable(roles'[q], x)
      BY <1>10, <2>1, <2>4, Zenon
    <2>5. ASSUME q = r
          PROVE  AtomAcceptable(roles'[q], x)
      <3>1. lastVlob[r] \in Nat
        BY <1>4, Zenon
      <3>2. x.ts < t
        BY <1>5, <2>2, <2>3, <2>5, <3>1
      <3>3. \A w : RoleAt(qs, w, x.ts) = RoleAt(rs, w, x.ts)
        BY <1>13, <2>2, <3>2, Zenon
      <3> QED
        BY <1>9, <2>1, <2>5, <3>3, Zenon DEF AtomAcceptable
    <2> QED
      BY <2>4, <2>5, Zenon DEF x
  <1>18. VlobsAcceptable'
    <2>1. devices' = devices /\ vlobs' = vlobs
      BY Zenon DEF commonVars, vlobVars
    <2> QED
      BY <1>17, <2>1, AcceptableAgain, Zenon
  <1> QED
    BY <1>14, <1>15, <1>16, <1>18, Zenon DEF VlobInv

\* A rename or a key rotation: the realm topic advances, roles stay.
LEMMA TopicAdvanceKeepsVlobs ==
    ASSUME VlobInv, TypeOK', NEW r \in Realms, NEW t \in Timestamps, t > realmTs[r],
           realmTs' = [realmTs EXCEPT ![r] = t],
           UNCHANGED <<roles, commonVars, vlobVars>>
    PROVE  VlobInv'
  <1>1. TypeOK
    BY Zenon DEF VlobInv
  <1>2. DevicesDated /\ RolesDated /\ VlobsDated /\ VlobsAcceptable
    BY Zenon DEF VlobInv
  <1>3. t \in Nat /\ realmTs \in [Realms -> Nat]
    BY <1>1, TypeFacts, TimestampsAssumption, Zenon
  <1>4. \A q \in Realms : realmTs'[q] \in Nat /\ realmTs[q] \in Nat /\ realmTs[q] <= realmTs'[q]
    BY <1>3
  <1>5. RolesDated'
    <2>1. \A q \in Realms : roles[q] \in Seq(RoleCerts)
      BY <1>1, TypeFacts, Zenon
    <2>2. \A q \in Realms : \A i \in DOMAIN roles[q] : roles[q][i].ts \in Nat
      BY <2>1, RoleTimestamps, Zenon
    <2> QED
      BY <1>2, <1>4, <2>2 DEF RolesDated, Ordered
  <1>6. DevicesDated' /\ VlobsDated'
    BY <1>2, Zenon DEF DevicesDated, VlobsDated, RealmExists, commonVars, vlobVars
  <1>7. VlobsAcceptable'
    <2>1. UNCHANGED <<roles, devices, vlobs>>
      BY Zenon DEF commonVars, vlobVars
    <2> QED
      BY <1>1, <1>2, <2>1, AcceptableIsStable, Zenon
  <1> QED
    BY <1>5, <1>6, <1>7, Zenon DEF VlobInv

LEMMA RealmKeepsVlobs ==
    ASSUME VlobInv, RealmNext
    PROVE  VlobInv'
  <1>1. TypeOK /\ TypeOK'
    BY RealmNextTypes, Zenon DEF VlobInv
  <1>2. UNCHANGED <<commonVars, vlobVars>>
    BY RealmFrame, Zenon
  <1>3. ASSUME NEW t \in Timestamps, NEW a \in devices, NEW r \in Realms, CreateRealm(a, r, t)
        PROVE  VlobInv'
    <2>1. a.id \in Devices /\ a.user \in Users /\ "OWNER" \in Roles
      BY <1>1, AuthorType, Zenon DEF Roles, RealmRoles
    <2>2. AddRole(r, a.user, "OWNER", t, a.id) /\ t > realmTs[r] /\ ~RealmExists(r)
      BY <1>3, Zenon DEF CreateRealm, InsertRole, NewerThanTopics, CreateRealmCheck
    <2> QED
      BY <1>1, <1>2, <2>1, <2>2, AddRoleKeepsVlobs, Zenon
  <1>4. ASSUME NEW t \in Timestamps, NEW a \in devices, NEW r \in Realms, NEW u \in Users,
               NEW role \in RealmRoles, NEW k \in KeyIndexes, Share(a, r, u, role, k, t)
        PROVE  VlobInv'
    <2>1. a.id \in Devices /\ role \in Roles
      BY <1>1, AuthorType, Zenon DEF Roles
    <2>2. AddRole(r, u, role, t, a.id) /\ t > realmTs[r] /\ t > lastVlob[r]
      BY <1>4, Zenon DEF Share, InsertShare, NewerThanTopics
    <2> QED
      BY <1>1, <1>2, <2>1, <2>2, AddRoleKeepsVlobs, Zenon
  <1>5. ASSUME NEW t \in Timestamps, NEW a \in devices, NEW r \in Realms, NEW u \in Users,
               Unshare(a, r, u, t)
        PROVE  VlobInv'
    <2>1. a.id \in Devices /\ "NONE" \in Roles
      BY <1>1, AuthorType, Zenon DEF Roles
    <2>2. AddRole(r, u, "NONE", t, a.id) /\ t > realmTs[r] /\ t > lastVlob[r]
      BY <1>5, Zenon DEF Unshare, InsertRole, NewerThanTopics
    <2> QED
      BY <1>1, <1>2, <2>1, <2>2, AddRoleKeepsVlobs, Zenon
  <1>6. ASSUME NEW t \in Timestamps, NEW a \in devices, NEW r \in Realms,
               NEW k \in KeyIndexes, NEW first \in BOOLEAN, Rename(a, r, k, first, t)
        PROVE  VlobInv'
    <2>1. /\ t > realmTs[r]
          /\ realmTs' = [realmTs EXCEPT ![r] = t]
          /\ UNCHANGED roles
      BY <1>6, Zenon DEF Rename, InsertName, NewerThanTopics
    <2> QED
      BY <1>1, <1>2, <2>1, TopicAdvanceKeepsVlobs, Zenon
  <1>7. ASSUME NEW t \in Timestamps, NEW a \in devices, NEW r \in Realms,
               NEW k \in KeyIndexes, NEW recipients \in SUBSET Users,
               RotateKey(a, r, k, recipients, t)
        PROVE  VlobInv'
    <2>1. /\ t > realmTs[r]
          /\ realmTs' = [realmTs EXCEPT ![r] = t]
          /\ UNCHANGED roles
      BY <1>7, Zenon DEF RotateKey, InsertRotation, NewerThanTopics
    <2> QED
      BY <1>1, <1>2, <2>1, TopicAdvanceKeepsVlobs, Zenon
  <1> QED
    BY <1>3, <1>4, <1>5, <1>6, <1>7, ZenonT(30) DEF RealmNext

\* An atom written by a device with a writer's role, newer than both topics, is
\* acceptable at its own timestamp.
LEMMA NewAtomAcceptable ==
    ASSUME VlobInv, NEW a \in devices, NEW r \in Realms, NEW k, NEW t \in Timestamps,
           NewerThanTopics(r, t), WriteCheck(a, r, k)
    PROVE  AtomAcceptable(roles[r], Atom(k, t, a.id))
  <1>1. TypeOK
    BY Zenon DEF VlobInv
  <1>2. DevicesDated /\ RolesDated
    BY Zenon DEF VlobInv
  <1>3. t \in Nat /\ commonTs \in Nat /\ realmTs[r] \in Nat /\ roles[r] \in Seq(RoleCerts)
    BY <1>1, TypeFacts, TimestampsAssumption, Zenon
  <1>4. a.user \in Users /\ a.ts \in Nat
    BY <1>1, AuthorType, TimestampsAssumption, Zenon
  <1>5. KnownDevice(a.id, a.user, t)
    BY <1>2, <1>3, <1>4 DEF KnownDevice, DevicesDated, NewerThanTopics
  <1>6. \A i \in DOMAIN roles[r] : roles[r][i].ts <= t
    BY <1>2, <1>3, RoleTimestamps DEF RolesDated, NewerThanTopics
  <1>7. RoleAt(roles[r], a.user, t) = CurrentRole(roles[r], a.user)
    BY <1>2, <1>3, <1>6, CurrentRoleIsNewest, Zenon DEF RolesDated, WriteCheck, Writers
  <1>8. RoleAt(roles[r], a.user, t) \in Writers
    BY <1>7, Zenon DEF WriteCheck
  <1>9. Atom(k, t, a.id).author = a.id /\ Atom(k, t, a.id).ts = t
    BY Zenon DEF Atom
  <1> QED
    BY <1>4, <1>5, <1>8, <1>9, Zenon DEF AtomAcceptable

\* Storing a list of versions that are acceptable and not newer than the new
\* last_vlob_timestamp.
LEMMA InsertVlobKeepsVlobs ==
    ASSUME VlobInv, TypeOK', NEW r \in Realms, NEW v \in Vlobs, NEW versions \in Seq(Atoms),
           NEW t \in Timestamps, InsertVlob(r, v, versions, t), RealmExists(r),
           \A i \in DOMAIN versions :
              /\ AtomAcceptable(roles[r], versions[i])
              /\ versions[i].ts <= lastVlob[r] \/ versions[i].ts = t
    PROVE  VlobInv'
  <1>1. TypeOK
    BY Zenon DEF VlobInv
  <1>2. DevicesDated /\ RolesDated
    BY Zenon DEF VlobInv
  <1>3. VlobsDated /\ VlobsAcceptable
    BY Zenon DEF VlobInv
  <1>4. t \in Nat /\ lastVlob \in [Realms -> Nat] /\ vlobs \in [Realms -> [Vlobs -> Seq(Atoms)]]
    BY <1>1, TypeFacts, TimestampsAssumption, Zenon
  <1>5. lastVlob' = [lastVlob EXCEPT ![r] = IF t > lastVlob[r] THEN t ELSE lastVlob[r]]
    BY Zenon DEF InsertVlob
  <1>6. /\ \A q \in Realms : /\ lastVlob[q] \in Nat
                            /\ lastVlob'[q] \in Nat
                            /\ lastVlob[q] <= lastVlob'[q]
        /\ t <= lastVlob'[r]
    BY <1>4, <1>5
  <1>7. vlobs' = [vlobs EXCEPT ![r][v] = versions]
    BY Zenon DEF InsertVlob
  <1>8. /\ vlobs'[r][v] = versions
        /\ \A q \in Realms, w \in Vlobs : q # r \/ w # v => vlobs'[q][w] = vlobs[q][w]
    BY <1>4, <1>7, Zenon
  <1>9. UNCHANGED <<commonTs, devices, realmTs, roles>>
    BY Zenon DEF InsertVlob, commonVars, realmVars
  <1>10. \A q \in Realms, w \in Vlobs : \A i \in DOMAIN vlobs[q][w] : vlobs[q][w][i].ts \in Nat
    <2>1. \A q \in Realms, w \in Vlobs : \A i \in DOMAIN vlobs[q][w] : vlobs[q][w][i] \in Atoms
      BY <1>4
    <2> QED
      BY <2>1, TimestampsAssumption, Zenon DEF Atoms
  <1>11. \A i \in DOMAIN versions : versions[i].ts \in Nat
    <2>1. \A i \in DOMAIN versions : versions[i] \in Atoms
      OBVIOUS
    <2> QED
      BY <2>1, TimestampsAssumption, Zenon DEF Atoms
  <1>12. VlobsDated'
    <2> SUFFICES ASSUME NEW q \in Realms, NEW w \in Vlobs, NEW i \in DOMAIN vlobs'[q][w]
                 PROVE  vlobs'[q][w][i].ts <= lastVlob'[q] /\ RealmExists(q)'
      BY Zenon DEF VlobsDated
    <2>1. CASE q = r /\ w = v
      <3>1. /\ i \in DOMAIN versions
            /\ vlobs'[q][w][i].ts = versions[i].ts
            /\ versions[i].ts \in Nat
        BY <1>8, <1>11, <2>1, SMTT(30)
      <3>2. versions[i].ts <= lastVlob[r] \/ versions[i].ts = t
        BY <3>1, Zenon
      <3>3. versions[i].ts <= lastVlob'[r]
        BY <1>4, <1>6, <3>1, <3>2, SMTT(30)
      <3> QED
        BY <1>9, <2>1, <3>1, <3>3, Zenon DEF RealmExists
    <2>2. CASE q # r \/ w # v
      <3>1. vlobs[q][w][i].ts <= lastVlob[q] /\ RealmExists(q)
        BY <1>3, <1>8, <2>2, SMTT(30) DEF VlobsDated
      <3>2. lastVlob[q] <= lastVlob'[q] /\ lastVlob[q] \in Nat /\ lastVlob'[q] \in Nat
        BY <1>6, SMTT(30)
      <3> QED
        BY <1>8, <1>9, <1>10, <2>2, <3>1, <3>2, SMTT(30) DEF RealmExists
    <2> QED
      BY <2>1, <2>2, Zenon
  <1>13. DevicesDated' /\ RolesDated'
    BY <1>2, <1>9, SMTT(30) DEF DevicesDated, RolesDated, Ordered
  <1>14. VlobsAcceptable'
    <2>1. \A q \in Realms, w \in Vlobs : \A i \in DOMAIN vlobs'[q][w] :
            AtomAcceptable(roles[q], vlobs'[q][w][i])
      BY <1>3, <1>8, SMTT(30) DEF VlobsAcceptable, ContentsOf
    <2> QED
      BY <1>9, <2>1, AcceptableAgain, Zenon
  <1> QED
    BY <1>12, <1>13, <1>14, Zenon DEF VlobInv

LEMMA VlobNextKeepsVlobs ==
    ASSUME VlobInv, VlobNext
    PROVE  VlobInv'
  <1>1. TypeOK /\ TypeOK'
    BY VlobNextTypes, Zenon DEF VlobInv
  <1>2. ASSUME NEW t \in Timestamps, NEW a \in devices, NEW r \in Realms, NEW v \in Vlobs,
               NEW k \in KeyIndexes, CreateVlob(a, r, v, k, t)
        PROVE  VlobInv'
    <2> DEFINE x == Atom(k, t, a.id)
    <2>1. <<x>> \in Seq(Atoms) /\ x.ts = t
      BY <1>1, VersionsType, Zenon DEF Atom
    <2>2. AtomAcceptable(roles[r], x)
      BY <1>2, NewAtomAcceptable, Zenon DEF CreateVlob
    <2>3. RealmExists(r) /\ InsertVlob(r, v, <<x>>, t)
      BY <1>2, Zenon DEF CreateVlob, AuthorCheck
    <2>4. \A i \in DOMAIN <<x>> : <<x>>[i] = x
      OBVIOUS
    <2> HIDE DEF x
    <2> QED
      BY <1>1, <2>1, <2>2, <2>3, <2>4, InsertVlobKeepsVlobs, Zenon
  <1>3. ASSUME NEW t \in Timestamps, NEW a \in devices, NEW r \in Realms, NEW v \in Vlobs,
               NEW k \in KeyIndexes, NEW version, UpdateVlob(a, r, v, k, version, t)
        PROVE  VlobInv'
    <2> DEFINE x == Atom(k, t, a.id)
               old == vlobs[r][v]
               versions == Append(old, x)
    <2>1. versions \in Seq(Atoms) /\ x \in Atoms /\ old \in Seq(Atoms) /\ x.ts = t
      BY <1>1, VersionsType, TypeFacts, Zenon DEF Atom
    <2>2. AtomAcceptable(roles[r], x)
      BY <1>3, NewAtomAcceptable, Zenon DEF UpdateVlob
    <2>3. RealmExists(r) /\ InsertVlob(r, v, versions, t)
      BY <1>3, Zenon DEF UpdateVlob, AuthorCheck
    <2>4. \A i \in DOMAIN old : old[i].ts <= lastVlob[r] /\ AtomAcceptable(roles[r], old[i])
      BY Zenon DEF VlobInv, VlobsDated, VlobsAcceptable, ContentsOf
    <2>5. \A i \in DOMAIN versions : versions[i] = x \/ (i \in DOMAIN old /\ versions[i] = old[i])
      <3> HIDE DEF x, old
      <3> QED
        BY <2>1
    <2> HIDE DEF x, old, versions
    <2>6. \A i \in DOMAIN versions :
            /\ AtomAcceptable(roles[r], versions[i])
            /\ versions[i].ts <= lastVlob[r] \/ versions[i].ts = t
      BY <2>1, <2>2, <2>4, <2>5, Zenon
    <2> QED
      BY <1>1, <2>1, <2>3, <2>6, InsertVlobKeepsVlobs, Zenon
  <1> QED
    BY <1>2, <1>3, Zenon DEF VlobNext

LEMMA VlobInvIsInductive == VlobInv /\ [Next]_vars => VlobInv'
  <1>1. ASSUME VlobInv, UNCHANGED vars PROVE VlobInv'
    <2>1. TypeOK'
      BY <1>1, NextTypes, Zenon DEF VlobInv
    <2>2. DevicesDated' /\ RolesDated' /\ VlobsDated'
      BY <1>1, Zenon DEF VlobInv, vars, DevicesDated, RolesDated, Ordered, VlobsDated, RealmExists
    <2>3. VlobsAcceptable'
      BY <1>1, AcceptableIsStable, Zenon DEF VlobInv, vars
    <2> QED
      BY <2>1, <2>2, <2>3, Zenon DEF VlobInv
  <1> QED
    BY <1>1, CommonKeepsVlobs, RealmKeepsVlobs, VlobNextKeepsVlobs, Zenon DEF Next

LEMMA InitVlobInv == Init => VlobInv
  <1> SUFFICES ASSUME Init PROVE VlobInv
    BY Zenon
  <1>1. DevicesDated
    BY Zenon DEF Init, DevicesDated
  <1>2. \A r \in Realms : DOMAIN roles[r] = {}
    BY DEF Init
  <1>3. \A r \in Realms, v \in Vlobs : DOMAIN vlobs[r][v] = {}
    BY DEF Init
  <1> QED
    BY <1>1, <1>2, <1>3, InitTypes, Zenon
       DEF VlobInv, RolesDated, Ordered, VlobsDated, VlobsAcceptable, ContentsOf

\* Whatever timestamps the clients choose, the checks of vlob create and update,
\* share and unshare make every stored version one that the device and role
\* tests of validate_manifest accept, for ever.
THEOREM StoredVlobsAcceptable == Spec => []VlobsAcceptable
  <1>1. VlobInv => VlobsAcceptable
    BY Zenon DEF VlobInv
  <1> QED
    BY <1>1, InitVlobInv, VlobInvIsInductive, PTL DEF Spec

(***************************************************************************)
(* Roles and timestamps.                                                   *)
(***************************************************************************)

\* The role a user has now, if any, is the one it has at any time after the
\* last certificate.
LEMMA RoleAtEnd ==
    ASSUME NEW rs \in Seq(RoleCerts), Ordered(rs), NEW u, NEW t \in Nat,
           \A i \in DOMAIN rs : rs[i].ts <= t
    PROVE  RoleAt(rs, u, t) = CurrentRole(rs, u)
  <1>1. CASE CurrentRole(rs, u) # "NONE"
    BY <1>1, CurrentRoleIsNewest, Zenon
  <1>2. CASE \E i \in DOMAIN rs : IsNewestFor(rs, u, t, i)
    <2>1. PICK i \in DOMAIN rs : IsNewestFor(rs, u, t, i)
      BY <1>2, Zenon
    <2>2. \A j \in DOMAIN rs : rs[j].ts \in Nat
      BY RoleTimestamps, Zenon
    <2>3. IsLastFor(rs, u, i)
      BY <2>1, <2>2 DEF IsLastFor, IsNewestFor, Ordered
    <2> QED
      BY <2>1, <2>3, RoleAtIs, CurrentRoleIs
  <1>3. CASE CurrentRole(rs, u) = "NONE" /\ ~ \E i \in DOMAIN rs : IsNewestFor(rs, u, t, i)
    BY <1>3, Zenon DEF RoleAt
  <1> QED
    BY <1>1, <1>2, <1>3, Zenon

\* What a certificate newer than all others changes: its user's role from its
\* timestamp on, and nothing before it.
LEMMA RoleAppended ==
    ASSUME NEW rs \in Seq(RoleCerts), Ordered(rs), NEW c \in RoleCerts, NEW m \in Nat,
           \A i \in DOMAIN rs : rs[i].ts <= m, c.ts > m
    PROVE  /\ RoleAt(Append(rs, c), c.user, c.ts) = c.role
           /\ \A u, t : t \in Nat /\ t < c.ts => RoleAt(Append(rs, c), u, t) = RoleAt(rs, u, t)
           /\ \A u : RoleAt(Append(rs, c), u, c.ts - 1) = CurrentRole(rs, u)
  <1> DEFINE qs == Append(rs, c)
  <1>1. c.ts \in Nat
    BY TimestampsAssumption, Zenon DEF RoleCerts
  <1>2. qs \in Seq(RoleCerts) /\ Ordered(qs) /\ \A i \in DOMAIN qs : qs[i].ts <= c.ts
    BY OrderedAppend, AppendType, Zenon
  <1>3. CurrentRole(qs, c.user) = c.role
    BY AppendedRole, Zenon
  <1> HIDE DEF qs
  <1>4. RoleAt(qs, c.user, c.ts) = c.role
    BY <1>1, <1>2, <1>3, RoleAtEnd, Zenon
  <1>5. \A u, t : t \in Nat /\ t < c.ts => RoleAt(qs, u, t) = RoleAt(rs, u, t)
    BY <1>2, PastRolesUnchanged, Zenon DEF qs
  <1>6. \A u : RoleAt(rs, u, c.ts - 1) = CurrentRole(rs, u)
    <2>1. c.ts - 1 \in Nat /\ m <= c.ts - 1
      BY <1>1
    <2>2. \A i \in DOMAIN rs : rs[i].ts <= c.ts - 1
      BY <2>1, RoleTimestamps
    <2> QED
      BY <2>1, <2>2, RoleAtEnd, Zenon
  <1> QED
    BY <1>1, <1>4, <1>5, <1>6 DEF qs

(***************************************************************************)
(* The common topic.                                                       *)
(***************************************************************************)

\* A user was enrolled at or before the last timestamp of the common topic.
UsersDated == \A u \in Users : Exists(u) => profiles[u][1].ts <= commonTs

LEMMA FirstOfAppend ==
    ASSUME NEW S, NEW s \in Seq(S), NEW e \in S
    PROVE  /\ Append(s, e) # <<>>
           /\ s # <<>> => Append(s, e)[1] = s[1]
           /\ s = <<>> => Append(s, e)[1] = e
  <1>1. s = <<>> <=> Len(s) = 0
    OBVIOUS
  <1> QED
    BY <1>1

\* The first certificate of a user is the one it is enrolled with, for ever.
LEMMA FirstProfileStays ==
    ASSUME TypeOK, NEW u \in Users, NEW p \in Profiles, NEW t \in Timestamps,
           NEW author \in Authors, AddProfile(u, p, t, author)
    PROVE  /\ \A v \in Users : Exists(v) => Exists(v)' /\ profiles'[v][1] = profiles[v][1]
           /\ \A v \in Users : ~Exists(v) /\ Exists(v)' => v = u /\ profiles'[v][1].ts = t
  <1> DEFINE c == [profile |-> p, ts |-> t, author |-> author]
  <1>1. profiles[u] \in Seq(ProfileCerts) /\ c \in ProfileCerts
    BY Zenon DEF TypeOK, ProfileCerts
  <1>2. profiles' = [profiles EXCEPT ![u] = Append(profiles[u], c)]
    BY Zenon DEF AddProfile
  <1>3. profiles'[u] = Append(profiles[u], c) /\ \A v \in Users : v # u => profiles'[v] = profiles[v]
    BY <1>2, Zenon DEF TypeOK
  <1>4. c.ts = t
    BY Zenon
  <1>5. /\ Append(profiles[u], c) # <<>>
        /\ profiles[u] # <<>> => Append(profiles[u], c)[1] = profiles[u][1]
        /\ profiles[u] = <<>> => Append(profiles[u], c)[1] = c
    BY <1>1, FirstOfAppend, ZenonT(30)
  <1> HIDE DEF c
  <1> QED
    BY <1>3, <1>4, <1>5, Zenon DEF Exists

LEMMA UsersRemainDated ==
    ASSUME AdminInv, UsersDated, CommonNext
    PROVE  /\ UsersDated'
           /\ \A u \in Users : Exists(u) => Exists(u)' /\ profiles'[u][1] = profiles[u][1]
  <1>1. TypeOK /\ commonTs \in Nat
    BY Zenon DEF AdminInv, TypeOK
  <1>2. \A u \in Users : Exists(u) => profiles[u][1].ts \in Nat
    <2>1. \A u \in Users : Exists(u) => profiles[u][1] \in ProfileCerts
      BY <1>1 DEF TypeOK, Exists
    <2> QED
      BY <2>1, TimestampsAssumption, Zenon DEF ProfileCerts
  <1>3. ASSUME NEW u \in Users, NEW p \in Profiles, NEW t \in Timestamps, NEW author \in Authors,
               AddProfile(u, p, t, author), commonTs' = t, devices = {} \/ t > commonTs
        PROVE  /\ UsersDated'
               /\ \A v \in Users : Exists(v) => Exists(v)' /\ profiles'[v][1] = profiles[v][1]
    <2>1. /\ \A v \in Users : Exists(v) => Exists(v)' /\ profiles'[v][1] = profiles[v][1]
          /\ \A v \in Users : ~Exists(v) /\ Exists(v)' => v = u /\ profiles'[v][1].ts = t
      BY <1>1, <1>3, FirstProfileStays, Zenon
    <2>2. \A v \in Users : Exists(v) => t > commonTs
      BY <1>3, Zenon DEF AdminInv, EmptyBeforeBootstrap, Exists
    <2>3. t \in Nat
      BY TimestampsAssumption, Zenon
    <2>4. ASSUME NEW v \in Users, Exists(v)'
          PROVE  profiles'[v][1].ts <= commonTs'
      <3>1. CASE Exists(v)
        BY <1>1, <1>2, <1>3, <2>1, <2>2, <2>3, <3>1 DEF UsersDated
      <3>2. CASE ~Exists(v)
        BY <1>3, <2>1, <2>3, <2>4, <3>2
      <3> QED
        BY <3>1, <3>2, Zenon
    <2> QED
      BY <2>1, <2>4, Zenon DEF UsersDated
  <1>4. ASSUME NEW t \in Timestamps, UNCHANGED profiles, commonTs' = t, t > commonTs
        PROVE  /\ UsersDated'
               /\ \A v \in Users : Exists(v) => Exists(v)' /\ profiles'[v][1] = profiles[v][1]
    BY <1>1, <1>2, <1>4, TimestampsAssumption DEF UsersDated, Exists
  <1>5. ASSUME NEW u \in Users, NEW d \in Devices, NEW t \in Timestamps, Bootstrap(u, d, t)
        PROVE  /\ UsersDated'
               /\ \A v \in Users : Exists(v) => Exists(v)' /\ profiles'[v][1] = profiles[v][1]
    BY <1>3, <1>5, Zenon DEF Bootstrap, InsertUser, Profiles, Authors
  <1>6. ASSUME NEW a \in devices, NEW u \in Users, NEW d \in Devices, NEW p \in Profiles,
               NEW t \in Timestamps, CreateUser(a, u, d, p, t)
        PROVE  /\ UsersDated'
               /\ \A v \in Users : Exists(v) => Exists(v)' /\ profiles'[v][1] = profiles[v][1]
    BY <1>1, <1>3, <1>6, AuthorType, Zenon DEF CreateUser, InsertUser
  <1>7. ASSUME NEW a \in devices, NEW d \in Devices, NEW t \in Timestamps,
               CreateDevice(a, d, t)
        PROVE  /\ UsersDated'
               /\ \A v \in Users : Exists(v) => Exists(v)' /\ profiles'[v][1] = profiles[v][1]
    BY <1>4, <1>7, ZenonT(30) DEF CreateDevice, InsertDevice
  <1>8. ASSUME NEW a \in devices, NEW u \in Users, NEW t \in Timestamps, RevokeUser(a, u, t)
        PROVE  /\ UsersDated'
               /\ \A v \in Users : Exists(v) => Exists(v)' /\ profiles'[v][1] = profiles[v][1]
    BY <1>4, <1>8, ZenonT(30) DEF RevokeUser, InsertRevocation
  <1>9. ASSUME NEW a \in devices, NEW u \in Users, NEW p \in Profiles,
               NEW t \in Timestamps, UpdateUser(a, u, p, t)
        PROVE  /\ UsersDated'
               /\ \A v \in Users : Exists(v) => Exists(v)' /\ profiles'[v][1] = profiles[v][1]
    BY <1>1, <1>3, <1>9, AuthorType, ZenonT(30) DEF UpdateUser, InsertProfile
  <1> QED
    BY <1>5, <1>6, <1>7, <1>8, <1>9, ZenonT(30) DEF CommonNext
(***************************************************************************)
(* Certificates of realms.                                                 *)
(***************************************************************************)

\* Nothing in a realm topic is newer than its last timestamp.
StampsDated == \A r \in Realms : \A x \in RealmStamps(r) : x[4] <= realmTs[r]

\* RealmCertsAcceptable needs the timestamps of the users, devices, roles and
\* stamps: a certificate is checked against the current state and judged by what
\* is older than it, which is the same because everything stored is older.
RealmInv == AdminInv /\ VlobInv /\ UsersDated /\ StampsDated /\ RealmCertsAcceptable

LEMMA StampTypes ==
    ASSUME TypeOK, NEW r \in Realms
    PROVE  /\ \A i \in DOMAIN roles[r] : roles[r][i].ts \in Nat
           /\ \A i \in DOMAIN renames[r] : renames[r][i].ts \in Nat
           /\ \A i \in DOMAIN rotations[r] : rotations[r][i].ts \in Nat
           /\ \A x \in RealmStamps(r) : x[4] \in Nat
  <1>1. \A i \in DOMAIN roles[r] : roles[r][i].ts \in Nat
    BY TypeFacts, RoleTimestamps, Zenon
  <1>2. \A i \in DOMAIN renames[r] : renames[r][i] \in NameCerts
    BY DEF TypeOK
  <1>3. \A i \in DOMAIN rotations[r] : rotations[r][i] \in RotationCerts
    BY DEF TypeOK
  <1>4. \A i \in DOMAIN renames[r] : renames[r][i].ts \in Nat
    BY <1>2, TimestampsAssumption, Zenon DEF NameCerts
  <1>5. \A i \in DOMAIN rotations[r] : rotations[r][i].ts \in Nat
    BY <1>3, TimestampsAssumption, Zenon DEF RotationCerts
  <1>6. \A x \in RealmStamps(r) : x[4] \in Nat
    BY <1>1, <1>4, <1>5 DEF RealmStamps
  <1> QED
    BY <1>1, <1>4, <1>5, <1>6, Zenon

\* The dates of a realm after a step that adds a stamp to its topic.
LEMMA StampsAfter ==
    ASSUME TypeOK, StampsDated, \A q \in Realms : Distinct(RealmStamps(q)),
           NEW r \in Realms, NEW t \in Timestamps, t > realmTs[r],
           realmTs' = [realmTs EXCEPT ![r] = t], NEW y, y[4] = t,
           RealmStamps(r)' \subseteq RealmStamps(r) \cup {y},
           \A q \in Realms : q # r => RealmStamps(q)' = RealmStamps(q)
    PROVE  StampsDated' /\ \A q \in Realms : Distinct(RealmStamps(q)')
  <1>1. t \in Nat /\ realmTs \in [Realms -> Nat]
    BY TypeFacts, TimestampsAssumption, Zenon
  <1>2. realmTs'[r] = t /\ \A q \in Realms : q # r => realmTs'[q] = realmTs[q]
    BY <1>1, Zenon
  <1>3. Distinct(RealmStamps(r)') /\ \A x \in RealmStamps(r)' : x[4] <= t
    <2>1. \A x \in RealmStamps(r) : x[4] \in Nat /\ x[4] <= realmTs[r]
      BY StampTypes, Zenon DEF StampsDated
    <2> QED
      BY <1>1, <2>1, NewStamp, ZenonT(30)
  <1> QED
    BY <1>2, <1>3, Zenon DEF StampsDated

\* The rotations, but for the accesses to their keys.
SameRotations ==
    \A q \in Realms :
        /\ DOMAIN rotations'[q] = DOMAIN rotations[q]
        /\ \A i \in DOMAIN rotations[q] :
            /\ rotations'[q][i].ts = rotations[q][i].ts
            /\ rotations'[q][i].author = rotations[q][i].author

LEMMA RoleStamps ==
    ASSUME TypeOK, NEW r \in Realms, NEW u \in Users, NEW role \in Roles,
           NEW t \in Timestamps, NEW author \in Devices,
           AddRole(r, u, role, t, author), UNCHANGED renames, SameRotations
    PROVE  /\ RealmStamps(r)' \subseteq RealmStamps(r) \cup {<<"role", r, Len(roles[r]) + 1, t>>}
           /\ \A q \in Realms : q # r => RealmStamps(q)' = RealmStamps(q)
  <1> DEFINE c == [user |-> u, role |-> role, ts |-> t, author |-> author]
             qs == Append(roles[r], c)
             n == Len(roles[r])
  <1>1. c \in RoleCerts /\ roles[r] \in Seq(RoleCerts) /\ c.ts = t
    BY Zenon DEF RoleCerts, TypeOK
  <1>2. roles'[r] = qs /\ \A q \in Realms : q # r => roles'[q] = roles[q]
    BY Zenon DEF AddRole, TypeOK
  <1>3. /\ DOMAIN qs = 1 .. n + 1
        /\ qs[n + 1] = c
        /\ \A i \in 1 .. n : qs[i] = roles[r][i]
        /\ n \in Nat
        /\ DOMAIN roles[r] = 1 .. n
    BY <1>1
  <1> HIDE DEF c, qs, n
  <1>4. ASSUME NEW x \in {<<"role", r, i, qs[i].ts>> : i \in DOMAIN qs}
        PROVE  x \in {<<"role", r, i, roles[r][i].ts>> : i \in DOMAIN roles[r]}
               \/ x = <<"role", r, n + 1, t>>
    <2> PICK i \in DOMAIN qs : x = <<"role", r, i, qs[i].ts>>
      BY Zenon
    <2>1. i \in DOMAIN roles[r] \/ i = n + 1
      BY <1>3
    <2> QED
      BY <1>1, <1>3, <2>1, Zenon
  <1>5. {<<"name", r, i, renames'[r][i].ts>> : i \in DOMAIN renames'[r]}
            = {<<"name", r, i, renames[r][i].ts>> : i \in DOMAIN renames[r]}
    BY Zenon
  <1>6. \A q \in Realms :
            {<<"key", q, i, rotations'[q][i].ts>> : i \in DOMAIN rotations'[q]}
              = {<<"key", q, i, rotations[q][i].ts>> : i \in DOMAIN rotations[q]}
    BY Zenon DEF SameRotations
  <1>7. RealmStamps(r)' \subseteq RealmStamps(r) \cup {<<"role", r, n + 1, t>>}
    BY <1>2, <1>4, <1>5, <1>6, ZenonT(40) DEF RealmStamps
  <1>8. \A q \in Realms : q # r => RealmStamps(q)' = RealmStamps(q)
    BY <1>2, <1>6, ZenonT(30) DEF RealmStamps
  <1> QED
    BY <1>7, <1>8, Zenon DEF n

\* The same certificates as seen after a step that does not touch the common topic.
LEMMA RealmCertsAgain ==
    ASSUME UNCHANGED commonVars,
           \A q \in Realms :
              /\ Distinct(RealmStamps(q)')
              /\ \A i \in DOMAIN roles'[q] : RoleCertAcceptable(roles'[q], roles'[q][i])
              /\ \A i \in DOMAIN renames'[q] : OwnerCertAcceptable(roles'[q], renames'[q][i])
              /\ \A i \in DOMAIN rotations'[q] : OwnerCertAcceptable(roles'[q], rotations'[q][i])
    PROVE  RealmCertsAcceptable'
  <1>1. devices' = devices /\ profiles' = profiles
    BY Zenon DEF commonVars
  <1>2. \A q \in Realms : \A c \in ContentsOf(roles[q])' : RoleCertAcceptable(roles[q], c)'
    BY <1>1, SMTT(20) DEF ContentsOf, RoleCertAcceptable, KnownUser, KnownDevice, Exists
  <1>3. \A q \in Realms : \A c \in (ContentsOf(renames[q]) \cup ContentsOf(rotations[q]))' :
            OwnerCertAcceptable(roles[q], c)'
    BY <1>1, SMTT(20) DEF ContentsOf, OwnerCertAcceptable, KnownDevice
  <1> QED
    BY <1>2, <1>3, Zenon DEF RealmCertsAcceptable

\* What is known of the author of a request that is newer than both topics.
LEMMA AuthorIsKnown ==
    ASSUME RealmInv, NEW a \in devices, NEW r \in Realms, NEW t \in Timestamps,
           NewerThanTopics(r, t)
    PROVE  /\ a.user \in Users /\ a.id \in Devices
           /\ KnownDevice(a.id, a.user, t)
           /\ \A u \in Users : Exists(u) => KnownUser(u, t)
           /\ t \in Nat /\ realmTs[r] \in Nat /\ t > realmTs[r]
  <1>1. TypeOK /\ DevicesDated /\ UsersDated
    BY Zenon DEF RealmInv, VlobInv
  <1>2. t \in Nat /\ commonTs \in Nat /\ realmTs[r] \in Nat
    BY <1>1, TypeFacts, TimestampsAssumption, Zenon
  <1>3. a.user \in Users /\ a.id \in Devices /\ a.ts \in Nat
    BY <1>1, AuthorType, TimestampsAssumption, Zenon
  <1>4. KnownDevice(a.id, a.user, t)
    BY <1>1, <1>2, <1>3 DEF KnownDevice, DevicesDated, NewerThanTopics
  <1>5. ASSUME NEW u \in Users, Exists(u) PROVE KnownUser(u, t)
    <2>1. profiles[u][1] \in ProfileCerts
      BY <1>1, <1>5 DEF TypeOK, Exists
    <2>2. profiles[u][1].ts \in Nat
      BY <2>1, TimestampsAssumption, Zenon DEF ProfileCerts
    <2> QED
      BY <1>1, <1>2, <1>5, <2>2 DEF UsersDated, KnownUser, NewerThanTopics
  <1> QED
    BY <1>2, <1>3, <1>4, <1>5, Zenon DEF NewerThanTopics

\* What the invariant says of the timestamps of one realm.
LEMMA RealmDates ==
    ASSUME RealmInv, NEW r \in Realms
    PROVE  /\ roles[r] \in Seq(RoleCerts) /\ Ordered(roles[r])
           /\ \A i \in DOMAIN roles[r] : roles[r][i].ts \in Nat \ {0} /\ roles[r][i].ts <= realmTs[r]
           /\ \A i \in DOMAIN renames[r] :
                renames[r][i].ts \in Nat \ {0} /\ renames[r][i].ts <= realmTs[r]
           /\ \A i \in DOMAIN rotations[r] :
                rotations[r][i].ts \in Nat \ {0} /\ rotations[r][i].ts <= realmTs[r]
  <1>1. TypeOK /\ RolesDated /\ StampsDated
    BY Zenon DEF RealmInv, VlobInv
  <1>2. \A i \in DOMAIN roles[r] : roles[r][i] \in RoleCerts
    BY <1>1 DEF TypeOK
  <1>3. \A i \in DOMAIN renames[r] : renames[r][i] \in NameCerts
    BY <1>1 DEF TypeOK
  <1>4. \A i \in DOMAIN rotations[r] : rotations[r][i] \in RotationCerts
    BY <1>1 DEF TypeOK
  <1>5. /\ \A i \in DOMAIN roles[r] : roles[r][i].ts \in Nat \ {0}
        /\ \A i \in DOMAIN renames[r] : renames[r][i].ts \in Nat \ {0}
        /\ \A i \in DOMAIN rotations[r] : rotations[r][i].ts \in Nat \ {0}
    BY <1>2, <1>3, <1>4, TimestampsAssumption, Zenon DEF RoleCerts, NameCerts, RotationCerts
  <1>6. roles[r] \in Seq(RoleCerts) /\ Ordered(roles[r])
        /\ \A i \in DOMAIN roles[r] : roles[r][i].ts <= realmTs[r]
    BY <1>1, TypeFacts, Zenon DEF RolesDated
  <1>7. ASSUME NEW i \in DOMAIN renames[r] PROVE renames[r][i].ts <= realmTs[r]
    <2>1. <<"name", r, i, renames[r][i].ts>> \in RealmStamps(r)
      BY Zenon DEF RealmStamps
    <2> QED
      BY <1>1, <2>1, Zenon DEF StampsDated
  <1>8. ASSUME NEW i \in DOMAIN rotations[r] PROVE rotations[r][i].ts <= realmTs[r]
    <2>1. <<"key", r, i, rotations[r][i].ts>> \in RealmStamps(r)
      BY Zenon DEF RealmStamps
    <2> QED
      BY <1>1, <2>1, Zenon DEF StampsDated
  <1> QED
    BY <1>5, <1>6, <1>7, <1>8, Zenon

\* A certificate that is older than the one appended is judged as before.
LEMMA OldCertsStay ==
    ASSUME NEW rs \in Seq(RoleCerts), NEW c \in RoleCerts, NEW x, x.ts \in Nat \ {0}, x.ts < c.ts,
           \A u, t : t \in Nat /\ t < c.ts => RoleAt(Append(rs, c), u, t) = RoleAt(rs, u, t)
    PROVE  /\ RoleCertAcceptable(rs, x) => RoleCertAcceptable(Append(rs, c), x)
           /\ OwnerCertAcceptable(rs, x) => OwnerCertAcceptable(Append(rs, c), x)
  <1> DEFINE qs == Append(rs, c)
  <1>1. c.ts \in Nat
    BY TimestampsAssumption, Zenon DEF RoleCerts
  <1>2. \A u : RoleAt(qs, u, x.ts - 1) = RoleAt(rs, u, x.ts - 1)
    BY <1>1
  <1>3. /\ DOMAIN qs = DOMAIN rs \cup {Len(rs) + 1}
        /\ qs[Len(rs) + 1] = c
        /\ \A i \in DOMAIN rs : qs[i] = rs[i]
    OBVIOUS
  <1> HIDE DEF qs
  <1>4. (\A i \in DOMAIN qs : qs[i].ts >= x.ts) <=> (\A i \in DOMAIN rs : rs[i].ts >= x.ts)
    BY <1>1, <1>3
  <1>5. RoleCertAcceptable(rs, x) => RoleCertAcceptable(qs, x)
    BY <1>2, <1>4, Zenon DEF RoleCertAcceptable
  <1>6. OwnerCertAcceptable(rs, x) => OwnerCertAcceptable(qs, x)
    BY <1>2, Zenon DEF OwnerCertAcceptable
  <1> QED
    BY <1>5, <1>6, Zenon DEF qs

\* CreateRealm, Share and Unshare.
LEMMA RoleKeepsCerts ==
    ASSUME RealmInv, NEW r \in Realms, NEW u \in Users, NEW role \in Roles,
           NEW t \in Timestamps, NEW a \in devices, AddRole(r, u, role, t, a.id),
           UNCHANGED commonVars, UNCHANGED renames, SameRotations, NewerThanTopics(r, t), Exists(u),
           RealmExists(r) => RoleChangeCheck(a, r, u, role),
           ~RealmExists(r) => u = a.user /\ role = "OWNER"
    PROVE  StampsDated' /\ RealmCertsAcceptable'
  <1> DEFINE c == [user |-> u, role |-> role, ts |-> t, author |-> a.id]
             rs == roles[r]
             qs == Append(rs, c)
  <1>1. /\ a.user \in Users /\ a.id \in Devices /\ KnownDevice(a.id, a.user, t) /\ KnownUser(u, t)
        /\ t \in Nat /\ realmTs[r] \in Nat /\ t > realmTs[r]
    BY AuthorIsKnown, Zenon
  <1>2. /\ rs \in Seq(RoleCerts) /\ Ordered(rs)
        /\ \A i \in DOMAIN rs : rs[i].ts \in Nat \ {0} /\ rs[i].ts <= realmTs[r]
    BY RealmDates, Zenon
  <1>3. TypeOK /\ StampsDated /\ RealmCertsAcceptable
    BY Zenon DEF RealmInv, VlobInv
  <1>4. c \in RoleCerts /\ c.ts = t /\ c.user = u /\ c.role = role /\ c.author = a.id
    BY <1>1, Zenon DEF RoleCerts
  <1>5. roles'[r] = qs /\ \A q \in Realms : q # r => roles'[q] = roles[q]
    BY <1>3, Zenon DEF AddRole, TypeOK
  <1> HIDE DEF c
  <1>6. /\ \A w, s : s \in Nat /\ s < t => RoleAt(qs, w, s) = RoleAt(rs, w, s)
        /\ \A w : RoleAt(qs, w, t - 1) = CurrentRole(rs, w)
    <2>1. /\ rs \in Seq(RoleCerts) /\ Ordered(rs) /\ realmTs[r] \in Nat /\ c.ts > realmTs[r]
          /\ \A i \in DOMAIN rs : rs[i].ts <= realmTs[r]
      BY <1>1, <1>2, <1>4, ZenonT(30)
    <2> HIDE DEF rs
    <2>2. /\ \A w, s : s \in Nat /\ s < c.ts => RoleAt(Append(rs, c), w, s) = RoleAt(rs, w, s)
          /\ \A w : RoleAt(Append(rs, c), w, c.ts - 1) = CurrentRole(rs, w)
      BY <1>4, <2>1, RoleAppended, Zenon
    <2> QED
      BY <1>4, <2>2, Zenon
  <1>7. \A x : x.ts \in Nat \ {0} /\ x.ts <= realmTs[r] =>
            /\ RoleCertAcceptable(rs, x) => RoleCertAcceptable(qs, x)
            /\ OwnerCertAcceptable(rs, x) => OwnerCertAcceptable(qs, x)
    <2> SUFFICES ASSUME NEW x, x.ts \in Nat \ {0}, x.ts <= realmTs[r]
                 PROVE  /\ RoleCertAcceptable(rs, x) => RoleCertAcceptable(qs, x)
                        /\ OwnerCertAcceptable(rs, x) => OwnerCertAcceptable(qs, x)
      BY Zenon
    <2>1. x.ts < c.ts
      BY <1>1, <1>4, SMTT(20)
    <2> QED
      BY <1>2, <1>4, <1>6, <2>1, OldCertsStay, ZenonT(30)
  <1>8. /\ DOMAIN qs = DOMAIN rs \cup {Len(rs) + 1}
        /\ qs[Len(rs) + 1] = c
        /\ \A i \in DOMAIN rs : qs[i] = rs[i]
        /\ rs = <<>> <=> DOMAIN rs = {}
    BY <1>2, <1>4, SMTT(20)
  <1> HIDE DEF qs
  <1>9. RoleCertAcceptable(qs, c)
    <2>1. CASE rs = <<>>
      <3>1. \A i \in DOMAIN qs : qs[i].ts >= t
        BY <1>1, <1>4, <1>8, <2>1, SMTT(20)
      <3> QED
        BY <1>1, <1>4, <2>1, <3>1, Zenon DEF RoleCertAcceptable, RealmExists
    <2>2. CASE rs # <<>>
      <3>1. ~ \A i \in DOMAIN qs : qs[i].ts >= t
        BY <1>1, <1>2, <1>8, <2>2, SMTT(20)
      <3>2. /\ CurrentRole(rs, a.user) \in NeededRoles(CurrentRole(rs, u), role)
            /\ CurrentRole(rs, u) # role
        BY <2>2, ZenonT(30) DEF RealmExists, RoleChangeCheck
      <3> QED
        BY <1>1, <1>4, <1>6, <3>1, <3>2, ZenonT(30) DEF RoleCertAcceptable
    <2> QED
      BY <2>1, <2>2, Zenon
  <1>10. StampsDated' /\ \A q \in Realms : Distinct(RealmStamps(q)')
    <2> DEFINE y == <<"role", r, Len(rs) + 1, t>>
    <2>1. RealmStamps(r)' \subseteq RealmStamps(r) \cup {y}
          /\ \A q \in Realms : q # r => RealmStamps(q)' = RealmStamps(q)
      BY <1>1, <1>3, RoleStamps, Zenon
    <2>2. y[4] = t /\ realmTs' = [realmTs EXCEPT ![r] = t]
      BY Zenon DEF AddRole
    <2>3. \A q \in Realms : Distinct(RealmStamps(q))
      BY <1>3, ZenonT(30) DEF RealmCertsAcceptable
    <2> HIDE DEF y
    <2> QED
      BY <1>1, <1>3, <2>1, <2>2, <2>3, StampsAfter, ZenonT(30)
  <1>11. \A q \in Realms : \A i \in DOMAIN roles'[q] : RoleCertAcceptable(roles'[q], roles'[q][i])
    <2>1. \A q \in Realms : \A i \in DOMAIN roles[q] : RoleCertAcceptable(roles[q], roles[q][i])
      BY <1>3, ZenonT(30) DEF RealmCertsAcceptable, ContentsOf
    <2>2. \A i \in DOMAIN qs : RoleCertAcceptable(qs, qs[i])
      BY <1>2, <1>7, <1>8, <1>9, <2>1, ZenonT(30)
    <2> QED
      BY <1>5, <2>1, <2>2, ZenonT(30)
  <1>12. \A q \in Realms : \A i \in DOMAIN renames'[q] : OwnerCertAcceptable(roles'[q], renames'[q][i])
    <2>1. \A q \in Realms : \A i \in DOMAIN renames[q] : OwnerCertAcceptable(roles[q], renames[q][i])
      BY <1>3, ZenonT(30) DEF RealmCertsAcceptable, ContentsOf
    <2>2. \A i \in DOMAIN renames[r] : OwnerCertAcceptable(qs, renames[r][i])
      BY <1>7, <2>1, RealmDates, ZenonT(30)
    <2> QED
      BY <1>5, <2>1, <2>2, ZenonT(30)
  <1>13. \A q \in Realms : \A i \in DOMAIN rotations'[q] : OwnerCertAcceptable(roles'[q], rotations'[q][i])
    <2>1. \A q \in Realms : \A i \in DOMAIN rotations[q] : OwnerCertAcceptable(roles[q], rotations[q][i])
      BY <1>3, ZenonT(30) DEF RealmCertsAcceptable, ContentsOf
    <2>2. \A i \in DOMAIN rotations[r] : OwnerCertAcceptable(qs, rotations[r][i])
      BY <1>7, <2>1, RealmDates, ZenonT(30)
    <2>3. \A q \in Realms : \A i \in DOMAIN rotations[q] : OwnerCertAcceptable(roles'[q], rotations[q][i])
      BY <1>5, <2>1, <2>2, ZenonT(30)
    <2> QED
      BY <2>3, ZenonT(40) DEF SameRotations, OwnerCertAcceptable
  <1> QED
    BY <1>10, <1>11, <1>12, <1>13, RealmCertsAgain, ZenonT(30)
\* A rename or a key rotation by an owner, seen from one of the two lists.
LEMMA OwnerCertIsAcceptable ==
    ASSUME RealmInv, NEW a \in devices, NEW r \in Realms, NEW t \in Timestamps,
           NewerThanTopics(r, t), CurrentRole(roles[r], a.user) = "OWNER",
           NEW c, c.author = a.id, c.ts = t
    PROVE  OwnerCertAcceptable(roles[r], c)
  <1>1. /\ a.user \in Users /\ KnownDevice(a.id, a.user, t)
        /\ t \in Nat /\ realmTs[r] \in Nat /\ t > realmTs[r]
    BY AuthorIsKnown, ZenonT(30)
  <1>2. /\ roles[r] \in Seq(RoleCerts) /\ Ordered(roles[r])
        /\ \A i \in DOMAIN roles[r] : roles[r][i].ts \in Nat \ {0} /\ roles[r][i].ts <= realmTs[r]
    BY RealmDates, Zenon
  <1>3. t - 1 \in Nat /\ \A i \in DOMAIN roles[r] : roles[r][i].ts <= t - 1
    BY <1>1, <1>2, SMTT(20)
  <1>4. RoleAt(roles[r], a.user, t - 1) = "OWNER"
    BY <1>2, <1>3, RoleAtEnd, Zenon
  <1> QED
    BY <1>1, <1>4, ZenonT(30) DEF OwnerCertAcceptable

LEMMA RenameKeepsCerts ==
    ASSUME RealmInv, NEW a \in devices, NEW r \in Realms, NEW k \in KeyIndexes, NEW first,
           NEW t \in Timestamps, Rename(a, r, k, first, t)
    PROVE  StampsDated' /\ RealmCertsAcceptable'
  <1> DEFINE c == [key |-> k, ts |-> t, author |-> a.id]
             ns == renames[r]
             n == Len(ns)
             y == <<"name", r, n + 1, t>>
  <1>1. TypeOK /\ StampsDated /\ RealmCertsAcceptable
    BY Zenon DEF RealmInv, VlobInv
  <1>2. ns \in Seq(NameCerts) /\ c \in NameCerts /\ c.ts = t /\ c.author = a.id
    <2>1. k \in Nat /\ a.id \in Devices
      BY <1>1, AuthorType, KeyIndexesAssumption, Zenon
    <2> QED
      BY <1>1, <2>1, Zenon DEF TypeOK, NameCerts
  <1>3. /\ t > realmTs[r] /\ realmTs' = [realmTs EXCEPT ![r] = t]
        /\ UNCHANGED <<commonVars, roles, rotations>>
        /\ renames'[r] = Append(ns, c)
        /\ \A q \in Realms : q # r => renames'[q] = renames[q]
    BY <1>1, Zenon DEF Rename, NewerThanTopics, InsertName, TypeOK
  <1>4. OwnerCertAcceptable(roles[r], c)
    <2>1. NewerThanTopics(r, t) /\ CurrentRole(roles[r], a.user) = "OWNER"
      BY Zenon DEF Rename, RenameCheck
    <2> HIDE DEF c
    <2> QED
      BY <1>2, <2>1, OwnerCertIsAcceptable, ZenonT(30)
  <1>5. /\ DOMAIN renames'[r] = DOMAIN ns \cup {n + 1}
        /\ renames'[r][n + 1] = c
        /\ \A i \in DOMAIN ns : renames'[r][i] = ns[i]
    <2> HIDE DEF c
    <2> QED
      BY <1>2, <1>3, SMTT(20)
  <1> HIDE DEF c, n
  <1>6. RealmStamps(r)' \subseteq RealmStamps(r) \cup {y}
    <2>1. ASSUME NEW i \in DOMAIN renames'[r]
          PROVE  <<"name", r, i, renames'[r][i].ts>> \in RealmStamps(r) \cup {y}
      <3>1. CASE i = n + 1
        BY <1>2, <1>5, <3>1, ZenonT(30)
      <3>2. CASE i \in DOMAIN ns
        BY <1>5, <3>2, ZenonT(30) DEF RealmStamps
      <3> QED
        BY <1>5, <2>1, <3>1, <3>2, ZenonT(30)
    <2> HIDE DEF y
    <2> QED
      BY <1>3, <2>1, ZenonT(30) DEF RealmStamps
  <1>7. \A q \in Realms : q # r => RealmStamps(q)' = RealmStamps(q)
    BY <1>3, ZenonT(30) DEF RealmStamps
  <1>8. StampsDated' /\ \A q \in Realms : Distinct(RealmStamps(q)')
    <2>1. y[4] = t /\ \A q \in Realms : Distinct(RealmStamps(q))
      BY <1>1, ZenonT(30) DEF RealmCertsAcceptable
    <2> HIDE DEF y
    <2> QED
      BY <1>1, <1>3, <1>6, <1>7, <2>1, StampsAfter, ZenonT(30)
  <1>9. \A q \in Realms : \A i \in DOMAIN renames[q] : OwnerCertAcceptable(roles[q], renames[q][i])
    BY <1>1, ZenonT(30) DEF RealmCertsAcceptable, ContentsOf
  <1>10. \A q \in Realms : \A i \in DOMAIN rotations[q] : OwnerCertAcceptable(roles[q], rotations[q][i])
    BY <1>1, Zenon DEF RealmCertsAcceptable, ContentsOf
  <1>11. \A q \in Realms : \A i \in DOMAIN roles'[q] : RoleCertAcceptable(roles'[q], roles'[q][i])
    <2>1. \A q \in Realms : \A i \in DOMAIN roles[q] : RoleCertAcceptable(roles[q], roles[q][i])
      BY <1>1, ZenonT(30) DEF RealmCertsAcceptable, ContentsOf
    <2>2. roles' = roles
      BY <1>3, Zenon
    <2> QED
      BY <2>1, <2>2, Zenon
  <1>12. \A q \in Realms : \A i \in DOMAIN renames'[q] : OwnerCertAcceptable(roles'[q], renames'[q][i])
    <2>1. \A i \in DOMAIN renames'[r] : OwnerCertAcceptable(roles[r], renames'[r][i])
      BY <1>4, <1>5, <1>9, ZenonT(30)
    <2> QED
      BY <1>3, <1>9, <2>1, ZenonT(30)
  <1>13. \A q \in Realms : \A i \in DOMAIN rotations'[q] : OwnerCertAcceptable(roles'[q], rotations'[q][i])
    BY <1>3, <1>10, ZenonT(30)
  <1> QED
    BY <1>3, <1>8, <1>11, <1>12, <1>13, RealmCertsAgain, ZenonT(30)

LEMMA RotateKeepsCerts ==
    ASSUME RealmInv, NEW a \in devices, NEW r \in Realms, NEW k \in KeyIndexes,
           NEW recipients \in SUBSET Users, NEW t \in Timestamps, RotateKey(a, r, k, recipients, t)
    PROVE  StampsDated' /\ RealmCertsAcceptable'
  <1> DEFINE c == [access |-> {[user |-> u, ts |-> t] : u \in recipients},
                   ts |-> t, author |-> a.id]
             ks == rotations[r]
             n == Len(ks)
             y == <<"key", r, n + 1, t>>
  <1>1. TypeOK /\ StampsDated /\ RealmCertsAcceptable
    BY Zenon DEF RealmInv, VlobInv
  <1>2. ks \in Seq(RotationCerts) /\ c.ts = t /\ c.author = a.id
    BY <1>1, ZenonT(30) DEF TypeOK
  <1>3. /\ t > realmTs[r] /\ realmTs' = [realmTs EXCEPT ![r] = t]
        /\ UNCHANGED <<commonVars, roles, renames>>
        /\ rotations'[r] = Append(ks, c)
        /\ \A q \in Realms : q # r => rotations'[q] = rotations[q]
    BY <1>1, Zenon DEF RotateKey, NewerThanTopics, InsertRotation, TypeOK
  <1> HIDE DEF c
  <1>4. OwnerCertAcceptable(roles[r], c)
    <2>1. NewerThanTopics(r, t) /\ CurrentRole(roles[r], a.user) = "OWNER"
      BY Zenon DEF RotateKey, RotateKeyCheck
    <2> QED
      BY <1>2, <2>1, OwnerCertIsAcceptable, ZenonT(30)
  <1>5. /\ DOMAIN rotations'[r] = DOMAIN ks \cup {n + 1}
        /\ rotations'[r][n + 1] = c
        /\ \A i \in DOMAIN ks : rotations'[r][i] = ks[i]
    BY <1>2, <1>3, SMTT(20)
  <1> HIDE DEF n
  <1>6. RealmStamps(r)' \subseteq RealmStamps(r) \cup {y}
    <2>1. ASSUME NEW i \in DOMAIN rotations'[r]
          PROVE  <<"key", r, i, rotations'[r][i].ts>> \in RealmStamps(r) \cup {y}
      <3>1. CASE i = n + 1
        BY <1>2, <1>5, <3>1, Zenon
      <3>2. CASE i \in DOMAIN ks
        BY <1>5, <3>2, ZenonT(30) DEF RealmStamps
      <3> QED
        BY <1>5, <2>1, <3>1, <3>2, Zenon
    <2> HIDE DEF y
    <2> QED
      BY <1>3, <2>1, ZenonT(30) DEF RealmStamps
  <1>7. \A q \in Realms : q # r => RealmStamps(q)' = RealmStamps(q)
    BY <1>3, ZenonT(30) DEF RealmStamps
  <1>8. StampsDated' /\ \A q \in Realms : Distinct(RealmStamps(q)')
    <2>1. y[4] = t /\ \A q \in Realms : Distinct(RealmStamps(q))
      BY <1>1, Zenon DEF RealmCertsAcceptable
    <2> HIDE DEF y
    <2> QED
      BY <1>1, <1>3, <1>6, <1>7, <2>1, StampsAfter, ZenonT(30)
  <1>9. \A q \in Realms : \A i \in DOMAIN renames[q] : OwnerCertAcceptable(roles[q], renames[q][i])
    BY <1>1, ZenonT(30) DEF RealmCertsAcceptable, ContentsOf
  <1>10. \A q \in Realms : \A i \in DOMAIN rotations[q] : OwnerCertAcceptable(roles[q], rotations[q][i])
    BY <1>1, ZenonT(30) DEF RealmCertsAcceptable, ContentsOf
  <1>11. \A q \in Realms : \A i \in DOMAIN roles'[q] : RoleCertAcceptable(roles'[q], roles'[q][i])
    <2>1. \A q \in Realms : \A i \in DOMAIN roles[q] : RoleCertAcceptable(roles[q], roles[q][i])
      BY <1>1, Zenon DEF RealmCertsAcceptable, ContentsOf
    <2>2. roles' = roles
      BY <1>3, Zenon
    <2> QED
      BY <2>1, <2>2, Zenon
  <1>12. \A q \in Realms : \A i \in DOMAIN rotations'[q] : OwnerCertAcceptable(roles'[q], rotations'[q][i])
    <2>1. \A i \in DOMAIN rotations'[r] : OwnerCertAcceptable(roles[r], rotations'[r][i])
      BY <1>4, <1>5, <1>10, ZenonT(30)
    <2> QED
      BY <1>3, <1>10, <2>1, Zenon
  <1>13. \A q \in Realms : \A i \in DOMAIN renames'[q] : OwnerCertAcceptable(roles'[q], renames'[q][i])
    BY <1>3, <1>9, Zenon
  <1> QED
    BY <1>3, <1>8, <1>11, <1>12, <1>13, RealmCertsAgain, ZenonT(30)

\* The role, name and key rotation certificates a client accepts when it knows the
\* devices ds and the users pf.
RoleCertIn(ds, pf, rs, c) ==
    /\ pf[c.user] # <<>> /\ pf[c.user][1].ts <= c.ts
    /\ \E author \in Users :
        /\ \E e \in ds : e.id = c.author /\ e.user = author /\ e.ts <= c.ts
        /\ IF \A i \in DOMAIN rs : rs[i].ts >= c.ts
           THEN author = c.user /\ c.role = "OWNER"
           ELSE LET old == RoleAt(rs, c.user, c.ts - 1)
                IN  /\ RoleAt(rs, author, c.ts - 1) \in NeededRoles(old, c.role)
                    /\ old # c.role

OwnerCertIn(ds, rs, c) ==
    \E author \in Users :
        /\ \E e \in ds : e.id = c.author /\ e.user = author /\ e.ts <= c.ts
        /\ RoleAt(rs, author, c.ts - 1) = "OWNER"

LEMMA CertsIn ==
    ASSUME RealmCertsAcceptable
    PROVE  \A q \in Realms :
              /\ Distinct(RealmStamps(q))
              /\ \A i \in DOMAIN roles[q] : RoleCertIn(devices, profiles, roles[q], roles[q][i])
              /\ \A i \in DOMAIN renames[q] : OwnerCertIn(devices, roles[q], renames[q][i])
              /\ \A i \in DOMAIN rotations[q] : OwnerCertIn(devices, roles[q], rotations[q][i])
  <1>1. \A rs, c : RoleCertAcceptable(rs, c) => RoleCertIn(devices, profiles, rs, c)
    BY Zenon DEF RoleCertAcceptable, KnownUser, KnownDevice, Exists, RoleCertIn
  <1>2. \A rs, c : OwnerCertAcceptable(rs, c) => OwnerCertIn(devices, rs, c)
    BY Zenon DEF OwnerCertAcceptable, KnownDevice, OwnerCertIn
  <1> QED
    BY <1>1, <1>2, ZenonT(30) DEF RealmCertsAcceptable, ContentsOf

LEMMA CertsInAfter ==
    ASSUME \A q \in Realms :
              /\ Distinct(RealmStamps(q)')
              /\ \A i \in DOMAIN roles'[q] : RoleCertIn(devices', profiles', roles'[q], roles'[q][i])
              /\ \A i \in DOMAIN renames'[q] : OwnerCertIn(devices', roles'[q], renames'[q][i])
              /\ \A i \in DOMAIN rotations'[q] : OwnerCertIn(devices', roles'[q], rotations'[q][i])
    PROVE  RealmCertsAcceptable'
  <1>1. \A rs, c : RoleCertIn(devices', profiles', rs, c) => RoleCertAcceptable(rs, c)'
    BY Zenon DEF RoleCertAcceptable, KnownUser, KnownDevice, Exists, RoleCertIn
  <1>2. \A rs, c : OwnerCertIn(devices', rs, c) => OwnerCertAcceptable(rs, c)'
    BY Zenon DEF OwnerCertAcceptable, KnownDevice, OwnerCertIn
  <1> QED
    BY <1>1, <1>2, ZenonT(30) DEF RealmCertsAcceptable, ContentsOf

LEMMA RoleCertUser ==
    ASSUME roles \in [Realms -> Seq(RoleCerts)], NEW q \in Realms, NEW i \in DOMAIN roles[q]
    PROVE  roles[q][i].user \in Users
  <1>1. roles[q][i] \in RoleCerts
    OBVIOUS
  <1> QED
    BY <1>1, TimestampsAssumption, Zenon DEF RoleCerts

LEMMA CertsAreStable ==
    ASSUME RealmCertsAcceptable, devices \subseteq devices', UNCHANGED realmVars,
           \A u \in Users : Exists(u) => Exists(u)' /\ profiles'[u][1] = profiles[u][1],
           roles \in [Realms -> Seq(RoleCerts)]
    PROVE  RealmCertsAcceptable'
  <1>1. UNCHANGED <<realmTs, roles, renames, rotations>>
    BY Zenon DEF realmVars
  <1>2. \A q \in Realms : Distinct(RealmStamps(q)')
    BY <1>1, CertsIn, ZenonT(40) DEF RealmStamps
  <1>3. ASSUME NEW q \in Realms, NEW i \in DOMAIN roles[q]
        PROVE  RoleCertIn(devices', profiles', roles[q], roles[q][i])
    <2>1. RoleCertIn(devices, profiles, roles[q], roles[q][i])
      BY CertsIn, ZenonT(30)
    <2>2. roles[q][i].user \in Users
      BY RoleCertUser, Zenon
    <2> QED
      BY <2>1, <2>2, ZenonT(30) DEF RoleCertIn, Exists
  <1>4. \A q \in Realms : \A i \in DOMAIN renames[q] : OwnerCertIn(devices', roles[q], renames[q][i])
    BY CertsIn, ZenonT(30) DEF OwnerCertIn
  <1>5. \A q \in Realms : \A i \in DOMAIN rotations[q] : OwnerCertIn(devices', roles[q], rotations[q][i])
    BY CertsIn, ZenonT(30) DEF OwnerCertIn
  <1> QED
    BY <1>1, <1>2, <1>3, <1>4, <1>5, CertsInAfter, ZenonT(30)

\* Share gives an access to the last key and leaves the rest of the rotations alone.
LEMMA ShareKeepsRotations ==
    ASSUME TypeOK, NEW t \in Timestamps, NEW a \in devices, NEW r \in Realms, NEW u \in Users,
           NEW role \in RealmRoles, NEW k \in KeyIndexes, Share(a, r, u, role, k, t)
    PROVE  SameRotations
  <1>1. /\ rotations' = [rotations EXCEPT ![r][k].access = @ \cup {[user |-> u, ts |-> t]}]
        /\ k = LastKey(r) /\ k # 0
    BY Zenon DEF Share, InsertShare, ShareRoleCheck
  <1>2. rotations \in [Realms -> Seq(RotationCerts)] /\ k \in DOMAIN rotations[r]
    BY <1>1 DEF TypeOK, LastKey
  <1>3. rotations[r][k] \in RotationCerts
    BY <1>2
  <1>4. DOMAIN rotations[r][k] = {"access", "ts", "author"}
    BY <1>3, Zenon DEF RotationCerts
  <1> QED
    BY <1>1, <1>2, <1>4, Zenon DEF SameRotations

LEMMA RealmNextKeepsCerts ==
    ASSUME RealmInv, RealmNext
    PROVE  StampsDated' /\ RealmCertsAcceptable'
  <1>1. TypeOK
    BY Zenon DEF RealmInv, VlobInv
  <1>2. ASSUME NEW t \in Timestamps, NEW a \in devices, NEW r \in Realms, CreateRealm(a, r, t)
        PROVE  StampsDated' /\ RealmCertsAcceptable'
    <2>1. a.user \in Users /\ "OWNER" \in Roles
      BY <1>1, AuthorType, Zenon DEF Roles, RealmRoles
    <2>2. /\ AddRole(r, a.user, "OWNER", t, a.id) /\ UNCHANGED <<commonVars, rotations, renames>>
          /\ NewerThanTopics(r, t) /\ ~RealmExists(r) /\ Exists(a.user)
      BY <1>2, Zenon DEF CreateRealm, InsertRole, CreateRealmCheck, IsActive
    <2>3. SameRotations
      BY <2>2, Zenon DEF SameRotations
    <2> QED
      BY <2>1, <2>2, <2>3, RoleKeepsCerts, Zenon
  <1>3. ASSUME NEW t \in Timestamps, NEW a \in devices, NEW r \in Realms, NEW u \in Users,
               NEW role \in RealmRoles, NEW k \in KeyIndexes, Share(a, r, u, role, k, t)
        PROVE  StampsDated' /\ RealmCertsAcceptable'
    <2>1. role \in Roles
      BY Zenon DEF Roles
    <2>2. /\ AddRole(r, u, role, t, a.id) /\ UNCHANGED <<commonVars, renames>>
          /\ NewerThanTopics(r, t) /\ RealmExists(r) /\ Exists(u) /\ RoleChangeCheck(a, r, u, role)
      BY <1>3, Zenon DEF Share, InsertShare, ShareCheck, ShareRoleCheck, IsActive
    <2>3. SameRotations
      BY <1>1, <1>3, ShareKeepsRotations, Zenon
    <2> QED
      BY <2>1, <2>2, <2>3, RoleKeepsCerts, Zenon
  <1>4. ASSUME NEW t \in Timestamps, NEW a \in devices, NEW r \in Realms, NEW u \in Users,
               Unshare(a, r, u, t)
        PROVE  StampsDated' /\ RealmCertsAcceptable'
    <2>1. "NONE" \in Roles
      BY Zenon DEF Roles
    <2>2. /\ AddRole(r, u, "NONE", t, a.id) /\ UNCHANGED <<commonVars, rotations, renames>>
          /\ NewerThanTopics(r, t) /\ RealmExists(r) /\ Exists(u) /\ RoleChangeCheck(a, r, u, "NONE")
      BY <1>4, Zenon DEF Unshare, InsertRole, UnshareCheck
    <2>3. SameRotations
      BY <2>2, Zenon DEF SameRotations
    <2> QED
      BY <2>1, <2>2, <2>3, RoleKeepsCerts, Zenon
  <1> QED
    BY <1>2, <1>3, <1>4, RenameKeepsCerts, RotateKeepsCerts, ZenonT(30) DEF RealmNext

LEMMA RealmInvIsInductive == RealmInv /\ [Next]_vars => RealmInv'
  <1> SUFFICES ASSUME RealmInv, [Next]_vars PROVE RealmInv'
    BY Zenon
  <1>1. AdminInv' /\ VlobInv'
    BY NextKeepsAdmin, VlobInvIsInductive, Zenon DEF RealmInv
  <1>2. TypeOK /\ roles \in [Realms -> Seq(RoleCerts)]
    BY Zenon DEF RealmInv, VlobInv, TypeOK
  <1>3. ASSUME UNCHANGED commonVars PROVE UsersDated'
    BY <1>3, Zenon DEF RealmInv, UsersDated, Exists, commonVars
  <1>4. ASSUME UNCHANGED realmVars PROVE StampsDated'
    BY <1>4, ZenonT(30) DEF RealmInv, StampsDated, RealmStamps, realmVars
  <1>5. CASE CommonNext
    <2>1. /\ UsersDated'
          /\ \A u \in Users : Exists(u) => Exists(u)' /\ profiles'[u][1] = profiles[u][1]
      BY <1>5, UsersRemainDated, Zenon DEF RealmInv
    <2>2. devices \subseteq devices' /\ UNCHANGED realmVars
      BY <1>5, DevicesRemainDated, Zenon DEF RealmInv
    <2>3. RealmCertsAcceptable'
      BY <1>2, <2>1, <2>2, CertsAreStable, Zenon DEF RealmInv
    <2> QED
      BY <1>1, <1>4, <2>1, <2>2, <2>3, Zenon DEF RealmInv
  <1>6. CASE RealmNext
    BY <1>1, <1>3, <1>6, RealmFrame, RealmNextKeepsCerts, Zenon DEF RealmInv
  <1>7. ASSUME UNCHANGED commonVars, UNCHANGED realmVars PROVE RealmInv'
    <2>1. UNCHANGED <<devices, profiles>>
      BY <1>7, Zenon DEF commonVars
    <2>2. RealmCertsAcceptable'
      BY <1>2, <1>7, <2>1, CertsAreStable, Zenon DEF RealmInv, Exists
    <2> QED
      BY <1>1, <1>3, <1>4, <1>7, <2>2, Zenon DEF RealmInv
  <1>8. CASE VlobNext
    BY <1>7, <1>8 DEF VlobNext, CreateVlob, UpdateVlob, InsertVlob
  <1>9. CASE UNCHANGED vars
    BY <1>7, <1>9, Zenon DEF vars, commonVars, realmVars
  <1> QED
    BY <1>5, <1>6, <1>8, <1>9, Zenon DEF Next

LEMMA InitRealmInv == Init => RealmInv
  <1> SUFFICES ASSUME Init PROVE RealmInv
    BY Zenon
  <1>1. AdminInv
    BY InitTypes, Zenon DEF Init, AdminInv, EmptyBeforeBootstrap, ActiveAdminExists
  <1>2. \A r \in Realms : DOMAIN roles[r] = {} /\ DOMAIN renames[r] = {} /\ DOMAIN rotations[r] = {}
    BY DEF Init
  <1>3. \A r \in Realms : RealmStamps(r) = {}
    BY <1>2, Zenon DEF RealmStamps
  <1>4. \A u \in Users : ~Exists(u)
    BY Zenon DEF Init, Exists
  <1> QED
    BY <1>1, <1>2, <1>3, <1>4, InitVlobInv, ZenonT(30)
       DEF RealmInv, UsersDated, StampsDated, RealmCertsAcceptable, Distinct, ContentsOf

\* Whatever timestamps the clients choose, every role, name and key rotation
\* certificate the server has accepted passes the consistency checks of a client
\* that gets them in the order of their timestamps.
THEOREM StoredRealmCertsAcceptable == Spec => []RealmCertsAcceptable
  <1>1. RealmInv => RealmCertsAcceptable
    BY Zenon DEF RealmInv
  <1> QED
    BY <1>1, InitRealmInv, RealmInvIsInductive, PTL DEF Spec
=============================================================================
