----------------------------- MODULE KeyProofs ------------------------------
(***************************************************************************)
(* The keys of a realm follow its roles, and revocations are newer than    *)
(* what their users did, for any set of users, devices, realms and vlobs   *)
(* and any choice of timestamps.                                           *)
(***************************************************************************)
EXTENDS RealmProofs

(***************************************************************************)
(* Keys.                                                                   *)
(***************************************************************************)

\* A realm has no key before its first role, and no access to a key is newer
\* than the last timestamp of its topic.
AccessDated ==
    \A r \in Realms :
        /\ roles[r] = <<>> => rotations[r] = <<>>
        /\ \A i \in DOMAIN rotations[r] : \A x \in rotations[r][i].access : x.ts <= realmTs[r]

KeysInv == RealmInv /\ AccessDated /\ KeysFollowRoles

\* What is said of the keys of one realm.
KeysOf(rs, ks) ==
    /\ IF Len(ks) = 0
       THEN Len(rs) <= 1
       ELSE \A u \in Participants(rs) : \E x \in ks[Len(ks)].access : x.user = u
    /\ \A i \in DOMAIN ks : \A x \in ks[i].access : RoleAt(rs, x.user, x.ts) # "NONE"

LEMMA KeysByRealm ==
    ASSUME roles \in [Realms -> Seq(RoleCerts)], rotations \in [Realms -> Seq(RotationCerts)],
           KeysFollowRoles, NEW r \in Realms
    PROVE  KeysOf(roles[r], rotations[r])
  <1>1. IF Len(rotations[r]) = 0
        THEN Len(roles[r]) <= 1
        ELSE \A u \in Participants(roles[r]) :
                \E x \in rotations[r][Len(rotations[r])].access : x.user = u
    BY Zenon DEF KeysFollowRoles, LastKey
  <1>2. \A c \in ContentsOf(rotations[r]) : \A x \in c.access :
            RoleAt(roles[r], x.user, x.ts) # "NONE"
    BY Zenon DEF KeysFollowRoles
  <1> QED
    BY <1>1, <1>2, ZenonT(30) DEF KeysOf, ContentsOf

LEMMA KeysByRealmAgain ==
    ASSUME \A r \in Realms : KeysOf(roles'[r], rotations'[r])
    PROVE  KeysFollowRoles'
  BY DEF KeysFollowRoles, KeysOf, LastKey, ContentsOf, Participants

LEMMA AccessTypes ==
    ASSUME NEW ks \in Seq(RotationCerts), NEW i \in DOMAIN ks, NEW x \in ks[i].access
    PROVE  x.user \in Users /\ x.ts \in Nat
  <1>1. ks[i] \in RotationCerts
    OBVIOUS
  <1>2. x \in KeyAccess
    BY <1>1, Zenon DEF RotationCerts
  <1> QED
    BY <1>2, TimestampsAssumption, ZenonT(30) DEF KeyAccess

\* A user with a role is in one of the certificates.
LEMMA RoleHasCert ==
    ASSUME NEW rs, NEW u, CurrentRole(rs, u) # "NONE"
    PROVE  \E i \in DOMAIN rs : rs[i].user = u
  BY Zenon DEF CurrentRole, IsLastFor

\* A role certificate newer than the others, given with an access to the last
\* key unless it takes a role away.
LEMMA RoleKeepsKeys ==
    ASSUME NEW rs \in Seq(RoleCerts), NEW ks \in Seq(RotationCerts), NEW ls \in Seq(RotationCerts),
           Ordered(rs), NEW c \in RoleCerts, NEW m \in Nat, \A i \in DOMAIN rs : rs[i].ts <= m, c.ts > m,
           KeysOf(rs, ks), Len(ks) = 0 => rs = <<>>, Len(ls) = Len(ks),
           \A i \in DOMAIN ks : \A x \in ks[i].access : x.ts <= m,
           \A i \in DOMAIN ks : ks[i].access \subseteq ls[i].access,
           \A i \in DOMAIN ks : \A x \in ls[i].access :
              x \in ks[i].access \/ (x.user = c.user /\ x.ts = c.ts /\ c.role # "NONE"),
           c.role # "NONE" /\ Len(ks) # 0 => \E x \in ls[Len(ks)].access : x.user = c.user
    PROVE  KeysOf(Append(rs, c), ls) /\ \A i \in DOMAIN ls : \A x \in ls[i].access : x.ts <= c.ts
  <1> DEFINE qs == Append(rs, c)
  <1>1. /\ RoleAt(qs, c.user, c.ts) = c.role
        /\ \A u, t : t \in Nat /\ t < c.ts => RoleAt(qs, u, t) = RoleAt(rs, u, t)
    BY RoleAppended, Zenon
  <1>2. c.ts \in Nat
    BY TimestampsAssumption, ZenonT(30) DEF RoleCerts
  <1>3. Len(qs) = Len(rs) + 1
    OBVIOUS
  <1>4. /\ CurrentRole(qs, c.user) = c.role
        /\ \A u : u # c.user => CurrentRole(qs, u) = CurrentRole(rs, u)
    BY AppendedRole, OtherRolesUnchanged, Zenon
  <1> HIDE DEF qs
  <1>5. DOMAIN ls = DOMAIN ks
    OBVIOUS
  <1>6. ASSUME NEW i \in DOMAIN ls, NEW x \in ls[i].access
        PROVE  RoleAt(qs, x.user, x.ts) # "NONE" /\ x.ts <= c.ts
    <2>1. CASE x \in ks[i].access
      <3>1. x.ts \in Nat /\ x.ts <= m
        BY <1>5, <2>1, AccessTypes, Zenon
      <3>2. RoleAt(rs, x.user, x.ts) # "NONE"
        BY <1>5, <2>1, Zenon DEF KeysOf
      <3> QED
        BY <1>1, <1>2, <3>1, <3>2
    <2>2. CASE x.user = c.user /\ x.ts = c.ts /\ c.role # "NONE"
      BY <1>1, <1>2, <2>2
    <2> QED
      BY <1>5, <2>1, <2>2, Zenon
  <1>7. ASSUME Len(ks) = 0 PROVE KeysOf(qs, ls)
    BY <1>3, <1>6, <1>7 DEF KeysOf
  <1>8. ASSUME Len(ks) # 0 PROVE KeysOf(qs, ls)
    <2>1. Len(ks) \in DOMAIN ks
      BY <1>8
    <2>2. ASSUME NEW u \in Participants(qs) PROVE \E x \in ls[Len(ls)].access : x.user = u
      <3>1. CASE u = c.user
        BY <1>4, <1>8, <2>2, <3>1, Zenon DEF Participants
      <3>2. CASE u # c.user
        <4>1. u \in Participants(rs)
          BY <1>4, <2>2, <3>2, Zenon DEF Participants
        <4>2. \E x \in ks[Len(ks)].access : x.user = u
          BY <1>8, <4>1, Zenon DEF KeysOf
        <4> QED
          BY <2>1, <4>2, Zenon
      <3> QED
        BY <3>1, <3>2, Zenon
    <2> QED
      BY <1>6, <1>8, <2>2, Zenon DEF KeysOf
  <1> QED
    BY <1>6, <1>7, <1>8, Zenon DEF qs

\* The keys after a step that adds a role.
LEMMA AddRoleKeepsKeys ==
    ASSUME KeysInv, rotations' \in [Realms -> Seq(RotationCerts)], NEW r \in Realms, NEW u \in Users,
           NEW role \in Roles, NEW t \in Timestamps, NEW author \in Devices,
           AddRole(r, u, role, t, author), t > realmTs[r], LastKey(r) = 0 => ~RealmExists(r),
           \A q \in Realms : q # r => rotations'[q] = rotations[q],
           Len(rotations'[r]) = Len(rotations[r]),
           \A i \in DOMAIN rotations[r] : rotations[r][i].access \subseteq rotations'[r][i].access,
           \A i \in DOMAIN rotations[r] : \A x \in rotations'[r][i].access :
              x \in rotations[r][i].access \/ (x.user = u /\ x.ts = t /\ role # "NONE"),
           role # "NONE" /\ LastKey(r) # 0 =>
              \E x \in rotations'[r][LastKey(r)].access : x.user = u
    PROVE  AccessDated' /\ KeysFollowRoles'
  <1> DEFINE c == [user |-> u, role |-> role, ts |-> t, author |-> author]
             rs == roles[r]
             ks == rotations[r]
             ls == rotations'[r]
  <1>1. TypeOK /\ RealmInv
    BY Zenon DEF KeysInv, RealmInv, VlobInv
  <1>2. c \in RoleCerts /\ c.user = u /\ c.ts = t /\ c.role = role
    BY Zenon DEF RoleCerts
  <1>3. roles \in [Realms -> Seq(RoleCerts)] /\ rotations \in [Realms -> Seq(RotationCerts)]
    BY <1>1, Zenon DEF TypeOK
  <1>4. rs \in Seq(RoleCerts) /\ Ordered(rs) /\ \A i \in DOMAIN rs : rs[i].ts <= realmTs[r]
    BY <1>1, RealmDates, Zenon
  <1>5. ks \in Seq(RotationCerts) /\ ls \in Seq(RotationCerts) /\ realmTs[r] \in Nat
    BY <1>1, <1>3, Zenon DEF TypeOK
  <1>6. \A q \in Realms : KeysOf(roles[q], rotations[q])
    BY <1>3, KeysByRealm, Zenon DEF KeysInv
  <1>7. \A i \in DOMAIN ks : \A x \in ks[i].access : x.ts <= realmTs[r]
    BY Zenon DEF KeysInv, AccessDated
  <1>8. roles'[r] = Append(rs, c) /\ \A q \in Realms : q # r => roles'[q] = roles[q]
    BY <1>3, Zenon DEF AddRole
  <1>9. realmTs' = [realmTs EXCEPT ![r] = t] /\ realmTs \in [Realms -> Nat]
    BY <1>1, Zenon DEF AddRole, TypeOK
  <1>10. Len(ks) = 0 => rs = <<>>
    BY Zenon DEF LastKey, RealmExists
  <1>11. Append(rs, c) # <<>>
    BY <1>2, <1>4, AppendNotEmpty, Zenon
  <1>12. c.role # "NONE" /\ Len(ks) # 0 => \E x \in ls[Len(ks)].access : x.user = c.user
    BY Zenon DEF LastKey
  <1>13. /\ \A i \in DOMAIN ks : ks[i].access \subseteq ls[i].access
         /\ \A i \in DOMAIN ks : \A x \in ls[i].access :
              x \in ks[i].access \/ (x.user = c.user /\ x.ts = c.ts /\ c.role # "NONE")
         /\ Len(ls) = Len(ks) /\ c.ts > realmTs[r]
    BY Zenon
  <1> HIDE DEF c, rs, ks, ls
  <1>14. KeysOf(rs, ks)
    BY <1>6, Zenon DEF rs, ks
  <1>15. KeysOf(Append(rs, c), ls) /\ \A i \in DOMAIN ls : \A x \in ls[i].access : x.ts <= c.ts
    BY ZenonT(30), <1>2, <1>4, <1>5, <1>7, <1>10, <1>12, <1>13, <1>14, RoleKeepsKeys
  <1>16. KeysFollowRoles'
    <2>1. \A q \in Realms : KeysOf(roles'[q], rotations'[q])
      BY <1>6, <1>8, <1>15, ZenonT(30) DEF ls
    <2> QED
      BY <2>1, KeysByRealmAgain, Zenon
  <1>17. AccessDated'
    <2>1. ASSUME NEW q \in Realms
          PROVE  /\ roles'[q] = <<>> => rotations'[q] = <<>>
                 /\ \A i \in DOMAIN rotations'[q] : \A x \in rotations'[q][i].access :
                        x.ts <= realmTs'[q]
      <3>1. CASE q = r
        BY <1>2, <1>8, <1>9, <1>11, <1>15, <3>1, Zenon DEF ls
      <3>2. CASE q # r
        BY <1>8, <1>9, <3>2, ZenonT(30) DEF KeysInv, AccessDated
      <3> QED
        BY <3>1, <3>2, Zenon
    <2> QED
      BY <2>1, Zenon DEF AccessDated
  <1> QED
    BY <1>16, <1>17, Zenon

LEMMA ShareKeepsKeys ==
    ASSUME KeysInv, TypeOK', NEW t \in Timestamps, NEW a \in devices, NEW r \in Realms, NEW u \in Users,
           NEW role \in RealmRoles, NEW k \in KeyIndexes, Share(a, r, u, role, k, t)
    PROVE  AccessDated' /\ KeysFollowRoles'
  <1> DEFINE y == [user |-> u, ts |-> t]
  <1>1. TypeOK /\ role \in Roles /\ role # "NONE"
    BY Zenon DEF KeysInv, RealmInv, VlobInv, Roles, RealmRoles
  <1>2. a.id \in Devices
    BY <1>1, AuthorType, Zenon
  <1>3. /\ rotations' = [rotations EXCEPT ![r][k].access = @ \cup {y}]
        /\ k = LastKey(r) /\ k # 0 /\ AddRole(r, u, role, t, a.id) /\ t > realmTs[r]
    BY Zenon DEF Share, InsertShare, ShareRoleCheck, NewerThanTopics
  <1>4. /\ rotations \in [Realms -> Seq(RotationCerts)] /\ k \in DOMAIN rotations[r]
        /\ rotations' \in [Realms -> Seq(RotationCerts)]
    BY <1>1, <1>3, SMTT(20) DEF TypeOK, LastKey
  <1>5. rotations[r][k] \in RotationCerts
    BY <1>4
  <1>6. DOMAIN rotations[r][k] = {"access", "ts", "author"}
    BY <1>5, Zenon DEF RotationCerts
  <1>7. y.user = u /\ y.ts = t
    BY Zenon
  <1> HIDE DEF y
  <1>8. /\ \A q \in Realms : q # r => rotations'[q] = rotations[q]
        /\ DOMAIN rotations'[r] = DOMAIN rotations[r]
        /\ \A i \in DOMAIN rotations[r] : i # k => rotations'[r][i] = rotations[r][i]
        /\ rotations'[r][k].access = rotations[r][k].access \cup {y}
    BY <1>3, <1>4, <1>6, Zenon
  <1>9. Len(rotations'[r]) = Len(rotations[r])
    BY <1>4, <1>8
  <1>10. /\ \A i \in DOMAIN rotations[r] : rotations[r][i].access \subseteq rotations'[r][i].access
         /\ \A i \in DOMAIN rotations[r] : \A x \in rotations'[r][i].access :
              x \in rotations[r][i].access \/ (x.user = u /\ x.ts = t /\ role # "NONE")
    BY <1>1, <1>7, <1>8, Zenon
  <1>11. \E x \in rotations'[r][LastKey(r)].access : x.user = u
    BY <1>3, <1>7, <1>8, Zenon
  <1>12. LastKey(r) # 0
    BY <1>3, Zenon
  <1> QED
    BY <1>1, <1>2, <1>3, <1>4, <1>8, <1>9, <1>10, <1>11, <1>12, AddRoleKeepsKeys, ZenonT(30)

LEMMA UnshareKeepsKeys ==
    ASSUME KeysInv, NEW t \in Timestamps, NEW a \in devices, NEW r \in Realms, NEW u \in Users,
           Unshare(a, r, u, t)
    PROVE  AccessDated' /\ KeysFollowRoles'
  <1>1. TypeOK /\ "NONE" \in Roles
    BY Zenon DEF KeysInv, RealmInv, VlobInv, Roles
  <1>2. a.id \in Devices
    BY <1>1, AuthorType, Zenon
  <1>3. /\ rotations' = rotations /\ AddRole(r, u, "NONE", t, a.id) /\ t > realmTs[r]
        /\ u # a.user /\ RoleChangeCheck(a, r, u, "NONE")
    BY Zenon DEF Unshare, UnshareCheck, InsertRole, NewerThanTopics
  <1>4. roles[r] \in Seq(RoleCerts) /\ rotations \in [Realms -> Seq(RotationCerts)]
    BY <1>1, Zenon DEF TypeOK
  <1>5. CurrentRole(roles[r], u) # "NONE" /\ CurrentRole(roles[r], a.user) # "NONE"
    BY <1>3, Zenon DEF RoleChangeCheck, NeededRoles, Administrators
  <1>6. PICK i \in DOMAIN roles[r] : roles[r][i].user = u
    BY <1>5, RoleHasCert, Zenon
  <1>7. PICK j \in DOMAIN roles[r] : roles[r][j].user = a.user
    BY <1>5, RoleHasCert, Zenon
  <1>8. Len(roles[r]) > 1
    BY <1>3, <1>4, <1>6, <1>7
  <1>9. LastKey(r) # 0
    BY <1>4, <1>8 DEF KeysInv, KeysFollowRoles
  <1> QED
    BY <1>1, <1>2, <1>3, <1>4, <1>9, AddRoleKeepsKeys, Zenon

LEMMA CreateRealmKeepsKeys ==
    ASSUME KeysInv, NEW t \in Timestamps, NEW a \in devices, NEW r \in Realms, CreateRealm(a, r, t)
    PROVE  AccessDated' /\ KeysFollowRoles'
  <1>1. TypeOK /\ "OWNER" \in Roles
    BY Zenon DEF KeysInv, RealmInv, VlobInv, Roles, RealmRoles
  <1>2. a.id \in Devices /\ a.user \in Users
    BY <1>1, AuthorType, Zenon
  <1>3. /\ rotations' = rotations /\ AddRole(r, a.user, "OWNER", t, a.id) /\ t > realmTs[r]
        /\ ~RealmExists(r) /\ rotations \in [Realms -> Seq(RotationCerts)]
    BY <1>1, Zenon DEF CreateRealm, CreateRealmCheck, InsertRole, NewerThanTopics, TypeOK
  <1>4. LastKey(r) = 0
    BY <1>3 DEF KeysInv, AccessDated, RealmExists, LastKey
  <1> QED
    BY <1>1, <1>2, <1>3, <1>4, AddRoleKeepsKeys, Zenon

LEMMA RotateKeepsKeys ==
    ASSUME KeysInv, NEW a \in devices, NEW r \in Realms, NEW k \in KeyIndexes,
           NEW recipients \in SUBSET Users, NEW t \in Timestamps, RotateKey(a, r, k, recipients, t)
    PROVE  AccessDated' /\ KeysFollowRoles'
  <1> DEFINE access == {[user |-> u, ts |-> t] : u \in recipients}
             c == [access |-> access, ts |-> t, author |-> a.id]
             ks == rotations[r]
             ls == Append(ks, c)
             rs == roles[r]
  <1>1. TypeOK /\ RealmInv
    BY Zenon DEF KeysInv, RealmInv, VlobInv
  <1>2. a.id \in Devices
    BY <1>1, AuthorType, Zenon
  <1>3. c \in RotationCerts /\ c.access = access
    BY <1>2 DEF RotationCerts, KeyAccess
  <1>4. /\ rotations' = [rotations EXCEPT ![r] = ls] /\ realmTs' = [realmTs EXCEPT ![r] = t]
        /\ roles' = roles /\ recipients = Participants(rs) /\ t > realmTs[r] /\ RealmExists(r)
    BY Zenon DEF RotateKey, RotateKeyCheck, InsertRotation, NewerThanTopics, AuthorCheck
  <1>5. /\ roles \in [Realms -> Seq(RoleCerts)] /\ rotations \in [Realms -> Seq(RotationCerts)]
        /\ realmTs \in [Realms -> Nat] /\ t \in Nat
    BY <1>1, TimestampsAssumption, Zenon DEF TypeOK
  <1>6. rs \in Seq(RoleCerts) /\ Ordered(rs) /\ \A i \in DOMAIN rs : rs[i].ts <= realmTs[r]
    BY <1>1, RealmDates, Zenon
  <1>7. \A i \in DOMAIN rs : rs[i].ts <= t
    <2>1. \A i \in DOMAIN rs : rs[i].ts \in Nat
      BY <1>6, RoleTimestamps, Zenon
    <2>2. realmTs[r] \in Nat
      BY <1>5, Zenon
    <2> HIDE DEF rs
    <2> QED
      BY <1>4, <1>5, <1>6, <2>1, <2>2
  <1>8. \A u : RoleAt(rs, u, t) = CurrentRole(rs, u)
    BY <1>5, <1>6, <1>7, RoleAtEnd, Zenon
  <1>9. \A x \in access : x.ts = t /\ x.user \in Participants(rs)
    BY <1>4
  <1>10. ASSUME NEW u \in Participants(rs) PROVE \E x \in access : x.user = u
    <2>1. [user |-> u, ts |-> t] \in access
      BY <1>4, Zenon
    <2> QED
      BY <2>1, ZenonT(30)
  <1>11. KeysOf(rs, ks)
    BY <1>5, KeysByRealm, Zenon DEF KeysInv
  <1>12. \A q \in Realms : KeysOf(roles[q], rotations[q])
    BY <1>5, KeysByRealm, Zenon DEF KeysInv
  <1>13. ks \in Seq(RotationCerts)
    BY <1>5, Zenon
  <1> HIDE DEF access, c, ks, rs
  <1>14. /\ DOMAIN ls = DOMAIN ks \cup {Len(ks) + 1} /\ ls[Len(ks) + 1] = c /\ Len(ls) = Len(ks) + 1
         /\ \A i \in DOMAIN ks : ls[i] = ks[i]
    BY <1>3, <1>13, SMTT(30)
  <1>15. Len(ls) # 0 /\ ls # <<>>
    BY <1>13, <1>14
  <1> HIDE DEF ls
  <1>16. KeysOf(rs, ls)
    <2>1. \A u \in Participants(rs) : \E x \in ls[Len(ls)].access : x.user = u
      BY <1>3, <1>10, <1>14, Zenon
    <2>2. ASSUME NEW i \in DOMAIN ls, NEW x \in ls[i].access PROVE RoleAt(rs, x.user, x.ts) # "NONE"
      <3>1. CASE i \in DOMAIN ks
        BY <1>11, <1>14, <3>1, Zenon DEF KeysOf
      <3>2. CASE i = Len(ks) + 1
        <4>1. x \in access
          BY <1>3, <1>14, <3>2, Zenon
        <4> QED
          BY <1>8, <1>9, <4>1, Zenon DEF Participants
      <3> QED
        BY <1>14, <3>1, <3>2, Zenon
    <2> QED
      BY <1>15, <2>1, <2>2, Zenon DEF KeysOf
  <1>17. KeysFollowRoles'
    <2>1. \A q \in Realms : KeysOf(roles'[q], rotations'[q])
      BY <1>4, <1>5, <1>12, <1>16, Zenon DEF rs
    <2> QED
      BY <2>1, KeysByRealmAgain, Zenon
  <1>18. AccessDated'
    <2>1. ASSUME NEW q \in Realms
          PROVE  /\ roles'[q] = <<>> => rotations'[q] = <<>>
                 /\ \A i \in DOMAIN rotations'[q] : \A x \in rotations'[q][i].access :
                        x.ts <= realmTs'[q]
      <3>1. CASE q = r
        <4>1. roles'[r] # <<>> /\ realmTs'[r] = t /\ rotations'[r] = ls
          BY <1>4, <1>5, Zenon DEF RealmExists
        <4>2. ASSUME NEW i \in DOMAIN ls, NEW x \in ls[i].access PROVE x.ts <= t
          <5>1. CASE i \in DOMAIN ks
            <6>1. x \in ks[i].access
              BY <1>14, <5>1, Zenon
            <6>2. x.ts \in Nat
              BY <1>13, <5>1, <6>1, AccessTypes, Zenon
            <6>3. x.ts <= realmTs[r]
              BY <5>1, <6>1, Zenon DEF KeysInv, AccessDated, ks
            <6> QED
              BY <1>4, <1>5, <6>2, <6>3
          <5>2. CASE i = Len(ks) + 1
            BY <1>3, <1>5, <1>9, <1>14, <5>2
          <5> QED
            BY <1>14, <5>1, <5>2, Zenon
        <4> QED
          BY <3>1, <4>1, <4>2, Zenon
      <3>2. CASE q # r
        BY <1>4, <1>5, <3>2, Zenon DEF KeysInv, AccessDated
      <3> QED
        BY <3>1, <3>2, Zenon
    <2> QED
      BY <2>1, Zenon DEF AccessDated
  <1> QED
    BY <1>17, <1>18, Zenon

LEMMA RenameKeepsKeys ==
    ASSUME KeysInv, NEW a \in devices, NEW r \in Realms, NEW k \in KeyIndexes, NEW first,
           NEW t \in Timestamps, Rename(a, r, k, first, t)
    PROVE  AccessDated' /\ KeysFollowRoles'
  <1>1. TypeOK
    BY Zenon DEF KeysInv, RealmInv, VlobInv
  <1>2. /\ UNCHANGED <<roles, rotations>> /\ realmTs' = [realmTs EXCEPT ![r] = t] /\ t > realmTs[r]
        /\ rotations \in [Realms -> Seq(RotationCerts)] /\ realmTs \in [Realms -> Nat] /\ t \in Nat
    BY <1>1, TimestampsAssumption, Zenon DEF Rename, InsertName, NewerThanTopics, TypeOK
  <1>3. KeysFollowRoles'
    <2>1. roles \in [Realms -> Seq(RoleCerts)]
      BY <1>1, Zenon DEF TypeOK
    <2>2. \A q \in Realms : KeysOf(roles[q], rotations[q])
      BY <1>2, <2>1, KeysByRealm, ZenonT(30) DEF KeysInv
    <2>3. \A q \in Realms : KeysOf(roles'[q], rotations'[q])
      BY <1>2, <2>2, Zenon
    <2> QED
      BY <2>3, KeysByRealmAgain, Zenon
  <1>4. ASSUME NEW q \in Realms, NEW i \in DOMAIN rotations[q], NEW x \in rotations[q][i].access
        PROVE  x.ts <= realmTs'[q]
    <2>1. x.ts \in Nat
      BY <1>2, AccessTypes, Zenon
    <2>2. x.ts <= realmTs[q]
      BY Zenon DEF KeysInv, AccessDated
    <2> QED
      BY <1>2, <2>1, <2>2
  <1>5. AccessDated'
    BY <1>2, <1>4, Zenon DEF KeysInv, AccessDated
  <1> QED
    BY <1>3, <1>5, Zenon

LEMMA KeysInvIsInductive == KeysInv /\ [Next]_vars => KeysInv'
  <1> SUFFICES ASSUME KeysInv, [Next]_vars PROVE KeysInv'
    BY Zenon
  <1>1. RealmInv'
    BY RealmInvIsInductive, Zenon DEF KeysInv
  <1>2. TypeOK'
    BY <1>1, Zenon DEF RealmInv, VlobInv
  <1>3. ASSUME UNCHANGED realmVars PROVE AccessDated' /\ KeysFollowRoles'
    BY <1>3 DEF KeysInv, AccessDated, KeysFollowRoles, LastKey, Participants, ContentsOf, realmVars
  <1>4. CASE CommonNext
    BY <1>1, <1>3, <1>4, DevicesRemainDated, Zenon DEF KeysInv, RealmInv
  <1>5. CASE RealmNext
    <2>1. AccessDated' /\ KeysFollowRoles'
      BY <1>2, <1>5, CreateRealmKeepsKeys, ShareKeepsKeys, UnshareKeepsKeys, RenameKeepsKeys,
         RotateKeepsKeys, ZenonT(30) DEF RealmNext
    <2> QED
      BY <1>1, <2>1, Zenon DEF KeysInv
  <1>6. CASE VlobNext
    BY <1>1, <1>3, <1>6 DEF KeysInv, VlobNext, CreateVlob, UpdateVlob, InsertVlob
  <1>7. CASE UNCHANGED vars
    BY <1>1, <1>3, <1>7, Zenon DEF KeysInv, vars, realmVars
  <1> QED
    BY <1>4, <1>5, <1>6, <1>7, Zenon DEF Next

\* Whoever shares, unshares and rotates keys in whatever order, every participant of
\* a realm has access to its last key, and a key only was given to users who had a
\* role at that time.
THEOREM KeysAlwaysFollowRoles == Spec => []KeysFollowRoles
  <1>1. Init => KeysInv
    <2> SUFFICES ASSUME Init PROVE KeysInv
      BY Zenon
    <2>1. \A r \in Realms : roles[r] = <<>> /\ rotations[r] = <<>>
      BY Zenon DEF Init
    <2> QED
      BY <2>1, InitRealmInv DEF KeysInv, AccessDated, KeysFollowRoles, LastKey, ContentsOf
  <1>2. KeysInv => KeysFollowRoles
    BY Zenon DEF KeysInv
  <1> QED
    BY <1>1, <1>2, KeysInvIsInductive, PTL DEF Spec

(***************************************************************************)
(* Revocations.                                                            *)
(***************************************************************************)

\* No two device certificates have the same device.
DevicesUnique == \A c, e \in devices : c.id = e.id => c = e

\* Whoever has role certificates has a last one.
LastExists(rs) == \A i \in DOMAIN rs : \E j \in DOMAIN rs : IsLastFor(rs, rs[i].user, j)

\* The authors and timestamps of the names, key rotations and vlobs of a realm.
SignedIn(ns, ks, vs) ==
    {<<ns[i].author, ns[i].ts>> : i \in DOMAIN ns}
    \cup {<<ks[i].author, ks[i].ts>> : i \in DOMAIN ks}
    \cup UNION {{<<vs[v][i].author, vs[v][i].ts>> : i \in DOMAIN vs[v]} : v \in Vlobs}

Signed(r) == SignedIn(renames[r], rotations[r], vlobs[r])

RevocationInv ==
    /\ RealmInv
    /\ DevicesUnique
    /\ \A r \in Realms : LastExists(roles[r])
    /\ RevocationIsCausal

LEMMA SignedForms ==
    ASSUME NEW ns, NEW ks, NEW vs, NEW p
    PROVE  p \in SignedIn(ns, ks, vs) <=>
             \/ \E i \in DOMAIN ns : p = <<ns[i].author, ns[i].ts>>
             \/ \E i \in DOMAIN ks : p = <<ks[i].author, ks[i].ts>>
             \/ \E v \in Vlobs : \E i \in DOMAIN vs[v] : p = <<vs[v][i].author, vs[v][i].ts>>
  <1> DEFINE A == {<<ns[i].author, ns[i].ts>> : i \in DOMAIN ns}
             B == {<<ks[i].author, ks[i].ts>> : i \in DOMAIN ks}
             D(v) == {<<vs[v][i].author, vs[v][i].ts>> : i \in DOMAIN vs[v]}
             C == UNION {D(v) : v \in Vlobs}
  <1>1. p \in A <=> \E i \in DOMAIN ns : p = <<ns[i].author, ns[i].ts>>
    BY Zenon
  <1>2. p \in B <=> \E i \in DOMAIN ks : p = <<ks[i].author, ks[i].ts>>
    BY Zenon
  <1>3. \A v : p \in D(v) <=> \E i \in DOMAIN vs[v] : p = <<vs[v][i].author, vs[v][i].ts>>
    BY Zenon
  <1>4. SignedIn(ns, ks, vs) = A \cup B \cup C
    BY Zenon DEF SignedIn
  <1> HIDE DEF A, B, D
  <1>5. p \in C <=> \E v \in Vlobs : p \in D(v)
    BY Zenon
  <1> HIDE DEF C
  <1> QED
    BY <1>1, <1>2, <1>3, <1>4, <1>5, Zenon

\* Nothing is signed but what was, and what b signs at t.
LEMMA SignedGrows ==
    ASSUME NEW ns, NEW ks, NEW vs, NEW ms, NEW ls, NEW ws, NEW b, NEW t,
           \A i \in DOMAIN ms :
              \/ i \in DOMAIN ns /\ ms[i].author = ns[i].author /\ ms[i].ts = ns[i].ts
              \/ ms[i].author = b /\ ms[i].ts = t,
           \A i \in DOMAIN ls :
              \/ i \in DOMAIN ks /\ ls[i].author = ks[i].author /\ ls[i].ts = ks[i].ts
              \/ ls[i].author = b /\ ls[i].ts = t,
           \A v \in Vlobs : \A i \in DOMAIN ws[v] :
              \/ i \in DOMAIN vs[v] /\ ws[v][i].author = vs[v][i].author /\ ws[v][i].ts = vs[v][i].ts
              \/ ws[v][i].author = b /\ ws[v][i].ts = t
    PROVE  SignedIn(ms, ls, ws) \subseteq SignedIn(ns, ks, vs) \cup {<<b, t>>}
  <1> SUFFICES ASSUME NEW p \in SignedIn(ms, ls, ws), p # <<b, t>> PROVE p \in SignedIn(ns, ks, vs)
    BY Zenon
  <1>1. CASE \E i \in DOMAIN ms : p = <<ms[i].author, ms[i].ts>>
    BY <1>1, SignedForms, Zenon
  <1>2. CASE \E i \in DOMAIN ls : p = <<ls[i].author, ls[i].ts>>
    BY <1>2, SignedForms, ZenonT(30)
  <1>3. CASE \E v \in Vlobs : \E i \in DOMAIN ws[v] : p = <<ws[v][i].author, ws[v][i].ts>>
    BY <1>3, SignedForms, ZenonT(30)
  <1>4. \/ \E i \in DOMAIN ms : p = <<ms[i].author, ms[i].ts>>
        \/ \E i \in DOMAIN ls : p = <<ls[i].author, ls[i].ts>>
        \/ \E v \in Vlobs : \E i \in DOMAIN ws[v] : p = <<ws[v][i].author, ws[v][i].ts>>
    BY SignedForms, SMTT(20)
  <1> QED
    BY <1>1, <1>2, <1>3, <1>4, Zenon

LEMMA SignedAfter ==
    ASSUME NEW q \in Realms, NEW b, NEW t,
           \/ renames'[q] = renames[q]
           \/ \A i \in DOMAIN renames'[q] :
                \/ i \in DOMAIN renames[q] /\ renames'[q][i] = renames[q][i]
                \/ renames'[q][i].author = b /\ renames'[q][i].ts = t,
           \A i \in DOMAIN rotations'[q] :
              \/ /\ i \in DOMAIN rotations[q] /\ rotations'[q][i].author = rotations[q][i].author
                 /\ rotations'[q][i].ts = rotations[q][i].ts
              \/ rotations'[q][i].author = b /\ rotations'[q][i].ts = t,
           \/ vlobs'[q] = vlobs[q]
           \/ \A v \in Vlobs : \A i \in DOMAIN vlobs'[q][v] :
                \/ i \in DOMAIN vlobs[q][v] /\ vlobs'[q][v][i] = vlobs[q][v][i]
                \/ vlobs'[q][v][i].author = b /\ vlobs'[q][v][i].ts = t
    PROVE  Signed(q)' \subseteq Signed(q) \cup {<<b, t>>}
  <1> DEFINE ns == renames[q]
             ks == rotations[q]
             vs == vlobs[q]
             ms == renames'[q]
             ls == rotations'[q]
             ws == vlobs'[q]
  <1>1. \A i \in DOMAIN ms :
           \/ i \in DOMAIN ns /\ ms[i].author = ns[i].author /\ ms[i].ts = ns[i].ts
           \/ ms[i].author = b /\ ms[i].ts = t
    BY Zenon
  <1>2. \A i \in DOMAIN ls :
           \/ i \in DOMAIN ks /\ ls[i].author = ks[i].author /\ ls[i].ts = ks[i].ts
           \/ ls[i].author = b /\ ls[i].ts = t
    BY Zenon
  <1>3. \A v \in Vlobs : \A i \in DOMAIN ws[v] :
           \/ i \in DOMAIN vs[v] /\ ws[v][i].author = vs[v][i].author /\ ws[v][i].ts = vs[v][i].ts
           \/ ws[v][i].author = b /\ ws[v][i].ts = t
    BY Zenon
  <1>4. Signed(q)' = SignedIn(ms, ls, ws) /\ Signed(q) = SignedIn(ns, ks, vs)
    BY Zenon DEF Signed
  <1> HIDE DEF ns, ks, vs, ms, ls, ws
  <1>5. SignedIn(ms, ls, ws) \subseteq SignedIn(ns, ks, vs) \cup {<<b, t>>}
    BY <1>1, <1>2, <1>3, SignedGrows, ZenonT(30)
  <1> QED
    BY <1>4, <1>5, Zenon

LEMMA CausalSigned ==
    ASSUME RevocationIsCausal, NEW x \in revocations, NEW r \in Realms, ~Left(roles[r], x.user)
    PROVE  /\ \A i \in DOMAIN roles[r] : roles[r][i].user = x.user => roles[r][i].ts < x.ts
           /\ \A p \in Signed(r) : KnownDevice(p[1], x.user, p[2]) => p[2] < x.ts
  <1>1. \A c \in ContentsOf(roles[r]) : c.user = x.user => c.ts < x.ts
    BY Zenon DEF RevocationIsCausal
  <1>2. \A c \in ContentsOf(renames[r]) \cup ContentsOf(rotations[r])
                        \cup UNION {ContentsOf(vlobs[r][v]) : v \in Vlobs} :
                KnownDevice(c.author, x.user, c.ts) => c.ts < x.ts
    BY Zenon DEF RevocationIsCausal
  <1>3. ASSUME NEW i \in DOMAIN renames[r], KnownDevice(renames[r][i].author, x.user, renames[r][i].ts)
        PROVE  renames[r][i].ts < x.ts
    BY <1>2, <1>3, Zenon DEF ContentsOf
  <1>4. ASSUME NEW i \in DOMAIN rotations[r],
               KnownDevice(rotations[r][i].author, x.user, rotations[r][i].ts)
        PROVE  rotations[r][i].ts < x.ts
    BY <1>2, <1>4, Zenon DEF ContentsOf
  <1>5. ASSUME NEW v \in Vlobs, NEW i \in DOMAIN vlobs[r][v],
               KnownDevice(vlobs[r][v][i].author, x.user, vlobs[r][v][i].ts)
        PROVE  vlobs[r][v][i].ts < x.ts
    BY <1>2, <1>5 DEF ContentsOf
  <1>6. ASSUME NEW p \in Signed(r), KnownDevice(p[1], x.user, p[2]) PROVE p[2] < x.ts
    BY <1>3, <1>4, <1>5, <1>6, SMTT(20) DEF Signed, SignedIn
  <1> QED
    BY <1>1, <1>6, Zenon DEF ContentsOf

\* The same after a step.
LEMMA CausalAgain ==
    ASSUME \A x \in revocations', r \in Realms :
              ~Left(roles'[r], x.user) =>
                /\ \A i \in DOMAIN roles'[r] : roles'[r][i].user = x.user => roles'[r][i].ts < x.ts
                /\ \A p \in Signed(r)' :
                      (\E e \in devices' : e.id = p[1] /\ e.user = x.user /\ e.ts <= p[2]) => p[2] < x.ts
    PROVE  RevocationIsCausal'
  <1> SUFFICES ASSUME NEW x \in revocations', NEW r \in Realms, ~Left(roles'[r], x.user)
               PROVE  /\ \A c \in ContentsOf(roles'[r]) : c.user = x.user => c.ts < x.ts
                      /\ \A c \in ContentsOf(renames'[r]) \cup ContentsOf(rotations'[r])
                                    \cup UNION {ContentsOf(vlobs'[r][v]) : v \in Vlobs} :
                            (\E e \in devices' : e.id = c.author /\ e.user = x.user /\ e.ts <= c.ts)
                                => c.ts < x.ts
    BY Zenon DEF RevocationIsCausal, KnownDevice, Left, ContentsOf
  <1>1. \A c \in ContentsOf(roles'[r]) : c.user = x.user => c.ts < x.ts
    BY Zenon DEF ContentsOf
  <1>2. ASSUME NEW c \in ContentsOf(renames'[r]) \cup ContentsOf(rotations'[r])
                            \cup UNION {ContentsOf(vlobs'[r][v]) : v \in Vlobs},
               \E e \in devices' : e.id = c.author /\ e.user = x.user /\ e.ts <= c.ts
        PROVE  c.ts < x.ts
    <2>1. <<c.author, c.ts>> \in Signed(r)'
      BY <1>2, SMTT(20) DEF Signed, SignedIn, ContentsOf
    <2> QED
      BY <1>2, <2>1, ZenonT(30)
  <1> QED
    BY <1>1, <1>2, Zenon

LEMMA RoleAtHasCert ==
    ASSUME NEW rs, NEW u, NEW t, RoleAt(rs, u, t) # "NONE"
    PROVE  \E i \in DOMAIN rs : rs[i].user = u
  BY Zenon DEF RoleAt, IsNewestFor

\* Whatever is signed is not newer than the timestamps of the realm, and its author
\* is a device of a user who has been given a role in the realm.
LEMMA SignedByParticipants ==
    ASSUME RealmInv, NEW r \in Realms, NEW p \in Signed(r)
    PROVE  /\ p[2] \in Nat /\ (p[2] <= realmTs[r] \/ p[2] <= lastVlob[r])
           /\ \E e \in devices : e.id = p[1] /\ \E i \in DOMAIN roles[r] : roles[r][i].user = e.user
  <1>1. ASSUME NEW author \in Users, NEW d, NEW s, NEW t, KnownDevice(d, author, s),
               RoleAt(roles[r], author, t) # "NONE"
        PROVE  \E e \in devices : e.id = d /\ \E i \in DOMAIN roles[r] : roles[r][i].user = e.user
    <2>1. \E i \in DOMAIN roles[r] : roles[r][i].user = author
      BY <1>1, RoleAtHasCert, Zenon
    <2> QED
      BY <1>1, <2>1, Zenon DEF KnownDevice
  <1>2. CASE \E i \in DOMAIN renames[r] : p = <<renames[r][i].author, renames[r][i].ts>>
    <2>1. PICK i \in DOMAIN renames[r] : p = <<renames[r][i].author, renames[r][i].ts>>
      BY <1>2, Zenon
    <2>2. OwnerCertAcceptable(roles[r], renames[r][i])
      BY Zenon DEF RealmInv, RealmCertsAcceptable, ContentsOf
    <2>3. PICK u \in Users : KnownDevice(p[1], u, renames[r][i].ts) /\ RoleAt(roles[r], u, renames[r][i].ts - 1) = "OWNER"
      BY <2>1, <2>2, Zenon DEF OwnerCertAcceptable
    <2>4. \E e \in devices : e.id = p[1] /\ \E j \in DOMAIN roles[r] : roles[r][j].user = e.user
      BY <1>1, <2>3
    <2>5. p[2] \in Nat /\ p[2] <= realmTs[r]
      BY <2>1, RealmDates, Zenon
    <2> QED
      BY <2>4, <2>5, Zenon
  <1>3. CASE \E i \in DOMAIN rotations[r] : p = <<rotations[r][i].author, rotations[r][i].ts>>
    <2>1. PICK i \in DOMAIN rotations[r] : p = <<rotations[r][i].author, rotations[r][i].ts>>
      BY <1>3, Zenon
    <2>2. OwnerCertAcceptable(roles[r], rotations[r][i])
      BY Zenon DEF RealmInv, RealmCertsAcceptable, ContentsOf
    <2>3. PICK u \in Users : KnownDevice(p[1], u, rotations[r][i].ts) /\ RoleAt(roles[r], u, rotations[r][i].ts - 1) = "OWNER"
      BY <2>1, <2>2, Zenon DEF OwnerCertAcceptable
    <2>4. \E e \in devices : e.id = p[1] /\ \E j \in DOMAIN roles[r] : roles[r][j].user = e.user
      BY <1>1, <2>3
    <2>5. p[2] \in Nat /\ p[2] <= realmTs[r]
      BY <2>1, RealmDates, Zenon
    <2> QED
      BY <2>4, <2>5, Zenon
  <1>4. CASE \E v \in Vlobs : \E i \in DOMAIN vlobs[r][v] :
                p = <<vlobs[r][v][i].author, vlobs[r][v][i].ts>>
    <2> PICK v \in Vlobs : \E i \in DOMAIN vlobs[r][v] :
                p = <<vlobs[r][v][i].author, vlobs[r][v][i].ts>>
      BY <1>4, Zenon
    <2>1. PICK i \in DOMAIN vlobs[r][v] : p = <<vlobs[r][v][i].author, vlobs[r][v][i].ts>>
      BY Zenon
    <2>2. AtomAcceptable(roles[r], vlobs[r][v][i])
      BY Zenon DEF RealmInv, VlobInv, VlobsAcceptable, ContentsOf
    <2>3. vlobs[r][v][i].ts <= lastVlob[r]
      BY Zenon DEF RealmInv, VlobInv, VlobsDated
    <2>4. vlobs[r][v] \in Seq(Atoms)
      BY ZenonT(30) DEF RealmInv, VlobInv, TypeOK
    <2>5. vlobs[r][v][i] \in Atoms
      BY <2>4
    <2>6. vlobs[r][v][i].ts \in Nat
      BY <2>5, TimestampsAssumption, ZenonT(30) DEF Atoms
    <2>7. PICK u \in Users : /\ KnownDevice(p[1], u, vlobs[r][v][i].ts)
                             /\ RoleAt(roles[r], u, vlobs[r][v][i].ts) \in Writers
      BY <2>1, <2>2, Zenon DEF AtomAcceptable
    <2>8. \E e \in devices : e.id = p[1] /\ \E j \in DOMAIN roles[r] : roles[r][j].user = e.user
      BY <1>1, <2>7, ZenonT(40) DEF Writers
    <2>9. p[2] \in Nat /\ p[2] <= lastVlob[r]
      BY <2>1, <2>3, <2>6, Zenon
    <2> QED
      BY <2>8, <2>9, Zenon
  <1> QED
    BY <1>2, <1>3, <1>4, Zenon DEF Signed, SignedIn

\* A step of a realm, by the device of a user who is not revoked: what it signs is not
\* signed by a revoked user, and the role it adds, if any, is about a user who is not
\* revoked, or ends the participation of the user.
LEMMA DeedKeepsCausal ==
    ASSUME RevocationInv, UNCHANGED commonVars, NEW a \in devices, NEW t, ~IsRevoked(a.user),
           \A q \in Realms : Signed(q)' \subseteq Signed(q) \cup {<<a.id, t>>},
           \A q \in Realms : \A i \in DOMAIN roles[q] :
              i \in DOMAIN roles'[q] /\ roles'[q][i] = roles[q][i],
           \A q \in Realms : \A i \in DOMAIN roles'[q] :
              \/ i \in DOMAIN roles[q]
              \/ ~IsRevoked(roles'[q][i].user)
              \/ roles'[q][i].role = "NONE"
    PROVE  RevocationIsCausal'
  <1>1. devices' = devices /\ revocations' = revocations
    BY Zenon DEF commonVars
  <1>2. ASSUME NEW x \in revocations, NEW q \in Realms, ~Left(roles'[q], x.user)
        PROVE  /\ \A i \in DOMAIN roles'[q] : roles'[q][i].user = x.user => roles'[q][i].ts < x.ts
               /\ \A p \in Signed(q)' :
                      (\E e \in devices : e.id = p[1] /\ e.user = x.user /\ e.ts <= p[2]) => p[2] < x.ts
    <2>1. ~Left(roles[q], x.user)
      BY <1>2, Zenon DEF Left
    <2>2. IsRevoked(x.user)
      BY Zenon DEF IsRevoked
    <2>3. ASSUME NEW i \in DOMAIN roles'[q], roles'[q][i].user = x.user PROVE roles'[q][i].ts < x.ts
      <3>1. i \in DOMAIN roles[q]
        BY <1>2, <2>2, <2>3, Zenon DEF Left
      <3> QED
        BY <2>1, <2>3, <3>1, CausalSigned, Zenon DEF RevocationInv
    <2>4. ASSUME NEW p \in Signed(q)', NEW e \in devices, e.id = p[1], e.user = x.user, e.ts <= p[2]
          PROVE  p[2] < x.ts
      <3>1. CASE p \in Signed(q)
        BY <2>1, <2>4, <3>1, CausalSigned, Zenon DEF RevocationInv, KnownDevice
      <3>2. CASE p = <<a.id, t>>
        <4>1. e = a
          BY <2>4, <3>2, Zenon DEF RevocationInv, DevicesUnique
        <4> QED
          BY <2>2, <2>4, <4>1, Zenon
      <3> QED
        BY <3>1, <3>2, Zenon
    <2> QED
      BY <2>3, <2>4, Zenon
  <1> QED
    BY <1>1, <1>2, CausalAgain, Zenon

\* A new device signed nothing yet.
LEMMA DeviceKeepsCausal ==
    ASSUME RevocationInv, NEW e, devices' = devices \cup {e}, \A c \in devices : c.id # e.id,
           UNCHANGED <<revocations, realmVars, vlobVars>>
    PROVE  DevicesUnique' /\ RevocationIsCausal'
  <1>1. DevicesUnique'
    BY Zenon DEF RevocationInv, DevicesUnique
  <1>2. UNCHANGED <<revocations, roles, renames, rotations, vlobs>>
    BY Zenon DEF realmVars, vlobVars
  <1>3. \A r \in Realms : Signed(r)' = Signed(r)
    BY <1>2 DEF Signed, SignedIn
  <1>4. ASSUME NEW x \in revocations, NEW r \in Realms, ~Left(roles[r], x.user), NEW p \in Signed(r),
               NEW f \in devices', f.id = p[1], f.user = x.user, f.ts <= p[2]
        PROVE  p[2] < x.ts
    <2>1. f \in devices
      BY <1>4, SignedByParticipants, ZenonT(30) DEF RevocationInv
    <2> QED
      BY <1>4, <2>1, CausalSigned, Zenon DEF RevocationInv, KnownDevice
  <1>5. \A x \in revocations, r \in Realms : ~Left(roles[r], x.user) =>
           \A i \in DOMAIN roles[r] : roles[r][i].user = x.user => roles[r][i].ts < x.ts
    BY CausalSigned, Zenon DEF RevocationInv
  <1>6. RevocationIsCausal'
    BY <1>2, <1>3, <1>4, <1>5, CausalAgain, ZenonT(30)
  <1> QED
    BY <1>1, <1>6, Zenon

\* A user without a role who never left has no certificate.
LEMMA NeverHadRole ==
    ASSUME NEW rs \in Seq(RoleCerts), LastExists(rs), NEW u, CurrentRole(rs, u) = "NONE", ~Left(rs, u)
    PROVE  \A i \in DOMAIN rs : rs[i].user # u
  <1> SUFFICES ASSUME NEW i \in DOMAIN rs, rs[i].user = u PROVE FALSE
    BY Zenon
  <1>1. PICK j \in DOMAIN rs : IsLastFor(rs, u, j)
    BY Zenon DEF LastExists
  <1>2. rs[j].role = "NONE"
    BY <1>1, CurrentRoleIs, Zenon
  <1> QED
    BY <1>1, <1>2, Zenon DEF Left, IsLastFor

LEMMA RevokeKeepsCausal ==
    ASSUME RevocationInv, NEW a \in devices, NEW u \in Users, NEW t \in Timestamps, RevokeUser(a, u, t)
    PROVE  RevocationIsCausal'
  <1> DEFINE y == [user |-> u, ts |-> t, author |-> a.id]
  <1>1. /\ revocations' = revocations \cup {y} /\ UNCHANGED <<devices, roles, renames, rotations, vlobs>>
        /\ \A r \in RealmsOf(u) : t > realmTs[r] /\ t > lastVlob[r]
    BY Zenon DEF RevokeUser, InsertRevocation, realmVars, vlobVars
  <1>2. /\ RealmInv /\ TypeOK /\ t \in Nat
        /\ roles \in [Realms -> Seq(RoleCerts)] /\ realmTs \in [Realms -> Nat] /\ lastVlob \in [Realms -> Nat]
    BY TimestampsAssumption, Zenon DEF RevocationInv, RealmInv, VlobInv, TypeOK
  <1>3. \A r \in Realms : Signed(r)' = Signed(r)
    BY <1>1, SMTT(20) DEF Signed, SignedIn
  <1>4. y.user = u /\ y.ts = t
    BY Zenon
  <1> HIDE DEF y
  <1>5. ASSUME NEW r \in Realms, ~Left(roles[r], u)
        PROVE  /\ \A i \in DOMAIN roles[r] : roles[r][i].user = u => roles[r][i].ts < t
               /\ \A p \in Signed(r) : (\E e \in devices : e.id = p[1] /\ e.user = u /\ e.ts <= p[2]) => p[2] < t
    <2>1. CASE r \in RealmsOf(u)
      <3>1. t > realmTs[r] /\ t > lastVlob[r] /\ realmTs[r] \in Nat /\ lastVlob[r] \in Nat
        BY <1>1, <1>2, <2>1, Zenon
      <3>2. \A i \in DOMAIN roles[r] : roles[r][i].ts < t
        BY <1>2, <3>1, RealmDates
      <3>3. ASSUME NEW p \in Signed(r) PROVE p[2] < t
        <4>1. p[2] \in Nat /\ (p[2] <= realmTs[r] \/ p[2] <= lastVlob[r])
          BY <1>2, SignedByParticipants, Zenon
        <4> QED
          BY <1>2, <3>1, <4>1
      <3> QED
        BY <3>2, <3>3, Zenon
    <2>2. CASE r \notin RealmsOf(u)
      <3>1. \A i \in DOMAIN roles[r] : roles[r][i].user # u
        BY <1>2, <1>5, <2>2, NeverHadRole, ZenonT(30) DEF RealmsOf, RevocationInv
      <3>2. ASSUME NEW p \in Signed(r), NEW e \in devices, e.id = p[1], e.user = u PROVE FALSE
        <4>1. PICK f \in devices : f.id = p[1] /\ \E i \in DOMAIN roles[r] : roles[r][i].user = f.user
          BY <1>2, SignedByParticipants, ZenonT(30)
        <4>2. f = e
          BY <3>2, <4>1, Zenon DEF RevocationInv, DevicesUnique
        <4> QED
          BY <3>1, <3>2, <4>1, <4>2, Zenon
      <3> QED
        BY <3>1, <3>2, Zenon
    <2> QED
      BY <2>1, <2>2, Zenon
  <1>6. ASSUME NEW x \in revocations, NEW r \in Realms, ~Left(roles[r], x.user)
        PROVE  /\ \A i \in DOMAIN roles[r] : roles[r][i].user = x.user => roles[r][i].ts < x.ts
               /\ \A p \in Signed(r) :
                      (\E e \in devices : e.id = p[1] /\ e.user = x.user /\ e.ts <= p[2]) => p[2] < x.ts
    BY <1>6, CausalSigned, Zenon DEF RevocationInv, KnownDevice
  <1>7. ASSUME NEW x \in revocations', NEW r \in Realms, ~Left(roles[r], x.user)
        PROVE  /\ \A i \in DOMAIN roles[r] : roles[r][i].user = x.user => roles[r][i].ts < x.ts
               /\ \A p \in Signed(r) :
                      (\E e \in devices : e.id = p[1] /\ e.user = x.user /\ e.ts <= p[2]) => p[2] < x.ts
    <2>1. CASE x \in revocations
      BY <1>6, <1>7, <2>1, Zenon
    <2>2. CASE x = y
      BY <1>4, <1>5, <1>7, <2>2, ZenonT(30)
    <2> QED
      BY <1>1, <2>1, <2>2, Zenon
  <1> QED
    BY <1>1, <1>3, <1>7, CausalAgain, ZenonT(30)

LEMMA LastExistsAppend ==
    ASSUME NEW rs \in Seq(RoleCerts), NEW c \in RoleCerts, LastExists(rs)
    PROVE  LastExists(Append(rs, c))
  <1> DEFINE qs == Append(rs, c)
             last == Len(rs) + 1
  <1>1. /\ DOMAIN qs = DOMAIN rs \cup {last} /\ qs[last] = c
        /\ \A i \in DOMAIN rs : qs[i] = rs[i] /\ i <= last
        /\ last \notin DOMAIN rs /\ last \in Nat
    BY SMTT(30)
  <1> HIDE DEF qs, last
  <1>2. IsLastFor(qs, c.user, last)
    BY <1>1 DEF IsLastFor
  <1>3. ASSUME NEW i \in DOMAIN rs, rs[i].user # c.user PROVE \E j \in DOMAIN qs : IsLastFor(qs, rs[i].user, j)
    <2>1. PICK j \in DOMAIN rs : IsLastFor(rs, rs[i].user, j)
      BY Zenon DEF LastExists
    <2>2. IsLastFor(qs, rs[i].user, j)
      BY <1>1, <1>3, <2>1, Zenon DEF IsLastFor
    <2> QED
      BY <1>1, <2>2, Zenon
  <1>4. ASSUME NEW i \in DOMAIN qs PROVE \E j \in DOMAIN qs : IsLastFor(qs, qs[i].user, j)
    <2>1. CASE qs[i].user = c.user
      BY <1>1, <1>2, <2>1, Zenon
    <2>2. CASE qs[i].user # c.user
      BY <1>1, <1>3, <2>2, Zenon
    <2> QED
      BY <2>1, <2>2, Zenon
  <1> QED
    BY <1>4, Zenon DEF LastExists, qs

\* The role that CreateRealm, Share or Unshare adds.
LEMMA RoleKeepsCausal ==
    ASSUME RevocationInv, NEW r \in Realms, NEW u \in Users, NEW role \in Roles, NEW t \in Timestamps,
           NEW a \in devices, AddRole(r, u, role, t, a.id), UNCHANGED commonVars, UNCHANGED renames,
           UNCHANGED vlobs, SameRotations, ~IsRevoked(a.user), ~IsRevoked(u) \/ role = "NONE"
    PROVE  (\A q \in Realms : LastExists(roles'[q])) /\ RevocationIsCausal'
  <1> DEFINE c == [user |-> u, role |-> role, ts |-> t, author |-> a.id]
             rs == roles[r]
             qs == Append(rs, c)
  <1>1. TypeOK
    BY Zenon DEF RevocationInv, RealmInv, VlobInv
  <1>2. c \in RoleCerts /\ c.user = u /\ c.role = role
    BY <1>1, AuthorType, Zenon DEF RoleCerts
  <1>3. roles \in [Realms -> Seq(RoleCerts)] /\ rs \in Seq(RoleCerts)
    BY <1>1, Zenon DEF TypeOK
  <1>4. roles' = [roles EXCEPT ![r] = qs]
    BY Zenon DEF AddRole
  <1> HIDE DEF c, rs
  <1>5. /\ DOMAIN qs = DOMAIN rs \cup {Len(rs) + 1} /\ qs[Len(rs) + 1] = c
        /\ \A i \in DOMAIN rs : qs[i] = rs[i]
    BY <1>2, <1>3, SMTT(30)
  <1>6. LastExists(qs)
    BY <1>2, <1>3, LastExistsAppend, Zenon DEF RevocationInv, rs
  <1> HIDE DEF qs
  <1>7. roles'[r] = qs /\ \A q \in Realms : q # r => roles'[q] = roles[q]
    BY <1>3, <1>4, Zenon
  <1>8. \A q \in Realms : LastExists(roles'[q])
    BY <1>6, <1>7, Zenon DEF RevocationInv
  <1>9. \A q \in Realms : \A i \in DOMAIN roles[q] : i \in DOMAIN roles'[q] /\ roles'[q][i] = roles[q][i]
    BY <1>5, <1>7, Zenon DEF rs
  <1>10. \A q \in Realms : \A i \in DOMAIN roles'[q] :
              \/ i \in DOMAIN roles[q]
              \/ ~IsRevoked(roles'[q][i].user)
              \/ roles'[q][i].role = "NONE"
    BY <1>2, <1>5, <1>7, Zenon DEF rs
  <1>11. \A q \in Realms : Signed(q)' \subseteq Signed(q) \cup {<<a.id, t>>}
    <2> SUFFICES ASSUME NEW q \in Realms PROVE Signed(q)' \subseteq Signed(q) \cup {<<a.id, t>>}
      BY Zenon
    <2>1. /\ renames'[q] = renames[q] /\ vlobs'[q] = vlobs[q]
          /\ \A i \in DOMAIN rotations'[q] :
               i \in DOMAIN rotations[q] /\ rotations'[q][i].author = rotations[q][i].author
               /\ rotations'[q][i].ts = rotations[q][i].ts
      BY Zenon DEF SameRotations
    <2> QED
      BY <2>1, SignedAfter, ZenonT(30)
  <1>12. RevocationIsCausal'
    BY <1>9, <1>10, <1>11, DeedKeepsCausal, ZenonT(30)
  <1> QED
    BY <1>8, <1>12, Zenon

\* A step that adds no role.
LEMMA DeedWithoutRole ==
    ASSUME RevocationInv, UNCHANGED commonVars, UNCHANGED roles, NEW a \in devices, NEW t,
           IsActive(a.user), \A q \in Realms : Signed(q)' \subseteq Signed(q) \cup {<<a.id, t>>}
    PROVE  (\A q \in Realms : LastExists(roles'[q])) /\ RevocationIsCausal'
  <1>1. ~IsRevoked(a.user)
    BY Zenon DEF IsActive
  <1>2. \A q \in Realms : \A i \in DOMAIN roles[q] : i \in DOMAIN roles'[q] /\ roles'[q][i] = roles[q][i]
    BY Zenon
  <1>3. \A q \in Realms : \A i \in DOMAIN roles'[q] :
              \/ i \in DOMAIN roles[q]
              \/ ~IsRevoked(roles'[q][i].user)
              \/ roles'[q][i].role = "NONE"
    BY Zenon
  <1>4. RevocationIsCausal'
    BY <1>1, <1>2, <1>3, DeedKeepsCausal, ZenonT(30)
  <1> QED
    BY <1>4, Zenon DEF RevocationInv

LEMMA RealmKeepsCausal ==
    ASSUME RevocationInv, RealmNext
    PROVE  (\A q \in Realms : LastExists(roles'[q])) /\ RevocationIsCausal'
  <1>1. TypeOK
    BY Zenon DEF RevocationInv, RealmInv, VlobInv
  <1>2. UNCHANGED commonVars /\ UNCHANGED vlobs
    BY RealmFrame, Zenon DEF vlobVars
  <1>3. ASSUME NEW t \in Timestamps, NEW a \in devices, NEW r \in Realms, CreateRealm(a, r, t)
        PROVE  (\A q \in Realms : LastExists(roles'[q])) /\ RevocationIsCausal'
    <2>1. a.user \in Users /\ "OWNER" \in Roles
      BY <1>1, AuthorType, Zenon DEF Roles, RealmRoles
    <2>2. AddRole(r, a.user, "OWNER", t, a.id) /\ UNCHANGED <<rotations, renames>> /\ ~IsRevoked(a.user)
      BY <1>3, Zenon DEF CreateRealm, InsertRole, CreateRealmCheck, IsActive
    <2>3. SameRotations
      BY <2>2, Zenon DEF SameRotations
    <2> QED
      BY <1>2, <2>1, <2>2, <2>3, RoleKeepsCausal, ZenonT(30)
  <1>4. ASSUME NEW t \in Timestamps, NEW a \in devices, NEW r \in Realms, NEW u \in Users,
               NEW role \in RealmRoles, NEW k \in KeyIndexes, Share(a, r, u, role, k, t)
        PROVE  (\A q \in Realms : LastExists(roles'[q])) /\ RevocationIsCausal'
    <2>1. role \in Roles
      BY Zenon DEF Roles
    <2>2. AddRole(r, u, role, t, a.id) /\ UNCHANGED renames /\ ~IsRevoked(a.user) /\ ~IsRevoked(u)
      BY <1>4, Zenon DEF Share, InsertShare, ShareCheck, IsActive
    <2>3. SameRotations
      BY <1>1, <1>4, ShareKeepsRotations, Zenon
    <2> QED
      BY <1>2, <2>1, <2>2, <2>3, RoleKeepsCausal, ZenonT(30)
  <1>5. ASSUME NEW t \in Timestamps, NEW a \in devices, NEW r \in Realms, NEW u \in Users,
               Unshare(a, r, u, t)
        PROVE  (\A q \in Realms : LastExists(roles'[q])) /\ RevocationIsCausal'
    <2>1. "NONE" \in Roles
      BY Zenon DEF Roles
    <2>2. AddRole(r, u, "NONE", t, a.id) /\ UNCHANGED <<rotations, renames>> /\ ~IsRevoked(a.user)
      BY <1>5, Zenon DEF Unshare, InsertRole, UnshareCheck, IsActive
    <2>3. SameRotations
      BY <2>2, Zenon DEF SameRotations
    <2> QED
      BY <1>2, <2>1, <2>2, <2>3, RoleKeepsCausal, ZenonT(30)
  <1>6. ASSUME NEW t \in Timestamps, NEW a \in devices, NEW r \in Realms, NEW k \in KeyIndexes, NEW first,
               Rename(a, r, k, first, t)
        PROVE  (\A q \in Realms : LastExists(roles'[q])) /\ RevocationIsCausal'
    <2> DEFINE c == [key |-> k, ts |-> t, author |-> a.id]
    <2>1. /\ renames' = [renames EXCEPT ![r] = Append(@, c)] /\ UNCHANGED <<roles, rotations>>
          /\ IsActive(a.user)
      BY <1>6, Zenon DEF Rename, InsertName, AuthorCheck
    <2>2. a.id \in Devices /\ k \in Nat /\ renames \in [Realms -> Seq(NameCerts)]
      BY <1>1, AuthorType, KeyIndexesAssumption, ZenonT(30) DEF TypeOK
    <2>3. c \in NameCerts /\ c.author = a.id /\ c.ts = t
      BY <2>2, Zenon DEF NameCerts
    <2> HIDE DEF c
    <2>4. \A q \in Realms : \A i \in DOMAIN renames'[q] :
             (i \in DOMAIN renames[q] /\ renames'[q][i] = renames[q][i]) \/ renames'[q][i] = c
      BY <2>1, <2>2, <2>3, SMTT(30)
    <2>5. \A q \in Realms : Signed(q)' \subseteq Signed(q) \cup {<<a.id, t>>}
      <3> SUFFICES ASSUME NEW q \in Realms PROVE Signed(q)' \subseteq Signed(q) \cup {<<a.id, t>>}
        BY Zenon
      <3>1. \A i \in DOMAIN renames'[q] :
              \/ i \in DOMAIN renames[q] /\ renames'[q][i] = renames[q][i]
              \/ renames'[q][i].author = a.id /\ renames'[q][i].ts = t
        BY <2>3, <2>4, ZenonT(30)
      <3>2. rotations'[q] = rotations[q] /\ vlobs'[q] = vlobs[q]
        BY <1>2, <2>1, Zenon
      <3> QED
        BY <3>1, <3>2, SignedAfter, ZenonT(30)
    <2> QED
      BY <1>2, <2>1, <2>5, DeedWithoutRole, ZenonT(30)
  <1>7. ASSUME NEW t \in Timestamps, NEW a \in devices, NEW r \in Realms, NEW k \in KeyIndexes,
               NEW recipients \in SUBSET Users, RotateKey(a, r, k, recipients, t)
        PROVE  (\A q \in Realms : LastExists(roles'[q])) /\ RevocationIsCausal'
    <2> DEFINE c == [access |-> {[user |-> u, ts |-> t] : u \in recipients}, ts |-> t, author |-> a.id]
    <2>1. /\ rotations' = [rotations EXCEPT ![r] = Append(@, c)] /\ UNCHANGED <<roles, renames>>
          /\ IsActive(a.user)
      BY <1>7, Zenon DEF RotateKey, InsertRotation, AuthorCheck
    <2>2. a.id \in Devices /\ rotations \in [Realms -> Seq(RotationCerts)]
      BY <1>1, AuthorType, ZenonT(30) DEF TypeOK
    <2>3. c \in RotationCerts /\ c.author = a.id /\ c.ts = t
      BY <2>2, SMTT(20) DEF RotationCerts, KeyAccess
    <2> HIDE DEF c
    <2>4. \A q \in Realms : \A i \in DOMAIN rotations'[q] :
             (i \in DOMAIN rotations[q] /\ rotations'[q][i] = rotations[q][i]) \/ rotations'[q][i] = c
      BY <2>1, <2>2, <2>3, SMTT(30)
    <2>5. \A q \in Realms : Signed(q)' \subseteq Signed(q) \cup {<<a.id, t>>}
      <3> SUFFICES ASSUME NEW q \in Realms PROVE Signed(q)' \subseteq Signed(q) \cup {<<a.id, t>>}
        BY Zenon
      <3>1. \A i \in DOMAIN rotations'[q] :
              \/ i \in DOMAIN rotations[q] /\ rotations'[q][i] = rotations[q][i]
              \/ rotations'[q][i].author = a.id /\ rotations'[q][i].ts = t
        BY <2>3, <2>4, ZenonT(30)
      <3>2. renames'[q] = renames[q] /\ vlobs'[q] = vlobs[q]
        BY <1>2, <2>1, Zenon
      <3> QED
        BY <3>1, <3>2, SignedAfter, ZenonT(30)
    <2> QED
      BY <1>2, <2>1, <2>5, DeedWithoutRole, ZenonT(30)
  <1> QED
    BY <1>3, <1>4, <1>5, <1>6, <1>7, ZenonT(30) DEF RealmNext

\* Whatever is new in the versions of a vlob is signed by d at t.
SignedBy(d, t, old, new) ==
    \A i \in DOMAIN new : (i \in DOMAIN old /\ new[i] = old[i]) \/ (new[i].author = d /\ new[i].ts = t)

LEMMA VlobKeepsCausal ==
    ASSUME RevocationInv, VlobNext
    PROVE  (\A q \in Realms : LastExists(roles'[q])) /\ RevocationIsCausal'
  <1>1. TypeOK
    BY Zenon DEF RevocationInv, RealmInv, VlobInv
  <1>2. vlobs \in [Realms -> [Vlobs -> Seq(Atoms)]]
    BY <1>1, Zenon DEF TypeOK
  <1>3. ASSUME NEW t \in Timestamps, NEW a \in devices, NEW r \in Realms, NEW v \in Vlobs, NEW versions,
               InsertVlob(r, v, versions, t), IsActive(a.user), SignedBy(a.id, t, vlobs[r][v], versions)
        PROVE  (\A q \in Realms : LastExists(roles'[q])) /\ RevocationIsCausal'
    <2>1. /\ vlobs' = [vlobs EXCEPT ![r][v] = versions] /\ UNCHANGED commonVars
          /\ UNCHANGED <<roles, rotations, renames>>
      BY <1>3, Zenon DEF InsertVlob, realmVars
    <2>2. \A q \in Realms, w \in Vlobs : \A i \in DOMAIN vlobs'[q][w] :
             \/ i \in DOMAIN vlobs[q][w] /\ vlobs'[q][w][i] = vlobs[q][w][i]
             \/ vlobs'[q][w][i].author = a.id /\ vlobs'[q][w][i].ts = t
      BY <1>2, <1>3, <2>1, ZenonT(30) DEF SignedBy
    <2>3. \A q \in Realms : Signed(q)' \subseteq Signed(q) \cup {<<a.id, t>>}
      <3> SUFFICES ASSUME NEW q \in Realms PROVE Signed(q)' \subseteq Signed(q) \cup {<<a.id, t>>}
        BY Zenon
      <3>1. \A w \in Vlobs : \A i \in DOMAIN vlobs'[q][w] :
              \/ i \in DOMAIN vlobs[q][w] /\ vlobs'[q][w][i] = vlobs[q][w][i]
              \/ vlobs'[q][w][i].author = a.id /\ vlobs'[q][w][i].ts = t
        BY <2>2, Zenon
      <3>2. rotations'[q] = rotations[q] /\ renames'[q] = renames[q]
        BY <2>1, Zenon
      <3> QED
        BY <3>1, <3>2, SignedAfter, ZenonT(30)
    <2> QED
      BY <1>3, <2>1, <2>3, DeedWithoutRole, ZenonT(30)
  <1>4. ASSUME NEW t \in Timestamps, NEW a \in devices, NEW r \in Realms, NEW v \in Vlobs,
               NEW k \in KeyIndexes, CreateVlob(a, r, v, k, t)
        PROVE  (\A q \in Realms : LastExists(roles'[q])) /\ RevocationIsCausal'
    <2> DEFINE versions == <<Atom(k, t, a.id)>>
    <2>1. InsertVlob(r, v, versions, t) /\ IsActive(a.user)
      BY <1>4, Zenon DEF CreateVlob, AuthorCheck
    <2>2. SignedBy(a.id, t, vlobs[r][v], versions)
      BY DEF Atom, SignedBy
    <2> HIDE DEF versions
    <2> QED
      BY <1>3, <2>1, <2>2, ZenonT(30)
  <1>5. ASSUME NEW t \in Timestamps, NEW a \in devices, NEW r \in Realms, NEW v \in Vlobs,
               NEW k \in KeyIndexes, NEW version, UpdateVlob(a, r, v, k, version, t)
        PROVE  (\A q \in Realms : LastExists(roles'[q])) /\ RevocationIsCausal'
    <2> DEFINE c == Atom(k, t, a.id)
               vs == vlobs[r][v]
               versions == Append(vs, c)
    <2>1. InsertVlob(r, v, versions, t) /\ IsActive(a.user)
      BY <1>5, Zenon DEF UpdateVlob, AuthorCheck
    <2>2. a.id \in Devices /\ k \in Nat
      BY <1>1, AuthorType, KeyIndexesAssumption, ZenonT(30)
    <2>3. c \in Atoms /\ c.author = a.id /\ c.ts = t
      BY <2>2, Zenon DEF Atom, Atoms
    <2>4. vs \in Seq(Atoms)
      BY <1>2, Zenon
    <2> HIDE DEF c, vs
    <2>5. \A i \in DOMAIN versions : (i \in DOMAIN vs /\ versions[i] = vs[i]) \/ versions[i] = c
      BY <2>3, <2>4, SMTT(30)
    <2> HIDE DEF versions
    <2>6. SignedBy(a.id, t, vlobs[r][v], versions)
      BY <2>3, <2>5, Zenon DEF vs, SignedBy
    <2> QED
      BY <1>3, <2>1, <2>6, ZenonT(30)
  <1> QED
    BY <1>4, <1>5, ZenonT(30) DEF VlobNext

LEMMA CausalUnchanged ==
    ASSUME RevocationIsCausal, UNCHANGED <<devices, revocations, realmVars, vlobVars>>
    PROVE  RevocationIsCausal'
  <1>1. UNCHANGED <<devices, revocations, roles, renames, rotations, vlobs>>
    BY Zenon DEF realmVars, vlobVars
  <1>2. \A r \in Realms : Signed(r)' = Signed(r)
    BY <1>1, ZenonT(30) DEF Signed
  <1>3. \A x \in revocations, r \in Realms :
              ~Left(roles[r], x.user) =>
                /\ \A i \in DOMAIN roles[r] : roles[r][i].user = x.user => roles[r][i].ts < x.ts
                /\ \A p \in Signed(r) :
                      (\E e \in devices : e.id = p[1] /\ e.user = x.user /\ e.ts <= p[2]) => p[2] < x.ts
    BY CausalSigned, ZenonT(30) DEF KnownDevice
  <1> QED
    BY <1>1, <1>2, <1>3, CausalAgain, ZenonT(30)

LEMMA CommonKeepsCausal ==
    ASSUME RevocationInv, CommonNext
    PROVE  DevicesUnique' /\ RevocationIsCausal'
  <1>1. AdminInv
    BY Zenon DEF RevocationInv, RealmInv
  <1>2. ASSUME NEW d, NEW u, NEW t, NEW author, AddDevice(d, u, t, author),
               \A c \in devices : c.id # d, UNCHANGED <<revocations, realmVars, vlobVars>>
        PROVE  DevicesUnique' /\ RevocationIsCausal'
    <2> DEFINE e == [id |-> d, user |-> u, ts |-> t, author |-> author]
    <2>1. e.id = d /\ devices' = devices \cup {e}
      BY <1>2, Zenon DEF AddDevice
    <2> HIDE DEF e
    <2>2. \A c \in devices : c.id # e.id
      BY <1>2, <2>1, Zenon
    <2> QED
      BY <1>2, <2>1, <2>2, DeviceKeepsCausal, ZenonT(30)
  <1>3. ASSUME UNCHANGED devices PROVE DevicesUnique'
    BY <1>3, Zenon DEF RevocationInv, DevicesUnique
  <1>4. ASSUME NEW t \in Timestamps, NEW u \in Users, NEW d \in Devices, Bootstrap(u, d, t)
        PROVE  DevicesUnique' /\ RevocationIsCausal'
    BY <1>2, <1>4, Zenon DEF Bootstrap, InsertUser
  <1>5. ASSUME NEW t \in Timestamps, NEW a \in devices, NEW u \in Users, NEW d \in Devices,
               NEW p \in Profiles, CreateUser(a, u, d, p, t)
        PROVE  DevicesUnique' /\ RevocationIsCausal'
    BY <1>2, <1>5, Zenon DEF CreateUser, CreateUserCheck, InsertUser
  <1>6. ASSUME NEW t \in Timestamps, NEW a \in devices, NEW d \in Devices, CreateDevice(a, d, t)
        PROVE  DevicesUnique' /\ RevocationIsCausal'
    BY <1>2, <1>6, Zenon DEF CreateDevice, CreateDeviceCheck, InsertDevice
  <1>7. ASSUME NEW t \in Timestamps, NEW a \in devices, NEW u \in Users, RevokeUser(a, u, t)
        PROVE  DevicesUnique' /\ RevocationIsCausal'
    BY <1>3, <1>7, RevokeKeepsCausal, ZenonT(30) DEF RevokeUser, InsertRevocation
  <1>8. ASSUME NEW t \in Timestamps, NEW a \in devices, NEW u \in Users, NEW p \in Profiles,
               UpdateUser(a, u, p, t)
        PROVE  DevicesUnique' /\ RevocationIsCausal'
    <2>1. UNCHANGED <<devices, revocations, realmVars, vlobVars>>
      BY <1>8, Zenon DEF UpdateUser, InsertProfile
    <2>2. RevocationIsCausal'
      BY <2>1, CausalUnchanged, ZenonT(30) DEF RevocationInv
    <2> QED
      BY <1>3, <2>1, <2>2, ZenonT(30)
  <1> QED
    BY <1>4, <1>5, <1>6, <1>7, <1>8, ZenonT(30) DEF CommonNext

LEMMA RevocationInvIsInductive == RevocationInv /\ [Next]_vars => RevocationInv'
  <1> SUFFICES ASSUME RevocationInv, [Next]_vars PROVE RevocationInv'
    BY Zenon
  <1>1. RealmInv'
    BY RealmInvIsInductive, Zenon DEF RevocationInv
  <1>2. ASSUME UNCHANGED devices PROVE DevicesUnique'
    BY <1>2, Zenon DEF RevocationInv, DevicesUnique
  <1>3. ASSUME UNCHANGED roles PROVE \A r \in Realms : LastExists(roles'[r])
    BY <1>3, Zenon DEF RevocationInv
  <1>4. ASSUME DevicesUnique', \A r \in Realms : LastExists(roles'[r]), RevocationIsCausal'
        PROVE  RevocationInv'
    BY <1>1, <1>4, Zenon DEF RevocationInv, LastExists, IsLastFor
  <1>5. CASE CommonNext
    <2>1. UNCHANGED roles
      BY <1>5, DevicesRemainDated, Zenon DEF RevocationInv, RealmInv, realmVars
    <2> QED
      BY <1>3, <1>4, <1>5, <2>1, CommonKeepsCausal, ZenonT(30)
  <1>6. CASE RealmNext
    <2>1. UNCHANGED devices
      BY <1>6, RealmFrame, ZenonT(30) DEF commonVars
    <2> QED
      BY <1>2, <1>4, <1>6, <2>1, RealmKeepsCausal, ZenonT(30)
  <1>7. CASE VlobNext
    <2>1. UNCHANGED devices
      BY <1>7, SMTT(20) DEF VlobNext, CreateVlob, UpdateVlob, InsertVlob, commonVars
    <2> QED
      BY <1>2, <1>4, <1>7, <2>1, VlobKeepsCausal, Zenon
  <1>8. CASE UNCHANGED vars
    <2>1. UNCHANGED <<devices, revocations, realmVars, vlobVars>>
      BY <1>8, Zenon DEF vars, realmVars, vlobVars
    <2>2. UNCHANGED roles
      BY <1>8, Zenon DEF vars
    <2>3. RevocationIsCausal'
      BY <2>1, CausalUnchanged, ZenonT(30) DEF RevocationInv
    <2> QED
      BY <1>2, <1>3, <1>4, <2>1, <2>2, <2>3, ZenonT(30)
  <1> QED
    BY <1>5, <1>6, <1>7, <1>8, Zenon DEF Next

\* Whatever timestamps the clients choose, a revocation the server accepts is newer
\* than everything its user did in the realms they never left, and nothing they do
\* is accepted afterwards.
THEOREM RevocationsAreCausal == Spec => []RevocationIsCausal
  <1>1. Init => RevocationInv
    <2> SUFFICES ASSUME Init PROVE RevocationInv
      BY Zenon
    <2>1. \A r \in Realms : DOMAIN roles[r] = {}
      BY DEF Init
    <2> QED
      BY <2>1, InitRealmInv, Zenon DEF Init, RevocationInv, DevicesUnique, LastExists, RevocationIsCausal
  <1>2. RevocationInv => RevocationIsCausal
    BY Zenon DEF RevocationInv
  <1> QED
    BY <1>1, <1>2, RevocationInvIsInductive, PTL DEF Spec
=============================================================================
