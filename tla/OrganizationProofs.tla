------------------------- MODULE OrganizationProofs -------------------------
(***************************************************************************)
(* Type correctness of Organization; realms keep an owner and              *)
(* organizations an administrator: for any set of users, devices, realms   *)
(* and vlobs and any choice of timestamps by the authors of the requests.  *)
(***************************************************************************)
EXTENDS Organization, TLAPS

(***************************************************************************)
(* Type correctness.                                                       *)
(***************************************************************************)

LEMMA AppendType ==
    ASSUME NEW S, NEW s \in Seq(S), NEW e \in S
    PROVE  Append(s, e) \in Seq(S)
  OBVIOUS

LEMMA AppendNotEmpty ==
    ASSUME NEW S, NEW s \in Seq(S), NEW e
    PROVE  Append(s, e) # <<>>
  <1>1. s \in Seq(S \cup {e}) /\ e \in S \cup {e}
    OBVIOUS
  <1>2. Len(Append(s, e)) = Len(s) + 1 /\ Len(s) \in Nat
    BY <1>1
  <1>3. Len(<<>>) = 0
    BY Zenon
  <1> QED
    BY <1>2, <1>3

LEMMA CommonTypes ==
    ASSUME TypeOK, NEW u \in Users, NEW d \in Devices, NEW p \in Profiles,
           NEW t \in Timestamps, NEW author \in Authors
    PROVE  /\ InsertUser(u, d, p, t, author) => TypeOK'
           /\ InsertDevice(d, u, t, author) => TypeOK'
           /\ InsertRevocation(u, t, author) => TypeOK'
           /\ InsertProfile(u, p, t, author) => TypeOK'
  <1> USE TimestampsAssumption
  <1>1. [profile |-> p, ts |-> t, author |-> author] \in ProfileCerts
    BY Zenon DEF ProfileCerts
  <1>2. AddProfile(u, p, t, author) => profiles' \in [Users -> Seq(ProfileCerts)]
    BY <1>1, AppendType DEF AddProfile, TypeOK
  <1>3. AddDevice(d, u, t, author) => devices' \in SUBSET DeviceCerts
    BY DEF AddDevice, TypeOK, DeviceCerts
  <1>4. [user |-> u, ts |-> t, author |-> author] \in RevokedCerts
    BY Zenon DEF RevokedCerts
  <1>5. t \in Nat
    BY Zenon
  <1>6. InsertUser(u, d, p, t, author) => TypeOK'
    BY <1>2, <1>3, <1>5, Zenon DEF InsertUser, TypeOK, realmVars, vlobVars
  <1>7. InsertDevice(d, u, t, author) => TypeOK'
    BY <1>3, <1>5, Zenon DEF InsertDevice, TypeOK, realmVars, vlobVars
  <1>8. InsertRevocation(u, t, author) => TypeOK'
    BY <1>4, <1>5, Zenon DEF InsertRevocation, TypeOK, realmVars, vlobVars
  <1>9. InsertProfile(u, p, t, author) => TypeOK'
    BY <1>2, <1>5, Zenon DEF InsertProfile, TypeOK, realmVars, vlobVars
  <1> QED
    BY <1>6, <1>7, <1>8, <1>9, Zenon

LEMMA AddRoleTypes ==
    ASSUME TypeOK, NEW r \in Realms, NEW u \in Users, NEW role \in Roles,
           NEW t \in Timestamps, NEW author \in Devices,
           AddRole(r, u, role, t, author)
    PROVE  /\ realmTs' \in [Realms -> Nat]
           /\ roles' \in [Realms -> Seq(RoleCerts)]
  <1>1. [user |-> u, role |-> role, ts |-> t, author |-> author] \in RoleCerts
    BY Zenon DEF RoleCerts
  <1> QED
    BY <1>1, AppendType, TimestampsAssumption, Zenon DEF AddRole, TypeOK

LEMMA ShareTypes ==
    ASSUME TypeOK, NEW r \in Realms, NEW u \in Users, NEW role \in Roles,
           NEW k, k = LastKey(r), LastKey(r) # 0,
           NEW t \in Timestamps, NEW author \in Devices,
           InsertShare(r, u, role, k, t, author)
    PROVE  TypeOK'
  <1> DEFINE x == [user |-> u, ts |-> t]
             c == rotations[r][k]
             d == [c EXCEPT !.access = @ \cup {x}]
  <1>1. rotations[r] \in Seq(RotationCerts) /\ k \in 1 .. Len(rotations[r])
    BY DEF TypeOK, LastKey
  <1>2. c \in RotationCerts
    BY <1>1
  <1>3. d \in RotationCerts
    BY <1>2 DEF RotationCerts, KeyAccess
  <1>4. [rotations[r] EXCEPT ![k] = d] \in Seq(RotationCerts)
    BY <1>1, <1>3
  <1>5. rotations' = [rotations EXCEPT ![r] = [rotations[r] EXCEPT ![k] = d]]
    BY Zenon DEF InsertShare
  <1>6. rotations' \in [Realms -> Seq(RotationCerts)]
    BY <1>4, <1>5, Zenon DEF TypeOK
  <1>7. realmTs' \in [Realms -> Nat] /\ roles' \in [Realms -> Seq(RoleCerts)]
    BY AddRoleTypes, Zenon DEF InsertShare
  <1> QED
    BY <1>6, <1>7, Zenon DEF InsertShare, TypeOK, commonVars, vlobVars

LEMMA RealmTypes ==
    ASSUME TypeOK, NEW r \in Realms, NEW u \in Users, NEW role \in Roles,
           NEW k \in Nat, NEW recipients \in SUBSET Users,
           NEW t \in Timestamps, NEW author \in Devices
    PROVE  /\ InsertRole(r, u, role, t, author) => TypeOK'
           /\ InsertName(r, k, t, author) => TypeOK'
           /\ InsertRotation(r, recipients, t, author) => TypeOK'
  <1>1. ASSUME InsertRole(r, u, role, t, author) PROVE TypeOK'
    <2>1. realmTs' \in [Realms -> Nat] /\ roles' \in [Realms -> Seq(RoleCerts)]
      BY <1>1, AddRoleTypes, Zenon DEF InsertRole
    <2> QED
      BY <1>1, <2>1, Zenon DEF InsertRole, TypeOK, commonVars, vlobVars
  <1>2. ASSUME InsertName(r, k, t, author) PROVE TypeOK'
    <2>1. [key |-> k, ts |-> t, author |-> author] \in NameCerts
      BY Zenon DEF NameCerts
    <2>2. realmTs' \in [Realms -> Nat] /\ renames' \in [Realms -> Seq(NameCerts)]
      BY <1>2, <2>1, AppendType, TimestampsAssumption, Zenon DEF InsertName, TypeOK
    <2> QED
      BY <1>2, <2>2, Zenon DEF InsertName, TypeOK, commonVars, vlobVars
  <1>3. ASSUME InsertRotation(r, recipients, t, author) PROVE TypeOK'
    <2> DEFINE access == {[user |-> v, ts |-> t] : v \in recipients}
    <2>1. [access |-> access, ts |-> t, author |-> author] \in RotationCerts
      BY DEF RotationCerts, KeyAccess
    <2>2. realmTs' \in [Realms -> Nat] /\ rotations' \in [Realms -> Seq(RotationCerts)]
      BY <1>3, <2>1, AppendType, TimestampsAssumption, Zenon DEF InsertRotation, TypeOK
    <2> QED
      BY <1>3, <2>2, Zenon DEF InsertRotation, TypeOK, commonVars, vlobVars
  <1> QED
    BY <1>1, <1>2, <1>3, Zenon

LEMMA VlobTypes ==
    ASSUME TypeOK, NEW r \in Realms, NEW v \in Vlobs, NEW versions \in Seq(Atoms),
           NEW t \in Timestamps, InsertVlob(r, v, versions, t)
    PROVE  TypeOK'
  <1>1. lastVlob' \in [Realms -> Nat]
    BY TimestampsAssumption, Zenon DEF InsertVlob, TypeOK
  <1>2. vlobs' \in [Realms -> [Vlobs -> Seq(Atoms)]]
    BY Zenon DEF InsertVlob, TypeOK
  <1>3. [vlob |-> v, version |-> Len(versions)] \in VlobUpdates
    BY DEF VlobUpdates
  <1>4. vlobUpdates' \in [Realms -> Seq(VlobUpdates)]
    BY <1>3, AppendType, Zenon DEF InsertVlob, TypeOK
  <1> QED
    BY <1>1, <1>2, <1>4, Zenon DEF InsertVlob, TypeOK, commonVars, realmVars

\* The certificates an author may sign with.
LEMMA AuthorType ==
    ASSUME TypeOK, NEW a \in devices
    PROVE  a.id \in Devices /\ a.id \in Authors /\ a.user \in Users /\ a.ts \in Timestamps
  BY Zenon DEF TypeOK, DeviceCerts, Authors

LEMMA CommonNextTypes ==
    ASSUME TypeOK, CommonNext
    PROVE  TypeOK'
  <1>1. ASSUME NEW u \in Users, NEW d \in Devices, NEW t \in Timestamps, Bootstrap(u, d, t)
        PROVE  TypeOK'
    BY <1>1, CommonTypes, Zenon DEF Bootstrap, Profiles, Authors
  <1>2. ASSUME NEW a \in devices, NEW u \in Users, NEW d \in Devices, NEW p \in Profiles,
               NEW t \in Timestamps, CreateUser(a, u, d, p, t)
        PROVE  TypeOK'
    BY <1>2, CommonTypes, AuthorType, Zenon DEF CreateUser
  <1>3. ASSUME NEW a \in devices, NEW d \in Devices, NEW t \in Timestamps,
               CreateDevice(a, d, t)
        PROVE  TypeOK'
    BY <1>3, CommonTypes, AuthorType, Zenon DEF CreateDevice, Profiles
  <1>4. ASSUME NEW a \in devices, NEW u \in Users, NEW t \in Timestamps, RevokeUser(a, u, t)
        PROVE  TypeOK'
    <2>1. \E d : d \in Devices
      BY AuthorType, Zenon
    <2> QED
      BY <1>4, <2>1, CommonTypes, AuthorType, Zenon DEF RevokeUser, Profiles
  <1>5. ASSUME NEW a \in devices, NEW u \in Users, NEW p \in Profiles,
               NEW t \in Timestamps, UpdateUser(a, u, p, t)
        PROVE  TypeOK'
    <2>1. \E d : d \in Devices
      BY AuthorType, Zenon
    <2> QED
      BY <1>5, <2>1, CommonTypes, AuthorType, Zenon DEF UpdateUser
  <1> QED
    BY <1>1, <1>2, <1>3, <1>4, <1>5, Zenon DEF CommonNext

LEMMA RealmNextTypes ==
    ASSUME TypeOK, RealmNext
    PROVE  TypeOK'
  <1> PICK t \in Timestamps, a \in devices, r \in Realms :
        \/ CreateRealm(a, r, t)
        \/ \E u \in Users, role \in RealmRoles, k \in KeyIndexes :
            Share(a, r, u, role, k, t)
        \/ \E u \in Users : Unshare(a, r, u, t)
        \/ \E k \in KeyIndexes, first \in BOOLEAN : Rename(a, r, k, first, t)
        \/ \E k \in KeyIndexes, recipients \in SUBSET Users :
            RotateKey(a, r, k, recipients, t)
    BY Zenon DEF RealmNext
  <1>1. a.id \in Devices /\ a.user \in Users
    BY AuthorType, Zenon
  <1>2. CASE CreateRealm(a, r, t)
    <2>1. "OWNER" \in Roles /\ 0 \in Nat /\ {} \in SUBSET Users
      BY Zenon DEF Roles, RealmRoles
    <2> QED
      BY <1>1, <1>2, <2>1, RealmTypes, Zenon DEF CreateRealm
  <1>3. ASSUME NEW u \in Users, NEW role \in RealmRoles, NEW k \in KeyIndexes,
               Share(a, r, u, role, k, t)
        PROVE  TypeOK'
    BY <1>1, <1>3, ShareTypes, Zenon DEF Share, ShareRoleCheck, Roles
  <1>4. ASSUME NEW u \in Users, Unshare(a, r, u, t)
        PROVE  TypeOK'
    <2>1. "NONE" \in Roles /\ 0 \in Nat /\ {} \in SUBSET Users
      BY Zenon DEF Roles, RealmRoles
    <2> QED
      BY <1>1, <1>4, <2>1, RealmTypes, Zenon DEF Unshare
  <1>5. ASSUME NEW k \in KeyIndexes, NEW first \in BOOLEAN, Rename(a, r, k, first, t)
        PROVE  TypeOK'
    <2>1. "NONE" \in Roles /\ k \in Nat /\ {} \in SUBSET Users
      BY KeyIndexesAssumption, Zenon DEF Roles, RealmRoles
    <2> QED
      BY <1>1, <1>5, <2>1, RealmTypes, Zenon DEF Rename
  <1>6. ASSUME NEW k \in KeyIndexes, NEW recipients \in SUBSET Users,
               RotateKey(a, r, k, recipients, t)
        PROVE  TypeOK'
    <2>1. "NONE" \in Roles /\ 0 \in Nat
      BY Zenon DEF Roles, RealmRoles
    <2> QED
      BY <1>1, <1>6, <2>1, RealmTypes, Zenon DEF RotateKey
  <1> QED
    BY <1>2, <1>3, <1>4, <1>5, <1>6, Zenon

\* The list InsertVlob stores is made of atoms.
LEMMA VersionsType ==
    ASSUME TypeOK, NEW a \in devices, NEW k \in KeyIndexes, NEW t \in Timestamps
    PROVE  /\ Atom(k, t, a.id) \in Atoms
           /\ <<Atom(k, t, a.id)>> \in Seq(Atoms)
           /\ \A r \in Realms, v \in Vlobs :
                Append(vlobs[r][v], Atom(k, t, a.id)) \in Seq(Atoms)
  <1>1. Atom(k, t, a.id) \in Atoms
    BY AuthorType, KeyIndexesAssumption, Zenon DEF Atom, Atoms
  <1>2. \A r \in Realms, v \in Vlobs : vlobs[r][v] \in Seq(Atoms)
    BY Zenon DEF TypeOK
  <1> QED
    BY <1>1, <1>2, AppendType

LEMMA VlobNextTypes ==
    ASSUME TypeOK, VlobNext
    PROVE  TypeOK'
  <1>1. ASSUME NEW t \in Timestamps, NEW a \in devices, NEW r \in Realms, NEW v \in Vlobs,
               NEW k \in KeyIndexes, CreateVlob(a, r, v, k, t)
        PROVE  TypeOK'
    BY <1>1, VersionsType, VlobTypes, Zenon DEF CreateVlob
  <1>2. ASSUME NEW t \in Timestamps, NEW a \in devices, NEW r \in Realms, NEW v \in Vlobs,
               NEW k \in KeyIndexes, NEW version, UpdateVlob(a, r, v, k, version, t)
        PROVE  TypeOK'
    BY <1>2, VersionsType, VlobTypes, Zenon DEF UpdateVlob
  <1> QED
    BY <1>1, <1>2, Zenon DEF VlobNext

LEMMA NextTypes == TypeOK /\ [Next]_vars => TypeOK'
  <1>1. TypeOK /\ UNCHANGED vars => TypeOK'
    BY Zenon DEF TypeOK, vars
  <1> QED
    BY <1>1, CommonNextTypes, RealmNextTypes, VlobNextTypes, Zenon DEF Next

LEMMA InitTypes == Init => TypeOK
  <1>1. \A S : <<>> \in Seq(S)
    OBVIOUS
  <1> QED
    BY <1>1 DEF Init, TypeOK

(***************************************************************************)
(* What is used of finite sets.  The library proves it of every set; it is *)
(* an assumption of the lemmas that count, discharged in ServerProofs.     *)
(***************************************************************************)

FiniteSetFacts ==
    /\ IsFiniteSet({}) /\ Cardinality({}) = 0
    /\ \A S : IsFiniteSet(S) => Cardinality(S) \in Nat /\ (Cardinality(S) = 0 <=> S = {})
    /\ \A S, x : IsFiniteSet(S) => IsFiniteSet(S \cup {x}) /\ IsFiniteSet(S \ {x})
    /\ \A S, x : IsFiniteSet(S) /\ x \notin S => Cardinality(S \cup {x}) = Cardinality(S) + 1
    /\ \A S, x : IsFiniteSet(S) /\ x \in S => Cardinality(S \ {x}) = Cardinality(S) - 1
    /\ \A S, T : IsFiniteSet(S) /\ T \subseteq S => IsFiniteSet(T) /\ Cardinality(T) <= Cardinality(S)

LEMMA CountNothing ==
    ASSUME FiniteSetFacts
    PROVE  /\ IsFiniteSet({}) /\ Cardinality({}) = 0
           /\ \A S : IsFiniteSet(S) => Cardinality(S) \in Nat /\ (Cardinality(S) = 0 <=> S = {})
  BY Zenon DEF FiniteSetFacts

LEMMA CountOneMore ==
    ASSUME FiniteSetFacts, NEW S, NEW x, IsFiniteSet(S), x \notin S
    PROVE  IsFiniteSet(S \cup {x}) /\ Cardinality(S \cup {x}) = Cardinality(S) + 1
  BY Zenon DEF FiniteSetFacts

LEMMA CountOneLess ==
    ASSUME FiniteSetFacts, NEW S, NEW x, IsFiniteSet(S)
    PROVE  /\ IsFiniteSet(S \ {x})
           /\ Cardinality(S \ {x}) = IF x \in S THEN Cardinality(S) - 1 ELSE Cardinality(S)
  <1>1. x \notin S => S \ {x} = S
    BY Zenon
  <1> QED
    BY <1>1, Zenon DEF FiniteSetFacts

LEMMA CountFewer ==
    ASSUME FiniteSetFacts, NEW S, NEW T, IsFiniteSet(S), T \subseteq S
    PROVE  /\ IsFiniteSet(T) /\ Cardinality(T) <= Cardinality(S)
           /\ Cardinality(T) \in Nat /\ Cardinality(S) \in Nat
  BY Zenon DEF FiniteSetFacts

\* Every certificate, key access and vlob the server stores is well formed, and
\* a share stores its access in a key rotation that exists.
THEOREM OrganizationTypeCorrect == Spec => []TypeOK
  BY InitTypes, NextTypes, PTL DEF Spec

(***************************************************************************)
(* Timestamps of a topic.                                                  *)
(***************************************************************************)

\* A stamp newer than the topic is new, and the topic is as new as it.
LEMMA NewStamp ==
    ASSUME NEW S, NEW T, NEW y, NEW m \in Nat, Distinct(S),
           \A x \in S : x[4] \in Nat /\ x[4] <= m,
           y[4] \in Nat, y[4] > m, T \subseteq S \cup {y}
    PROVE  Distinct(T) /\ \A x \in T : x[4] <= y[4]
  <1>1. \A x \in T : x \in S \/ x = y
    BY Zenon
  <1>2. \A x \in S : x[4] < y[4]
    OBVIOUS
  <1>3. Distinct(T)
    BY <1>1, <1>2 DEF Distinct
  <1> QED
    BY <1>1, <1>2, <1>3

(***************************************************************************)
(* Roles: what appending a certificate to a realm's roles changes.         *)
(***************************************************************************)

LEMMA LastIsUnique ==
    ASSUME NEW rs \in Seq(RoleCerts), NEW u, NEW i, NEW j,
           IsLastFor(rs, u, i), IsLastFor(rs, u, j)
    PROVE  i = j
  BY DEF IsLastFor

LEMMA CurrentRoleIs ==
    ASSUME NEW rs \in Seq(RoleCerts), NEW u, NEW i, IsLastFor(rs, u, i)
    PROVE  CurrentRole(rs, u) = rs[i].role
  <1>1. i \in DOMAIN rs
    BY Zenon DEF IsLastFor
  <1>2. \A j \in DOMAIN rs : IsLastFor(rs, u, j) => j = i
    BY LastIsUnique, Zenon
  <1>3. (CHOOSE j \in DOMAIN rs : IsLastFor(rs, u, j)) = i
    BY <1>1, <1>2, Zenon
  <1> QED
    BY <1>1, <1>3, Zenon DEF CurrentRole

LEMMA AppendedRole ==
    ASSUME NEW rs \in Seq(RoleCerts), NEW c \in RoleCerts
    PROVE  CurrentRole(Append(rs, c), c.user) = c.role
  <1> DEFINE qs == Append(rs, c)
  <1>1. qs \in Seq(RoleCerts) /\ Len(qs) = Len(rs) + 1 /\ qs[Len(rs) + 1] = c
    OBVIOUS
  <1>2. IsLastFor(qs, c.user, Len(rs) + 1)
    BY <1>1 DEF IsLastFor
  <1>3. CurrentRole(qs, c.user) = qs[Len(rs) + 1].role
    <2> HIDE DEF qs
    <2> QED
      BY <1>1, <1>2, CurrentRoleIs, Zenon
  <1> QED
    BY <1>1, <1>3, Zenon

LEMMA OtherRolesUnchanged ==
    ASSUME NEW rs \in Seq(RoleCerts), NEW c \in RoleCerts, NEW u, u # c.user
    PROVE  CurrentRole(Append(rs, c), u) = CurrentRole(rs, u)
  <1> DEFINE qs == Append(rs, c)
  <1>1. /\ qs \in Seq(RoleCerts)
        /\ Len(qs) = Len(rs) + 1
        /\ qs[Len(rs) + 1] = c
        /\ \A i \in 1 .. Len(rs) : qs[i] = rs[i]
    OBVIOUS
  <1>2. \A i : IsLastFor(qs, u, i) <=> IsLastFor(rs, u, i)
    BY <1>1 DEF IsLastFor
  <1>3. CASE \E i \in DOMAIN rs : IsLastFor(rs, u, i)
    <2> PICK i \in DOMAIN rs : IsLastFor(rs, u, i)
      BY <1>3, Zenon
    <2>1. CurrentRole(qs, u) = qs[i].role /\ CurrentRole(rs, u) = rs[i].role
      BY <1>1, <1>2, CurrentRoleIs, ZenonT(30)
    <2> QED
      BY <1>1, <2>1
  <1>4. CASE ~ \E i \in DOMAIN rs : IsLastFor(rs, u, i)
    <2>1. ~ \E i \in DOMAIN qs : IsLastFor(qs, u, i)
      BY <1>2, <1>4, Zenon DEF IsLastFor
    <2> QED
      BY <1>4, <2>1, Zenon DEF CurrentRole
  <1> QED
    BY <1>3, <1>4, Zenon

\* The effect of AddRole on current roles.
LEMMA AddRoleEffect ==
    ASSUME TypeOK, NEW r \in Realms, NEW u \in Users, NEW role \in Roles,
           NEW t \in Timestamps, NEW author \in Devices,
           AddRole(r, u, role, t, author)
    PROVE  /\ \A q \in Realms : q # r => roles'[q] = roles[q]
           /\ CurrentRole(roles'[r], u) = role
           /\ \A v \in Users : v # u => CurrentRole(roles'[r], v) = CurrentRole(roles[r], v)
           /\ roles'[r] # <<>>
  <1> DEFINE c == [user |-> u, role |-> role, ts |-> t, author |-> author]
  <1>1. c \in RoleCerts /\ roles[r] \in Seq(RoleCerts)
    BY Zenon DEF RoleCerts, TypeOK
  <1>2. roles' = [roles EXCEPT ![r] = Append(roles[r], c)]
    BY Zenon DEF AddRole
  <1>3. roles'[r] = Append(roles[r], c) /\ \A q \in Realms : q # r => roles'[q] = roles[q]
    BY <1>2, Zenon DEF TypeOK
  <1>4. CurrentRole(Append(roles[r], c), u) = role
    BY <1>1, AppendedRole, Zenon
  <1>5. \A v \in Users : v # u => CurrentRole(Append(roles[r], c), v) = CurrentRole(roles[r], v)
    BY <1>1, OtherRolesUnchanged, Zenon
  <1>6. Append(roles[r], c) # <<>>
    BY <1>1
  <1> QED
    BY <1>3, <1>4, <1>5, <1>6, Zenon

(***************************************************************************)
(* A realm keeps an owner.                                                 *)
(***************************************************************************)

\* Only share and unshare can take the ownership of somebody away, and their
\* author then is another owner.
LEMMA RoleChangeKeepsOwner ==
    ASSUME TypeOK, RealmHasOwner, NEW r \in Realms, NEW u \in Users, NEW role \in Roles,
           NEW t \in Timestamps, NEW a \in devices, u # a.user, RealmExists(r),
           RoleChangeCheck(a, r, u, role), AddRole(r, u, role, t, a.id)
    PROVE  RealmHasOwner'
  <1>1. a.id \in Devices /\ a.user \in Users
    BY AuthorType, Zenon
  <1>2. /\ \A q \in Realms : q # r => roles'[q] = roles[q]
        /\ \A v \in Users : v # u => CurrentRole(roles'[r], v) = CurrentRole(roles[r], v)
    BY <1>1, AddRoleEffect, Zenon
  <1>3. \E v \in Users : CurrentRole(roles'[r], v) = "OWNER"
    <2>1. CASE CurrentRole(roles[r], u) = "OWNER"
      <3>1. CurrentRole(roles[r], a.user) = "OWNER"
        BY <2>1, Zenon DEF RoleChangeCheck, NeededRoles, Administrators
      <3> QED
        BY <1>1, <1>2, <3>1, Zenon
    <2>2. CASE CurrentRole(roles[r], u) # "OWNER"
      BY <1>2, <2>2, Zenon DEF RealmHasOwner
    <2> QED
      BY <2>1, <2>2, Zenon
  <1> QED
    BY <1>2, <1>3, Zenon DEF RealmHasOwner, RealmExists

LEMMA NextKeepsOwner == TypeOK /\ RealmHasOwner /\ [Next]_vars => RealmHasOwner'
  <1> SUFFICES ASSUME TypeOK, RealmHasOwner, [Next]_vars PROVE RealmHasOwner'
    BY Zenon
  <1>1. ASSUME UNCHANGED roles PROVE RealmHasOwner'
    BY <1>1, Zenon DEF RealmHasOwner, RealmExists
  <1>2. CASE CommonNext
    BY <1>1, <1>2 DEF CommonNext, Bootstrap, CreateUser, CreateDevice, RevokeUser, UpdateUser,
        InsertUser, InsertDevice, InsertRevocation, InsertProfile, realmVars
  <1>3. CASE VlobNext
    BY <1>1, <1>3 DEF VlobNext, CreateVlob, UpdateVlob, InsertVlob, realmVars
  <1>4. CASE UNCHANGED vars
    BY <1>1, <1>4, Zenon DEF vars
  <1>5. ASSUME NEW t \in Timestamps, NEW a \in devices, NEW r \in Realms, CreateRealm(a, r, t)
        PROVE  RealmHasOwner'
    <2>1. a.id \in Devices /\ a.user \in Users /\ "OWNER" \in Roles
      BY AuthorType, Zenon DEF Roles, RealmRoles
    <2>2. AddRole(r, a.user, "OWNER", t, a.id)
      BY <1>5, Zenon DEF CreateRealm, InsertRole
    <2>3. /\ \A q \in Realms : q # r => roles'[q] = roles[q]
          /\ CurrentRole(roles'[r], a.user) = "OWNER"
      BY <2>1, <2>2, AddRoleEffect, Zenon
    <2> QED
      BY <2>1, <2>3, Zenon DEF RealmHasOwner, RealmExists
  <1>6. ASSUME NEW t \in Timestamps, NEW a \in devices, NEW r \in Realms, NEW u \in Users,
               NEW role \in RealmRoles, NEW k \in KeyIndexes, Share(a, r, u, role, k, t)
        PROVE  RealmHasOwner'
    BY <1>6, RoleChangeKeepsOwner, Zenon
       DEF Share, ShareCheck, ShareRoleCheck, InsertShare, Roles
  <1>7. ASSUME NEW t \in Timestamps, NEW a \in devices, NEW r \in Realms, NEW u \in Users,
               Unshare(a, r, u, t)
        PROVE  RealmHasOwner'
    BY <1>7, RoleChangeKeepsOwner, Zenon DEF Unshare, UnshareCheck, InsertRole, Roles
  <1>8. ASSUME NEW t \in Timestamps, NEW a \in devices, NEW r \in Realms,
               NEW k \in KeyIndexes, NEW first \in BOOLEAN, Rename(a, r, k, first, t)
        PROVE  RealmHasOwner'
    BY <1>1, <1>8, Zenon DEF Rename, InsertName
  <1>9. ASSUME NEW t \in Timestamps, NEW a \in devices, NEW r \in Realms,
               NEW k \in KeyIndexes, NEW recipients \in SUBSET Users,
               RotateKey(a, r, k, recipients, t)
        PROVE  RealmHasOwner'
    BY <1>1, <1>9, Zenon DEF RotateKey, InsertRotation
  <1> QED
    BY <1>2, <1>3, <1>4, <1>5, <1>6, <1>7, <1>8, <1>9, ZenonT(30) DEF Next, RealmNext

\* No sequence of accepted shares and unshares leaves a realm without owner.
THEOREM RealmKeepsOwner == Spec => []RealmHasOwner
  <1>1. Init => RealmHasOwner
    BY Zenon DEF Init, RealmHasOwner, RealmExists
  <1> QED
    BY <1>1, NextKeepsOwner, OrganizationTypeCorrect, PTL DEF Spec

(***************************************************************************)
(* An organization keeps an active administrator.                          *)
(***************************************************************************)

\* Nothing is stored before the bootstrap; in particular nobody is revoked.
EmptyBeforeBootstrap ==
    devices = {} => revocations = {} /\ \A u \in Users : profiles[u] = <<>>

AdminInv == TypeOK /\ EmptyBeforeBootstrap /\ ActiveAdminExists

\* What AddProfile changes.
LEMMA AddProfileEffect ==
    ASSUME TypeOK, NEW u \in Users, NEW p \in Profiles, NEW t \in Timestamps,
           NEW author \in Authors, AddProfile(u, p, t, author)
    PROVE  /\ profiles'[u] # <<>>
           /\ profiles'[u][Len(profiles'[u])].profile = p
           /\ \A v \in Users : v # u => profiles'[v] = profiles[v]
  <1> DEFINE c == [profile |-> p, ts |-> t, author |-> author]
  <1>1. profiles[u] \in Seq(ProfileCerts) /\ c \in ProfileCerts
    BY Zenon DEF TypeOK, ProfileCerts
  <1>2. profiles' = [profiles EXCEPT ![u] = Append(profiles[u], c)]
    BY Zenon DEF AddProfile
  <1>3. profiles'[u] = Append(profiles[u], c)
    BY <1>2, Zenon DEF TypeOK
  <1>4. /\ Append(profiles[u], c) # <<>>
        /\ Append(profiles[u], c)[Len(Append(profiles[u], c))] = c
    BY <1>1
  <1> QED
    BY <1>2, <1>3, <1>4 DEF TypeOK

\* The author of an accepted administration request is an active administrator
\* other than the user it is about, and stays one.
LEMMA AdminRemains ==
    ASSUME TypeOK, NEW a \in devices, NEW u \in Users, u # a.user, IsActiveAdmin(a.user),
           profiles'[a.user] = profiles[a.user],
           \A c \in revocations' : c \in revocations \/ c.user = u
    PROVE  ActiveAdminExists'
  BY AuthorType, Zenon DEF ActiveAdminExists, IsActiveAdmin, IsActive, Exists, IsRevoked, CurrentProfile

LEMMA CommonKeepsAdmin == AdminInv /\ CommonNext => AdminInv'
  <1> SUFFICES ASSUME AdminInv, CommonNext PROVE AdminInv'
    BY Zenon
  <1> USE DEF AdminInv
  <1>1. TypeOK'
    BY CommonNextTypes, Zenon
  <1>2. ASSUME NEW u \in Users, NEW d \in Devices, NEW t \in Timestamps, Bootstrap(u, d, t)
        PROVE  EmptyBeforeBootstrap' /\ ActiveAdminExists'
    <2>1. devices' # {} /\ revocations' = {}
      BY <1>2, Zenon DEF Bootstrap, InsertUser, AddDevice, EmptyBeforeBootstrap
    <2>2. /\ profiles'[u] # <<>>
          /\ profiles'[u][Len(profiles'[u])].profile = "ADMIN"
      BY <1>2, AddProfileEffect, Zenon DEF Bootstrap, InsertUser, Profiles, Authors
    <2> QED
      BY <2>1, <2>2, Zenon DEF EmptyBeforeBootstrap, ActiveAdminExists, IsActiveAdmin, IsActive,
                        Exists, IsRevoked, CurrentProfile
  <1>3. ASSUME NEW a \in devices, NEW u \in Users, NEW d \in Devices, NEW p \in Profiles,
               NEW t \in Timestamps, CreateUser(a, u, d, p, t)
        PROVE  EmptyBeforeBootstrap' /\ ActiveAdminExists'
    <2>1. u # a.user /\ IsActiveAdmin(a.user)
      BY <1>3, Zenon DEF CreateUser, CreateUserCheck, IsActiveAdmin, IsActive
    <2>2. profiles'[a.user] = profiles[a.user]
      BY <1>3, <2>1, AddProfileEffect, AuthorType, Zenon DEF CreateUser, InsertUser
    <2>3. revocations' = revocations /\ devices' # {}
      BY <1>3, Zenon DEF CreateUser, InsertUser, AddDevice
    <2> QED
      BY <2>1, <2>2, <2>3, AdminRemains, Zenon DEF EmptyBeforeBootstrap
  <1>4. ASSUME NEW a \in devices, NEW d \in Devices, NEW t \in Timestamps,
               CreateDevice(a, d, t)
        PROVE  EmptyBeforeBootstrap' /\ ActiveAdminExists'
    <2>1. UNCHANGED <<profiles, revocations>> /\ devices # {} /\ devices' # {}
      BY <1>4, Zenon DEF CreateDevice, InsertDevice, AddDevice
    <2> QED
      BY <2>1, Zenon DEF EmptyBeforeBootstrap, ActiveAdminExists, IsActiveAdmin, IsActive,
                  Exists, IsRevoked, CurrentProfile
  <1>5. ASSUME NEW a \in devices, NEW u \in Users, NEW t \in Timestamps, RevokeUser(a, u, t)
        PROVE  EmptyBeforeBootstrap' /\ ActiveAdminExists'
    <2>1. u # a.user /\ IsActiveAdmin(a.user)
      BY <1>5, Zenon DEF RevokeUser, RevokeUserCheck
    <2>2. /\ UNCHANGED <<profiles, devices>>
          /\ \A c \in revocations' : c \in revocations \/ c.user = u
      BY <1>5 DEF RevokeUser, InsertRevocation
    <2> QED
      BY <2>1, <2>2, AdminRemains, Zenon DEF EmptyBeforeBootstrap
  <1>6. ASSUME NEW a \in devices, NEW u \in Users, NEW p \in Profiles,
               NEW t \in Timestamps, UpdateUser(a, u, p, t)
        PROVE  EmptyBeforeBootstrap' /\ ActiveAdminExists'
    <2>1. u # a.user /\ IsActiveAdmin(a.user)
      BY <1>6, Zenon DEF UpdateUser, UpdateUserCheck
    <2>2. UNCHANGED <<revocations, devices>> /\ profiles'[a.user] = profiles[a.user]
      BY <1>6, <2>1, AddProfileEffect, AuthorType, Zenon DEF UpdateUser, InsertProfile
    <2> QED
      BY <2>1, <2>2, AdminRemains, Zenon DEF EmptyBeforeBootstrap
  <1> QED
    BY <1>1, <1>2, <1>3, <1>4, <1>5, <1>6, Zenon DEF CommonNext

LEMMA RealmFrame ==
    ASSUME RealmNext
    PROVE  UNCHANGED commonVars /\ UNCHANGED vlobVars
  <1>1. ASSUME NEW t, NEW a, NEW r, CreateRealm(a, r, t)
        PROVE  UNCHANGED commonVars /\ UNCHANGED vlobVars
    BY <1>1, Zenon DEF CreateRealm, InsertRole
  <1>2. ASSUME NEW t, NEW a, NEW r, NEW u, NEW role, NEW k, Share(a, r, u, role, k, t)
        PROVE  UNCHANGED commonVars /\ UNCHANGED vlobVars
    BY <1>2, Zenon DEF Share, InsertShare
  <1>3. ASSUME NEW t, NEW a, NEW r, NEW u, Unshare(a, r, u, t)
        PROVE  UNCHANGED commonVars /\ UNCHANGED vlobVars
    BY <1>3, Zenon DEF Unshare, InsertRole
  <1>4. ASSUME NEW t, NEW a, NEW r, NEW k, NEW first, Rename(a, r, k, first, t)
        PROVE  UNCHANGED commonVars /\ UNCHANGED vlobVars
    BY <1>4, Zenon DEF Rename, InsertName
  <1>5. ASSUME NEW t, NEW a, NEW r, NEW k, NEW recipients, RotateKey(a, r, k, recipients, t)
        PROVE  UNCHANGED commonVars /\ UNCHANGED vlobVars
    BY <1>5, Zenon DEF RotateKey, InsertRotation
  <1> QED
    BY <1>1, <1>2, <1>3, <1>4, <1>5, Zenon DEF RealmNext

LEMMA NextKeepsAdmin == AdminInv /\ [Next]_vars => AdminInv'
  <1> SUFFICES ASSUME AdminInv, [Next]_vars PROVE AdminInv'
    BY Zenon
  <1>1. TypeOK'
    BY NextTypes, Zenon DEF AdminInv
  <1>2. ASSUME UNCHANGED commonVars PROVE AdminInv'
    BY <1>1, <1>2, Zenon DEF AdminInv, commonVars, EmptyBeforeBootstrap, ActiveAdminExists,
                      IsActiveAdmin, IsActive, Exists, IsRevoked, CurrentProfile
  <1>3. CASE RealmNext
    BY <1>2, <1>3, RealmFrame, Zenon
  <1>4. CASE VlobNext
    BY <1>2, <1>4 DEF VlobNext, CreateVlob, UpdateVlob, InsertVlob
  <1>5. CASE UNCHANGED vars
    BY <1>2, <1>5, Zenon DEF vars, commonVars
  <1> QED
    BY <1>3, <1>4, <1>5, CommonKeepsAdmin, Zenon DEF Next

\* Administrators can revoke and demote each other as they like, one active
\* administrator always remains.
THEOREM AdminRemainsActive == Spec => []ActiveAdminExists
  <1>1. Init => AdminInv
    BY InitTypes, ZenonT(30) DEF Init, AdminInv, EmptyBeforeBootstrap, ActiveAdminExists
  <1>2. AdminInv => ActiveAdminExists
    BY Zenon DEF AdminInv
  <1> QED
    BY <1>1, <1>2, NextKeepsAdmin, PTL DEF Spec

=============================================================================
