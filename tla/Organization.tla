---------------------------- MODULE Organization ----------------------------
(***************************************************************************)
(* What one organization of the Parsec server promises: its users and      *)
(* devices (the common topic), its realms with their roles, keys and names *)
(* (one topic per realm) and the vlobs of each realm, with one atomic      *)
(* action per request the server accepts.  A request the server refuses,   *)
(* or answers with the idempotent outcome, changes nothing.                *)
(*                                                                         *)
(* Timestamps come from the clients, so they need not follow the order in  *)
(* which the server accepts the requests; what is refused is only what     *)
(* RequireGreaterTimestamp refuses.                                        *)
(*                                                                         *)
(* Source: server/parsec/components/memory/{organization,user,realm,vlob,  *)
(* datamodel}.py; the Known.. and ..Acceptable operators translate what    *)
(* every client checks in libparsec/crates/client/src/certif/.             *)
(***************************************************************************)
EXTENDS Naturals, Sequences, FiniteSets

CONSTANTS
    Users, Devices, Realms, Vlobs,
    Timestamps,         \* client-provided, within the server's ballpark
    HumanHandle,        \* the human handle a user id is enrolled with
    ActiveUsersLimit,   \* organization setting
    KeyIndexes,         \* key indexes a request may carry
    MaxVersions,        \* bound on the versions of one vlob
    Root                \* author of what the root key signs

ASSUME TimestampsAssumption == Timestamps \subseteq Nat \ {0}
ASSUME RootAssumption == Root \notin Devices
ASSUME KeyIndexesAssumption == KeyIndexes \subseteq Nat
ASSUME LimitAssumption == ActiveUsersLimit \in Nat /\ MaxVersions \in Nat

Profiles == {"ADMIN", "STANDARD", "OUTSIDER"}
RealmRoles == {"OWNER", "MANAGER", "CONTRIBUTOR", "READER"}
Roles == RealmRoles \cup {"NONE"}
Administrators == {"OWNER", "MANAGER"}
Writers == {"OWNER", "MANAGER", "CONTRIBUTOR"}

Authors == Devices \cup {Root}
ProfileCerts == [profile : Profiles, ts : Timestamps, author : Authors]
RevokedCerts == [user : Users, ts : Timestamps, author : Authors]
DeviceCerts == [id : Devices, user : Users, ts : Timestamps, author : Authors]
RoleCerts == [user : Users, role : Roles, ts : Timestamps, author : Devices]
KeyAccess == [user : Users, ts : Timestamps]
RotationCerts == [access : SUBSET KeyAccess, ts : Timestamps, author : Devices]
NameCerts == [key : Nat, ts : Timestamps, author : Devices]
Atoms == [key : Nat, ts : Timestamps, author : Devices]
VlobUpdates == [vlob : Vlobs, version : Nat]

VARIABLES
    commonTs,       \* per_topic_last_timestamp["common"], 0 at the epoch
    profiles,       \* a user's certificate, then its profile updates
    revocations,    \* cooked_revoked of the revoked users
    devices,        \* device certificates
    realmTs,        \* per_topic_last_timestamp[("realm", id)]
    roles,          \* realm.roles; a realm exists once this is not empty
    rotations,      \* realm.key_rotations, the i-th one has key_index i
    renames,        \* realm.renames
    lastVlob,       \* realm.last_vlob_timestamp, 0 for None
    vlobs,          \* realm.vlobs: the versions of each vlob
    vlobUpdates     \* realm.vlob_updates

commonVars == <<commonTs, profiles, revocations, devices>>
realmVars == <<realmTs, roles, rotations, renames>>
vlobVars == <<lastVlob, vlobs, vlobUpdates>>
vars == <<commonTs, profiles, revocations, devices, realmTs, roles, rotations,
          renames, lastVlob, vlobs, vlobUpdates>>

TypeOK ==
    /\ commonTs \in Nat
    /\ profiles \in [Users -> Seq(ProfileCerts)]
    /\ revocations \in SUBSET RevokedCerts
    /\ devices \in SUBSET DeviceCerts
    /\ realmTs \in [Realms -> Nat]
    /\ roles \in [Realms -> Seq(RoleCerts)]
    /\ rotations \in [Realms -> Seq(RotationCerts)]
    /\ renames \in [Realms -> Seq(NameCerts)]
    /\ lastVlob \in [Realms -> Nat]
    /\ vlobs \in [Realms -> [Vlobs -> Seq(Atoms)]]
    /\ vlobUpdates \in [Realms -> Seq(VlobUpdates)]

Init ==
    /\ commonTs = 0
    /\ profiles = [u \in Users |-> <<>>]
    /\ revocations = {}
    /\ devices = {}
    /\ realmTs = [r \in Realms |-> 0]
    /\ roles = [r \in Realms |-> <<>>]
    /\ rotations = [r \in Realms |-> <<>>]
    /\ renames = [r \in Realms |-> <<>>]
    /\ lastVlob = [r \in Realms |-> 0]
    /\ vlobs = [r \in Realms |-> [v \in Vlobs |-> <<>>]]
    /\ vlobUpdates = [r \in Realms |-> <<>>]

(***************************************************************************)
(* What the server knows when it handles a request.                        *)
(***************************************************************************)

Exists(u) == profiles[u] # <<>>

IsRevoked(u) == \E c \in revocations : c.user = u

IsActive(u) == Exists(u) /\ ~IsRevoked(u)

CurrentProfile(u) == profiles[u][Len(profiles[u])].profile

IsActiveAdmin(u) == IsActive(u) /\ CurrentProfile(u) = "ADMIN"

RealmExists(r) == roles[r] # <<>>

\* The last role certificate about a user, in the order of realm.roles.
IsLastFor(rs, u, i) ==
    /\ i \in DOMAIN rs
    /\ rs[i].user = u
    /\ \A j \in DOMAIN rs : rs[j].user = u => j <= i

CurrentRole(rs, u) ==
    IF \E i \in DOMAIN rs : IsLastFor(rs, u, i)
    THEN rs[CHOOSE i \in DOMAIN rs : IsLastFor(rs, u, i)].role
    ELSE "NONE"

Participants(rs) == {u \in Users : CurrentRole(rs, u) # "NONE"}

LastKey(r) == Len(rotations[r])

\* Roles an author needs to change somebody's role from one to another.
NeededRoles(old, new) ==
    IF old \in Administrators \/ new \in Administrators THEN {"OWNER"} ELSE Administrators

(***************************************************************************)
(* Requests.  Each has up to two checks, made by the code under the locks  *)
(* named here, and an insertion.  `a` is the device certificate of the     *)
(* author; the order of the conjuncts of a check does not matter, since a  *)
(* refused request changes nothing.                                        *)
(*                                                                         *)
(* Common topic: organization bootstrap, users and devices.                *)
(***************************************************************************)

AddDevice(d, u, t, author) ==
    devices' = devices \cup {[id |-> d, user |-> u, ts |-> t, author |-> author]}

AddProfile(u, p, t, author) ==
    profiles' = [profiles EXCEPT ![u] =
                    Append(@, [profile |-> p, ts |-> t, author |-> author])]

InsertUser(u, d, p, t, author) ==
    /\ commonTs' = t
    /\ AddProfile(u, p, t, author)
    /\ AddDevice(d, u, t, author)
    /\ UNCHANGED <<revocations, realmVars, vlobVars>>

Bootstrap(u, d, t) ==
    /\ devices = {}
    /\ InsertUser(u, d, "ADMIN", t, Root)

\* Mutant of ActiveUserLimitReached: off by one.
ActiveUserLimitPassed ==
    ActiveUsersLimit < Cardinality({u \in Users : IsActive(u)})

ActiveUserLimitReached ==
    ActiveUsersLimit <= Cardinality({u \in Users : IsActive(u)})

\* Mutant of CreateUserCheck: the author's profile is not checked.
CreateUserCheckAnyProfile(a, u, d) ==
    /\ ~Exists(u)
    /\ \A c \in devices : c.id # d
    /\ IsActive(a.user)
    /\ ~ActiveUserLimitReached
    /\ \A v \in Users : IsActive(v) => HumanHandle[v] # HumanHandle[u]

\* Under the common write lock.
CreateUserCheck(a, u, d) ==
    /\ ~Exists(u)
    /\ \A c \in devices : c.id # d
    /\ IsActiveAdmin(a.user)
    /\ ~ActiveUserLimitReached
    /\ \A v \in Users : IsActive(v) => HumanHandle[v] # HumanHandle[u]

CreateUser(a, u, d, p, t) ==
    /\ t > commonTs
    /\ CreateUserCheck(a, u, d)
    /\ InsertUser(u, d, p, t, a.id)

\* Under the common write lock.
CreateDeviceCheck(a, d) ==
    /\ IsActive(a.user)
    /\ \A c \in devices : c.id # d

InsertDevice(d, u, t, author) ==
    /\ commonTs' = t
    /\ AddDevice(d, u, t, author)
    /\ UNCHANGED <<profiles, revocations, realmVars, vlobVars>>

CreateDevice(a, d, t) ==
    /\ t > commonTs
    /\ CreateDeviceCheck(a, d)
    /\ InsertDevice(d, a.user, t, a.id)

\* Mutant of RevokeUserCheck: one may revoke oneself.
RevokeUserCheckSelf(a, u) == IsActiveAdmin(a.user) /\ IsActive(u)

\* Under the common write lock.
RevokeUserCheck(a, u) == u # a.user /\ IsActiveAdmin(a.user) /\ IsActive(u)

\* The realms whose topics are then read locked, and whose certificates and
\* vlobs the revocation must be newer than.
RealmsOf(u) == {r \in Realms : CurrentRole(roles[r], u) # "NONE"}

InsertRevocation(u, t, author) ==
    /\ commonTs' = t
    /\ revocations' = revocations \cup {[user |-> u, ts |-> t, author |-> author]}
    /\ UNCHANGED <<profiles, devices, realmVars, vlobVars>>

\* Mutant of RevokeUser: only compared with the common topic.
RevokeUserIgnoringRealms(a, u, t) ==
    /\ t > commonTs
    /\ RevokeUserCheck(a, u)
    /\ InsertRevocation(u, t, a.id)

RevokeUser(a, u, t) ==
    /\ t > commonTs
    /\ RevokeUserCheck(a, u)
    /\ \A r \in RealmsOf(u) : t > realmTs[r] /\ t > lastVlob[r]
    /\ InsertRevocation(u, t, a.id)

\* Under the common write lock.
UpdateUserCheck(a, u, p) ==
    u # a.user /\ IsActiveAdmin(a.user) /\ IsActive(u) /\ CurrentProfile(u) # p

InsertProfile(u, p, t, author) ==
    /\ commonTs' = t
    /\ AddProfile(u, p, t, author)
    /\ UNCHANGED <<revocations, devices, realmVars, vlobVars>>

UpdateUser(a, u, p, t) ==
    /\ t > commonTs
    /\ UpdateUserCheck(a, u, p)
    /\ InsertProfile(u, p, t, a.id)

(***************************************************************************)
(* Realm topics.                                                           *)
(***************************************************************************)

\* Mutant of NewerThanTopics: may be as old as the last certificates.
NotOlderThanTopics(r, t) == t >= commonTs /\ t >= realmTs[r]

NewerThanTopics(r, t) == t > commonTs /\ t > realmTs[r]

AddRole(r, u, role, t, author) ==
    /\ realmTs' = [realmTs EXCEPT ![r] = t]
    /\ roles' = [roles EXCEPT ![r] =
                    Append(@, [user |-> u, role |-> role, ts |-> t, author |-> author])]

InsertRole(r, u, role, t, author) ==
    /\ AddRole(r, u, role, t, author)
    /\ UNCHANGED <<commonVars, rotations, renames, vlobVars>>

\* Under the common read lock; the realm topic is write locked afterwards.
CreateRealmCheck(a, r) ==
    ~RealmExists(r) /\ IsActive(a.user) /\ CurrentProfile(a.user) # "OUTSIDER"

CreateRealm(a, r, t) ==
    /\ NewerThanTopics(r, t)
    /\ CreateRealmCheck(a, r)
    /\ InsertRole(r, a.user, "OWNER", t, a.id)

\* Share and unshare, under the common read lock.
ShareCheck(a, r, u) == RealmExists(r) /\ u # a.user /\ IsActive(a.user) /\ IsActive(u)

\* Mutant of UnshareCheck: one may remove oneself.
UnshareCheckSelf(a, r, u) == RealmExists(r) /\ IsActive(a.user) /\ Exists(u)

\* The recipient may be revoked already.
UnshareCheck(a, r, u) == RealmExists(r) /\ u # a.user /\ IsActive(a.user) /\ Exists(u)

\* Share and unshare, under the realm write lock.
RoleChangeCheck(a, r, u, role) ==
    LET old == CurrentRole(roles[r], u) IN
        /\ CurrentRole(roles[r], a.user) \in NeededRoles(old, role)
        /\ old # role

ShareRoleCheck(a, r, u, role, k) ==
    /\ LastKey(r) # 0
    /\ k = LastKey(r)
    /\ role # "NONE"
    /\ RoleChangeCheck(a, r, u, role)
    /\ ~(CurrentProfile(u) = "OUTSIDER" /\ role \in Administrators)

InsertShare(r, u, role, k, t, author) ==
    /\ AddRole(r, u, role, t, author)
    /\ rotations' = [rotations EXCEPT ![r][k].access = @ \cup {[user |-> u, ts |-> t]}]
    /\ UNCHANGED <<commonVars, renames, vlobVars>>

Share(a, r, u, role, k, t) ==
    /\ NewerThanTopics(r, t)
    /\ ShareCheck(a, r, u)
    /\ t > lastVlob[r]
    /\ ShareRoleCheck(a, r, u, role, k)
    /\ InsertShare(r, u, role, k, t, a.id)

\* Mutant of Unshare: not compared with last_vlob_timestamp.
UnshareIgnoringVlobs(a, r, u, t) ==
    /\ NewerThanTopics(r, t)
    /\ UnshareCheck(a, r, u)
    /\ RoleChangeCheck(a, r, u, "NONE")
    /\ InsertRole(r, u, "NONE", t, a.id)

Unshare(a, r, u, t) ==
    /\ NewerThanTopics(r, t)
    /\ UnshareCheck(a, r, u)
    /\ t > lastVlob[r]
    /\ RoleChangeCheck(a, r, u, "NONE")
    /\ InsertRole(r, u, "NONE", t, a.id)

\* Rename, rotate_key and the vlob operations, under the common read lock.
AuthorCheck(a, r) == RealmExists(r) /\ IsActive(a.user)

\* Under the realm write lock.
RenameCheck(a, r, k, initialNameOrFail) ==
    /\ k = LastKey(r)
    /\ ~(initialNameOrFail /\ renames[r] # <<>>)
    /\ CurrentRole(roles[r], a.user) = "OWNER"

InsertName(r, k, t, author) ==
    /\ realmTs' = [realmTs EXCEPT ![r] = t]
    /\ renames' = [renames EXCEPT ![r] =
                    Append(@, [key |-> k, ts |-> t, author |-> author])]
    /\ UNCHANGED <<commonVars, roles, rotations, vlobVars>>

Rename(a, r, k, initialNameOrFail, t) ==
    /\ NewerThanTopics(r, t)
    /\ AuthorCheck(a, r)
    /\ RenameCheck(a, r, k, initialNameOrFail)
    /\ InsertName(r, k, t, a.id)

\* Mutant of RotateKeyCheck: some participants may be left out.
RotateKeyCheckPartial(a, r, k, recipients) ==
    /\ k = LastKey(r) + 1
    /\ recipients \subseteq Participants(roles[r])
    /\ CurrentRole(roles[r], a.user) = "OWNER"

\* Under the realm write lock.  `recipients` are the users the request
\* provides a keys bundle access for.
RotateKeyCheck(a, r, k, recipients) ==
    /\ k = LastKey(r) + 1
    /\ recipients = Participants(roles[r])
    /\ CurrentRole(roles[r], a.user) = "OWNER"

InsertRotation(r, recipients, t, author) ==
    /\ realmTs' = [realmTs EXCEPT ![r] = t]
    /\ rotations' = [rotations EXCEPT ![r] =
                        Append(@, [access |-> {[user |-> u, ts |-> t] : u \in recipients},
                                   ts |-> t, author |-> author])]
    /\ UNCHANGED <<commonVars, roles, renames, vlobVars>>

RotateKey(a, r, k, recipients, t) ==
    /\ NewerThanTopics(r, t)
    /\ AuthorCheck(a, r)
    /\ RotateKeyCheck(a, r, k, recipients)
    /\ InsertRotation(r, recipients, t, a.id)

(***************************************************************************)
(* Vlobs.                                                                  *)
(***************************************************************************)

\* Under the realm read lock.
WriteCheck(a, r, k) == k = LastKey(r) /\ CurrentRole(roles[r], a.user) \in Writers

Atom(k, t, author) == [key |-> k, ts |-> t, author |-> author]

\* The insertion both operations end with: `versions` is the vlob's new list.
InsertVlob(r, v, versions, t) ==
    /\ lastVlob' = [lastVlob EXCEPT ![r] = IF t > @ THEN t ELSE @]
    /\ vlobs' = [vlobs EXCEPT ![r][v] = versions]
    /\ vlobUpdates' = [vlobUpdates EXCEPT ![r] =
                        Append(@, [vlob |-> v, version |-> Len(versions)])]
    /\ UNCHANGED <<commonVars, realmVars>>

\* Mutant of CreateVlob: a vlob that exists is created again.
CreateVlobAgain(a, r, v, k, t) ==
    /\ NewerThanTopics(r, t)
    /\ AuthorCheck(a, r)
    /\ WriteCheck(a, r, k)
    /\ InsertVlob(r, v, <<Atom(k, t, a.id)>>, t)

CreateVlob(a, r, v, k, t) ==
    /\ NewerThanTopics(r, t)
    /\ AuthorCheck(a, r)
    /\ WriteCheck(a, r, k)
    /\ vlobs[r][v] = <<>>
    /\ InsertVlob(r, v, <<Atom(k, t, a.id)>>, t)

UpdateVlob(a, r, v, k, version, t) ==
    /\ NewerThanTopics(r, t)
    /\ AuthorCheck(a, r)
    /\ WriteCheck(a, r, k)
    /\ vlobs[r][v] # <<>>
    /\ version = Len(vlobs[r][v]) + 1
    /\ InsertVlob(r, v, Append(vlobs[r][v], Atom(k, t, a.id)), t)

CommonNext ==
    \E t \in Timestamps :
        \/ \E u \in Users, d \in Devices : Bootstrap(u, d, t)
        \/ \E a \in devices :
            \/ \E u \in Users, d \in Devices, p \in Profiles : CreateUser(a, u, d, p, t)
            \/ \E d \in Devices : CreateDevice(a, d, t)
            \/ \E u \in Users : RevokeUser(a, u, t)
            \/ \E u \in Users, p \in Profiles : UpdateUser(a, u, p, t)

RealmNext ==
    \E t \in Timestamps, a \in devices, r \in Realms :
        \/ CreateRealm(a, r, t)
        \/ \E u \in Users, role \in RealmRoles, k \in KeyIndexes :
            Share(a, r, u, role, k, t)
        \/ \E u \in Users : Unshare(a, r, u, t)
        \/ \E k \in KeyIndexes, first \in BOOLEAN : Rename(a, r, k, first, t)
        \/ \E k \in KeyIndexes, recipients \in SUBSET Users :
            RotateKey(a, r, k, recipients, t)

VlobNext ==
    \E t \in Timestamps, a \in devices, r \in Realms, v \in Vlobs, k \in KeyIndexes :
        \/ CreateVlob(a, r, v, k, t)
        \/ \E version \in 2 .. MaxVersions : UpdateVlob(a, r, v, k, version, t)

Next == CommonNext \/ RealmNext \/ VlobNext

Spec == Init /\ [][Next]_vars

(***************************************************************************)
(* What a client knows at a given time and requires of what it is sent.    *)
(* A client is sent a topic's certificates ordered by timestamp, the       *)
(* common topic first, and checks each one against those it has stored;    *)
(* what was stored before a certificate dated t is what is dated t - 1 or  *)
(* earlier.                                                                *)
(***************************************************************************)

KnownDevice(d, u, t) == \E c \in devices : c.id = d /\ c.user = u /\ c.ts <= t

KnownUser(u, t) == Exists(u) /\ profiles[u][1].ts <= t

RevokedBy(u, t) == \E c \in revocations : c.user = u /\ c.ts <= t

KnownProfile(u, t) ==
    LET known == {i \in DOMAIN profiles[u] : profiles[u][i].ts <= t}
    IN  profiles[u][CHOOSE i \in known :
            \A j \in known : profiles[u][j].ts <= profiles[u][i].ts].profile

\* The role certificate about a user with the greatest timestamp up to t.
IsNewestFor(rs, u, t, i) ==
    /\ i \in DOMAIN rs
    /\ rs[i].user = u
    /\ rs[i].ts <= t
    /\ \A j \in DOMAIN rs : rs[j].user = u /\ rs[j].ts <= t => rs[j].ts <= rs[i].ts

RoleAt(rs, u, t) ==
    IF \E i \in DOMAIN rs : IsNewestFor(rs, u, t, i)
    THEN rs[CHOOSE i \in DOMAIN rs : IsNewestFor(rs, u, t, i)].role
    ELSE "NONE"

AdminAuthor(author, t) ==
    \E u \in Users :
        /\ KnownDevice(author, u, t - 1)
        /\ ~RevokedBy(u, t)
        /\ KnownProfile(u, t - 1) = "ADMIN"

\* check_user_certificate_consistency
UserCertAcceptable(c) ==
    IF c.author = Root THEN \A d \in devices : d.ts >= c.ts ELSE AdminAuthor(c.author, c.ts)

\* check_user_update_certificate_consistency, check_revoked_user_certificate_consistency
AboutUserAcceptable(u, c) ==
    /\ AdminAuthor(c.author, c.ts)
    /\ ~KnownDevice(c.author, u, c.ts)
    /\ KnownUser(u, c.ts - 1)
    /\ ~RevokedBy(u, c.ts - 1)

\* check_device_certificate_consistency: a device is added by one of its user, or
\* is the first one and comes with the user.
DeviceCertAcceptable(c) ==
    /\ KnownUser(c.user, c.ts)
    /\ ~RevokedBy(c.user, c.ts)
    /\ \A d \in devices : d.id = c.id => d = c
    /\ \/ KnownDevice(c.author, c.user, c.ts - 1)
       \/ /\ profiles[c.user][1].ts = c.ts
          /\ profiles[c.user][1].author = c.author
          /\ c.author = Root \/ AdminAuthor(c.author, c.ts)

\* The first test of each of the check functions: a certificate is newer than
\* those of its topic that are stored, so no two have the same timestamp (the
\* user and its first device apart).
CommonStamps ==
    (UNION {{<<"user", u, i, profiles[u][i].ts>> : i \in DOMAIN profiles[u]} : u \in Users})
    \cup {<<"revoked", c.user, 0, c.ts>> : c \in revocations}
    \cup {<<"device", c.id, 0, c.ts>> : c \in {d \in devices : d.ts # profiles[d.user][1].ts}}

RealmStamps(r) ==
    {<<"role", r, i, roles[r][i].ts>> : i \in DOMAIN roles[r]}
    \cup {<<"name", r, i, renames[r][i].ts>> : i \in DOMAIN renames[r]}
    \cup {<<"key", r, i, rotations[r][i].ts>> : i \in DOMAIN rotations[r]}

Distinct(stamps) == \A x, y \in stamps : x[4] = y[4] => x = y

\* check_realm_role_certificate_consistency, without its tests on the
\* recipient's revocation and profile.
RoleCertAcceptable(rs, c) ==
    /\ KnownUser(c.user, c.ts)
    /\ \E author \in Users :
        /\ KnownDevice(c.author, author, c.ts)
        /\ IF \A i \in DOMAIN rs : rs[i].ts >= c.ts
           THEN author = c.user /\ c.role = "OWNER"
           ELSE LET old == RoleAt(rs, c.user, c.ts - 1)
                IN  /\ RoleAt(rs, author, c.ts - 1) \in NeededRoles(old, c.role)
                    /\ old # c.role

\* The author's role in check_realm_name_certificate_consistency and
\* check_realm_key_rotation_certificate_consistency.
OwnerCertAcceptable(rs, c) ==
    \E author \in Users :
        /\ KnownDevice(c.author, author, c.ts)
        /\ RoleAt(rs, author, c.ts - 1) = "OWNER"

\* validate_manifest, without its test on the author's revocation.
AtomAcceptable(rs, c) ==
    \E author \in Users :
        /\ KnownDevice(c.author, author, c.ts)
        /\ RoleAt(rs, author, c.ts) \in Writers

ContentsOf(s) == {s[i] : i \in DOMAIN s}

(***************************************************************************)
(* Properties.                                                             *)
(***************************************************************************)

\* Whatever timestamps the authors chose, every certificate of the common
\* topic the server stored passes the client's consistency checks.
CommonCertsAcceptable ==
    /\ Distinct(CommonStamps)
    /\ \A u \in Users : \A i \in DOMAIN profiles[u] :
        IF i = 1 THEN UserCertAcceptable(profiles[u][i])
                 ELSE /\ AboutUserAcceptable(u, profiles[u][i])
                      /\ KnownProfile(u, profiles[u][i].ts - 1) # profiles[u][i].profile
    /\ \A c \in revocations : AboutUserAcceptable(c.user, c)
    /\ \A c \in devices : DeviceCertAcceptable(c)

\* Every role, name and key rotation certificate of a realm was authored by
\* a device and with a role that every client sees its author had at the
\* certificate's own timestamp.
RealmCertsAcceptable ==
    \A r \in Realms :
        /\ Distinct(RealmStamps(r))
        /\ \A c \in ContentsOf(roles[r]) : RoleCertAcceptable(roles[r], c)
        /\ \A c \in ContentsOf(renames[r]) \cup ContentsOf(rotations[r]) :
            OwnerCertAcceptable(roles[r], c)

\* Every stored vlob version was authored by a device that existed, for a
\* user who could write in the realm, at the timestamp of the version: a later
\* share or unshare never rewrites the past.
VlobsAcceptable ==
    \A r \in Realms, v \in Vlobs :
        \A c \in ContentsOf(vlobs[r][v]) : AtomAcceptable(roles[r], c)

\* The user was removed from the realm at some time.
Left(rs, u) == \E i \in DOMAIN rs : rs[i].user = u /\ rs[i].role = "NONE"

\* A revocation is newer than everything its user did in the realms it never
\* left: no vlob, name or key rotation of theirs, and no role granted to them,
\* is dated at or after the revocation.
RevocationIsCausal ==
    \A x \in revocations, r \in Realms :
        ~Left(roles[r], x.user) =>
            /\ \A c \in ContentsOf(roles[r]) : c.user = x.user => c.ts < x.ts
            /\ \A c \in ContentsOf(renames[r]) \cup ContentsOf(rotations[r])
                        \cup UNION {ContentsOf(vlobs[r][v]) : v \in Vlobs} :
                KnownDevice(c.author, x.user, c.ts) => c.ts < x.ts

\* Once bootstrapped an organization always has an administrator who is not
\* revoked: administrators cannot revoke or demote themselves, and not each
\* other at once.
ActiveAdminExists == devices # {} => \E u \in Users : IsActiveAdmin(u)

\* Revocations free seats and human handles for later enrollments, and still
\* no two active users ever are the same human, nor are there more of them than
\* the organization's limit (the bootstrap ignores a limit of 0).
EnrollmentIsLimited ==
    LET active == {u \in Users : IsActive(u)} IN
        /\ Cardinality(active) <= IF ActiveUsersLimit = 0 THEN 1 ELSE ActiveUsersLimit
        /\ \A u, v \in active : u # v => HumanHandle[u] # HumanHandle[v]

\* A realm always keeps an owner, though owners may change or remove each
\* other's role.
RealmHasOwner ==
    \A r \in Realms :
        RealmExists(r) => \E u \in Users : CurrentRole(roles[r], u) = "OWNER"

\* Every participant of a realm can get the last key of the realm (a realm
\* without a key has its creator as only participant), and a key was only
\* ever given to a user who was a participant at that time.
KeysFollowRoles ==
    \A r \in Realms :
        /\ IF LastKey(r) = 0
           THEN Len(roles[r]) <= 1
           ELSE \A u \in Participants(roles[r]) :
                    \E x \in rotations[r][LastKey(r)].access : x.user = u
        /\ \A c \in ContentsOf(rotations[r]) : \A x \in c.access :
            RoleAt(roles[r], x.user, x.ts) # "NONE"

\* poll_changes: the version it answers for a vlob changed since a checkpoint.
PolledVersion(r, v, checkpoint) ==
    LET since == {i \in DOMAIN vlobUpdates[r] : i > checkpoint /\ vlobUpdates[r][i].vlob = v}
    IN  IF since = {} THEN 0
        ELSE vlobUpdates[r][CHOOSE i \in since : \A j \in since : j <= i].version

\* A client that polls from any checkpoint learns the current version of
\* every vlob changed since, and every version is in the update log once.
PollIsComplete ==
    \A r \in Realms, v \in Vlobs :
        /\ \A checkpoint \in 0 .. Len(vlobUpdates[r]) :
            PolledVersion(r, v, checkpoint) \in {0, Len(vlobs[r][v])}
        /\ Cardinality({i \in DOMAIN vlobUpdates[r] : vlobUpdates[r][i].vlob = v})
            = Len(vlobs[r][v])

\* A revoked user is not allowed to modify a realm: no vlob, in any realm, is
\* dated at or after the revocation of its author (what validate_manifest
\* requires of every vlob).
NoVlobAfterRevocation ==
    \A x \in revocations, r \in Realms, v \in Vlobs :
        \A c \in ContentsOf(vlobs[r][v]) :
            KnownDevice(c.author, x.user, c.ts) => c.ts < x.ts

\* An OUTSIDER only is OWNER or MANAGER because of a later profile change: no
\* stored certificate gives such a role to a user whom every client sees as an
\* OUTSIDER at the certificate's own timestamp.
NoRoleForOutsider ==
    \A r \in Realms : \A c \in ContentsOf(roles[r]) :
        c.role \in Administrators => KnownProfile(c.user, c.ts) # "OUTSIDER"
=============================================================================
