---------------------------- MODULE CommonProofs ----------------------------
(***************************************************************************)
(* What the clients check of the users, devices and revocations holds of   *)
(* everything the server stores; the enrollments and the update log of a   *)
(* realm stay within their limits, for any set of users, devices, realms   *)
(* and vlobs and any choice of timestamps.                                 *)
(***************************************************************************)
EXTENDS OrganizationProofs

(***************************************************************************)
(* What a client that has device certificates ds, revocations rv and       *)
(* profiles pf accepts: the Known.. and ..Acceptable operators, with the   *)
(* certificates they are about as parameters.                              *)
(***************************************************************************)

DeviceIn(ds, d, u, t) == \E c \in ds : c.id = d /\ c.user = u /\ c.ts <= t

UserIn(pf, u, t) == pf[u] # <<>> /\ pf[u][1].ts <= t

RevokedIn(rv, u, t) == \E c \in rv : c.user = u /\ c.ts <= t

ProfileIn(ps, t) ==
    LET known == {i \in DOMAIN ps : ps[i].ts <= t}
    IN  ps[CHOOSE i \in known : \A j \in known : ps[j].ts <= ps[i].ts].profile

AdminIn(ds, rv, pf, author, t) ==
    \E u \in Users :
        DeviceIn(ds, author, u, t - 1) /\ ~RevokedIn(rv, u, t) /\ ProfileIn(pf[u], t - 1) = "ADMIN"

UserCertIn(ds, rv, pf, c) ==
    IF c.author = Root THEN \A d \in ds : d.ts >= c.ts ELSE AdminIn(ds, rv, pf, c.author, c.ts)

AboutUserIn(ds, rv, pf, u, c) ==
    /\ AdminIn(ds, rv, pf, c.author, c.ts)
    /\ ~DeviceIn(ds, c.author, u, c.ts)
    /\ UserIn(pf, u, c.ts - 1)
    /\ ~RevokedIn(rv, u, c.ts - 1)

DeviceCertIn(ds, rv, pf, c) ==
    /\ UserIn(pf, c.user, c.ts)
    /\ ~RevokedIn(rv, c.user, c.ts)
    /\ \A d \in ds : d.id = c.id => d = c
    /\ \/ DeviceIn(ds, c.author, c.user, c.ts - 1)
       \/ /\ pf[c.user][1].ts = c.ts
          /\ pf[c.user][1].author = c.author
          /\ c.author = Root \/ AdminIn(ds, rv, pf, c.author, c.ts)

StampsIn(ds, rv, pf) ==
    (UNION {{<<"user", u, i, pf[u][i].ts>> : i \in DOMAIN pf[u]} : u \in Users})
    \cup {<<"revoked", c.user, 0, c.ts>> : c \in rv}
    \cup {<<"device", c.id, 0, c.ts>> : c \in {d \in ds : d.ts # pf[d.user][1].ts}}

ProfileCertIn(ds, rv, pf, u, i) ==
    IF i = 1 THEN UserCertIn(ds, rv, pf, pf[u][i])
             ELSE /\ AboutUserIn(ds, rv, pf, u, pf[u][i])
                  /\ ProfileIn(pf[u], pf[u][i].ts - 1) # pf[u][i].profile

AllAcceptable(ds, rv, pf) ==
    /\ \A u \in Users : \A i \in DOMAIN pf[u] : ProfileCertIn(ds, rv, pf, u, i)
    /\ \A c \in rv : AboutUserIn(ds, rv, pf, c.user, c)
    /\ \A c \in ds : DeviceCertIn(ds, rv, pf, c)

LEMMA CommonCertsAre ==
    CommonCertsAcceptable <=>
        Distinct(StampsIn(devices, revocations, profiles)) /\ AllAcceptable(devices, revocations, profiles)
  BY DEF CommonCertsAcceptable, CommonStamps, UserCertAcceptable, AboutUserAcceptable,
         DeviceCertAcceptable, AdminAuthor, KnownDevice, KnownUser, RevokedBy, KnownProfile, Exists,
         StampsIn, AllAcceptable, ProfileCertIn, UserCertIn, AboutUserIn, DeviceCertIn, AdminIn, DeviceIn, UserIn,
         RevokedIn, ProfileIn

LEMMA CommonCertsAreAfter ==
    CommonCertsAcceptable' <=>
        Distinct(StampsIn(devices', revocations', profiles')) /\ AllAcceptable(devices', revocations', profiles')
  BY DEF CommonCertsAcceptable, CommonStamps, UserCertAcceptable, AboutUserAcceptable,
         DeviceCertAcceptable, AdminAuthor, KnownDevice, KnownUser, RevokedBy, KnownProfile, Exists,
         StampsIn, AllAcceptable, ProfileCertIn, UserCertIn, AboutUserIn, DeviceCertIn, AdminIn, DeviceIn, UserIn,
         RevokedIn, ProfileIn

(***************************************************************************)
(* Certificates of the right types, dated, and the ones a request adds.    *)
(***************************************************************************)

Newest(ps, t, i) ==
    /\ i \in DOMAIN ps /\ ps[i].ts <= t
    /\ \A j \in DOMAIN ps : ps[j].ts <= t => ps[j].ts <= ps[i].ts

\* Profiles are ordered by timestamp; at any time after the first there is a newest.
ProfilesOrdered(ps) ==
    /\ \A i, j \in DOMAIN ps : i < j => ps[i].ts < ps[j].ts
    /\ \A t \in Nat : (\E i \in DOMAIN ps : ps[i].ts <= t) => \E i \in DOMAIN ps : Newest(ps, t, i)

Typed(ds, rv, pf) ==
    /\ ds \subseteq DeviceCerts /\ rv \subseteq RevokedCerts /\ pf \in [Users -> Seq(ProfileCerts)]
    /\ \A u \in Users : ProfilesOrdered(pf[u])

\* Nothing is newer than m.
DatedBy(ds, rv, pf, m) ==
    /\ \A c \in ds : c.ts <= m
    /\ \A c \in rv : c.ts <= m
    /\ \A u \in Users : \A i \in DOMAIN pf[u] : pf[u][i].ts <= m

\* What is added is dated t.
Grows(ds, rv, pf, es, sv, qf, t) ==
    /\ ds \subseteq es /\ \A c \in es \ ds : c.ts = t
    /\ rv \subseteq sv /\ \A c \in sv \ rv : c.ts = t
    /\ \A u \in Users : \A i \in DOMAIN pf[u] : i \in DOMAIN qf[u] /\ qf[u][i] = pf[u][i]
    /\ \A u \in Users : \A i \in DOMAIN qf[u] \ DOMAIN pf[u] : qf[u][i].ts = t

LEMMA CertTypes ==
    ASSUME NEW ds, NEW rv, NEW pf, Typed(ds, rv, pf)
    PROVE  /\ \A c \in ds : c.ts \in Nat \ {0} /\ c.user \in Users
           /\ \A c \in rv : c.ts \in Nat \ {0} /\ c.user \in Users
           /\ \A u \in Users : \A i \in DOMAIN pf[u] : pf[u][i].ts \in Nat \ {0} /\ i \in Nat \ {0}
           /\ \A u \in Users : pf[u] # <<>> <=> 1 \in DOMAIN pf[u]
  <1>1. \A c \in ds : c.ts \in Nat \ {0} /\ c.user \in Users
    BY TimestampsAssumption, ZenonT(30) DEF Typed, DeviceCerts
  <1>2. \A c \in rv : c.ts \in Nat \ {0} /\ c.user \in Users
    BY TimestampsAssumption, ZenonT(30) DEF Typed, RevokedCerts
  <1>3. ASSUME NEW u \in Users
        PROVE  /\ \A i \in DOMAIN pf[u] : pf[u][i].ts \in Nat \ {0} /\ i \in Nat \ {0}
               /\ pf[u] # <<>> <=> 1 \in DOMAIN pf[u]
    <2>1. pf[u] \in Seq(ProfileCerts)
      BY Zenon DEF Typed
    <2>2. \A i \in DOMAIN pf[u] : pf[u][i] \in ProfileCerts /\ i \in Nat \ {0}
      BY <2>1
    <2>3. \A i \in DOMAIN pf[u] : pf[u][i].ts \in Nat \ {0}
      BY <2>2, TimestampsAssumption, ZenonT(30) DEF ProfileCerts
    <2>4. pf[u] # <<>> <=> 1 \in DOMAIN pf[u]
      BY <2>1
    <2> QED
      BY <2>2, <2>3, <2>4, Zenon
  <1> QED
    BY <1>1, <1>2, <1>3, Zenon

LEMMA ProfileIsNewest ==
    ASSUME NEW ps \in Seq(ProfileCerts), ProfilesOrdered(ps), NEW t, NEW i, Newest(ps, t, i)
    PROVE  ProfileIn(ps, t) = ps[i].profile
  <1> DEFINE known == {j \in DOMAIN ps : ps[j].ts <= t}
  <1>1. \A j \in DOMAIN ps : ps[j] \in ProfileCerts /\ j \in Nat
    OBVIOUS
  <1>2. \A j \in DOMAIN ps : ps[j].ts \in Nat
    BY <1>1, TimestampsAssumption, ZenonT(30) DEF ProfileCerts
  <1>3. i \in known /\ \A j \in known : ps[j].ts <= ps[i].ts
    BY Zenon DEF Newest
  <1>4. \A j \in known : (\A k \in known : ps[k].ts <= ps[j].ts) => j = i
    BY <1>1, <1>2, <1>3 DEF ProfilesOrdered
  <1>5. (CHOOSE j \in known : \A k \in known : ps[k].ts <= ps[j].ts) = i
    BY <1>3, <1>4, Zenon
  <1> QED
    BY <1>5, ZenonT(30) DEF ProfileIn

\* A time before the new certificates: what a client knows of it does not change.
LEMMA SeenBefore ==
    ASSUME NEW ds, NEW rv, NEW pf, Typed(ds, rv, pf), NEW es, NEW sv, NEW qf, Typed(es, sv, qf),
           NEW t \in Nat, Grows(ds, rv, pf, es, sv, qf, t), NEW s \in Nat, s < t
    PROVE  /\ \A d, u : DeviceIn(es, d, u, s) <=> DeviceIn(ds, d, u, s)
           /\ \A u : RevokedIn(sv, u, s) <=> RevokedIn(rv, u, s)
           /\ \A u \in Users : UserIn(qf, u, s) <=> UserIn(pf, u, s)
           /\ \A u \in Users : UserIn(pf, u, s) => ProfileIn(qf[u], s) = ProfileIn(pf[u], s)
  <1>1. \A d, u : DeviceIn(es, d, u, s) <=> DeviceIn(ds, d, u, s)
    BY DEF DeviceIn, Grows
  <1>2. \A u : RevokedIn(sv, u, s) <=> RevokedIn(rv, u, s)
    BY DEF RevokedIn, Grows
  <1>3. ASSUME NEW u \in Users PROVE UserIn(qf, u, s) <=> UserIn(pf, u, s)
    BY CertTypes DEF UserIn, Grows
  <1>4. ASSUME NEW u \in Users, UserIn(pf, u, s) PROVE ProfileIn(qf[u], s) = ProfileIn(pf[u], s)
    <2>1. 1 \in DOMAIN pf[u] /\ pf[u][1].ts <= s
      BY <1>4, CertTypes, Zenon DEF UserIn
    <2>2. PICK i \in DOMAIN pf[u] : Newest(pf[u], s, i)
      BY <2>1, ZenonT(30) DEF Typed, ProfilesOrdered
    <2>3. Newest(qf[u], s, i)
      BY <2>2 DEF Newest, Grows
    <2>4. ProfileIn(pf[u], s) = pf[u][i].profile /\ ProfileIn(qf[u], s) = qf[u][i].profile
      BY <2>2, <2>3, ProfileIsNewest, Zenon DEF Typed
    <2> QED
      BY <2>4, Zenon DEF Grows
  <1> QED
    BY <1>1, <1>2, <1>3, <1>4, Zenon

\* What was acceptable remains so.
LEMMA OldCertsIn ==
    ASSUME NEW ds, NEW rv, NEW pf, Typed(ds, rv, pf), NEW es, NEW sv, NEW qf, Typed(es, sv, qf),
           NEW t \in Nat, NEW m \in Nat, m < t, DatedBy(ds, rv, pf, m), AllAcceptable(ds, rv, pf),
           Grows(ds, rv, pf, es, sv, qf, t), \A c \in ds, e \in es \ ds : c.id # e.id,
           NEW c, c.ts \in Nat \ {0}, c.ts <= m
    PROVE  /\ UserCertIn(ds, rv, pf, c) => UserCertIn(es, sv, qf, c)
           /\ \A u \in Users : AboutUserIn(ds, rv, pf, u, c) => AboutUserIn(es, sv, qf, u, c)
           /\ c \in ds => DeviceCertIn(es, sv, qf, c)
  <1> DEFINE s == c.ts - 1
  <1>1. s \in Nat /\ s < t /\ c.ts \in Nat /\ c.ts < t
    OBVIOUS
  <1>2. /\ \A d, u : DeviceIn(es, d, u, s) <=> DeviceIn(ds, d, u, s)
        /\ \A u : RevokedIn(sv, u, s) <=> RevokedIn(rv, u, s)
        /\ \A u \in Users : UserIn(qf, u, s) <=> UserIn(pf, u, s)
        /\ \A u \in Users : UserIn(pf, u, s) => ProfileIn(qf[u], s) = ProfileIn(pf[u], s)
    <2> HIDE DEF s
    <2> QED
      BY <1>1, SeenBefore
  <1>3. /\ \A d, u : DeviceIn(es, d, u, c.ts) <=> DeviceIn(ds, d, u, c.ts)
        /\ \A u : RevokedIn(sv, u, c.ts) <=> RevokedIn(rv, u, c.ts)
        /\ \A u \in Users : UserIn(qf, u, c.ts) <=> UserIn(pf, u, c.ts)
    BY <1>1, SeenBefore, Zenon
  <1>4. ASSUME NEW d, NEW u, DeviceIn(ds, d, u, s) PROVE u \in Users /\ UserIn(pf, u, s)
    <2>1. PICK e \in ds : e.id = d /\ e.user = u /\ e.ts <= s
      BY <1>4, Zenon DEF DeviceIn
    <2>2. UserIn(pf, u, e.ts)
      BY <2>1, Zenon DEF AllAcceptable, DeviceCertIn
    <2>3. e.ts \in Nat /\ u \in Users
      BY <2>1, CertTypes, Zenon
    <2>4. 1 \in DOMAIN pf[u] /\ pf[u][1].ts \in Nat
      BY <2>2, <2>3, CertTypes, Zenon DEF UserIn
    <2> QED
      BY <1>1, <2>1, <2>2, <2>3, <2>4 DEF UserIn
  <1>5. ASSUME NEW d, AdminIn(ds, rv, pf, d, c.ts) PROVE AdminIn(es, sv, qf, d, c.ts)
    <2>1. PICK u \in Users : DeviceIn(ds, d, u, s) /\ ~RevokedIn(rv, u, c.ts) /\ ProfileIn(pf[u], s) = "ADMIN"
      BY <1>5, Zenon DEF AdminIn
    <2>2. UserIn(pf, u, s)
      BY <1>4, <2>1, Zenon
    <2>3. DeviceIn(es, d, u, s) /\ ~RevokedIn(sv, u, c.ts) /\ ProfileIn(qf[u], s) = "ADMIN"
      BY <1>2, <1>3, <2>1, <2>2, Zenon
    <2> QED
      BY <2>3, Zenon DEF AdminIn
  <1>6. ASSUME UserCertIn(ds, rv, pf, c) PROVE UserCertIn(es, sv, qf, c)
    <2>1. CASE c.author = Root
      <3>1. \A d \in es : d.ts >= c.ts
        BY <1>1, <1>6, <2>1 DEF UserCertIn, Grows
      <3> QED
        BY <2>1, <3>1, Zenon DEF UserCertIn
    <2>2. CASE c.author # Root
      BY <1>5, <1>6, <2>2, Zenon DEF UserCertIn
    <2> QED
      BY <2>1, <2>2, Zenon
  <1>7. ASSUME NEW u \in Users, AboutUserIn(ds, rv, pf, u, c) PROVE AboutUserIn(es, sv, qf, u, c)
    BY <1>2, <1>3, <1>5, <1>7, Zenon DEF AboutUserIn
  <1>8. ASSUME c \in ds PROVE DeviceCertIn(es, sv, qf, c)
    <2>1. DeviceCertIn(ds, rv, pf, c) /\ c.user \in Users
      BY <1>8, CertTypes, Zenon DEF AllAcceptable
    <2>2. UserIn(pf, c.user, c.ts) /\ UserIn(qf, c.user, c.ts) /\ ~RevokedIn(sv, c.user, c.ts)
      BY <1>3, <2>1, Zenon DEF DeviceCertIn
    <2>3. \A d \in es : d.id = c.id => d = c
      BY <1>8, <2>1, Zenon DEF DeviceCertIn
    <2>4. 1 \in DOMAIN pf[c.user]
      BY <2>1, <2>2, CertTypes, Zenon DEF UserIn
    <2>5. qf[c.user][1] = pf[c.user][1]
      BY <2>1, <2>4, Zenon DEF Grows
    <2>6. CASE DeviceIn(ds, c.author, c.user, s)
      BY <1>2, <2>2, <2>3, <2>6, Zenon DEF DeviceCertIn
    <2>7. CASE /\ pf[c.user][1].ts = c.ts
               /\ pf[c.user][1].author = c.author
               /\ c.author = Root \/ AdminIn(ds, rv, pf, c.author, c.ts)
      BY <1>5, <2>2, <2>3, <2>5, <2>7, Zenon DEF DeviceCertIn
    <2> QED
      BY <2>1, <2>6, <2>7, Zenon DEF DeviceCertIn
  <1> QED
    BY <1>6, <1>7, <1>8, Zenon

\* All certificates, once the new ones are acceptable.
LEMMA NewCertsIn ==
    ASSUME NEW ds, NEW rv, NEW pf, Typed(ds, rv, pf), NEW es, NEW sv, NEW qf, Typed(es, sv, qf),
           NEW t \in Nat, NEW m \in Nat, m < t, DatedBy(ds, rv, pf, m), AllAcceptable(ds, rv, pf),
           Grows(ds, rv, pf, es, sv, qf, t), \A c \in ds, e \in es \ ds : c.id # e.id,
           \A u \in Users : \A i \in DOMAIN qf[u] \ DOMAIN pf[u] : ProfileCertIn(es, sv, qf, u, i),
           \A c \in sv \ rv : AboutUserIn(es, sv, qf, c.user, c),
           \A c \in es \ ds : DeviceCertIn(es, sv, qf, c)
    PROVE  AllAcceptable(es, sv, qf)
  <1>1. ASSUME NEW u \in Users, NEW i \in DOMAIN pf[u] PROVE ProfileCertIn(es, sv, qf, u, i)
    <2>1. ProfileCertIn(ds, rv, pf, u, i) /\ qf[u][i] = pf[u][i]
      BY Zenon DEF AllAcceptable, Grows
    <2>2. pf[u][i].ts \in Nat \ {0} /\ pf[u][i].ts <= m
      BY CertTypes, Zenon DEF DatedBy
    <2>3. CASE i = 1
      <3>1. UserCertIn(es, sv, qf, pf[u][i])
        BY <2>1, <2>2, <2>3, OldCertsIn, Zenon DEF ProfileCertIn
      <3> QED
        BY <2>1, <2>3, <3>1, Zenon DEF ProfileCertIn
    <2>4. CASE i # 1
      <3>1. AboutUserIn(ds, rv, pf, u, pf[u][i]) /\ ProfileIn(pf[u], pf[u][i].ts - 1) # pf[u][i].profile
        BY <2>1, <2>4, Zenon DEF ProfileCertIn
      <3>2. AboutUserIn(es, sv, qf, u, pf[u][i])
        BY <2>2, <3>1, OldCertsIn, Zenon
      <3>3. UserIn(pf, u, pf[u][i].ts - 1)
        BY <3>1, Zenon DEF AboutUserIn
      <3>4. pf[u][i].ts - 1 \in Nat /\ pf[u][i].ts - 1 < t
        BY <2>2
      <3>5. ProfileIn(qf[u], pf[u][i].ts - 1) = ProfileIn(pf[u], pf[u][i].ts - 1)
        BY <3>3, <3>4, SeenBefore, SMTT(20)
      <3> QED
        BY <2>1, <2>4, <3>1, <3>2, <3>5, Zenon DEF ProfileCertIn
    <2> QED
      BY <2>3, <2>4, Zenon
  <1>2. ASSUME NEW c \in rv PROVE AboutUserIn(es, sv, qf, c.user, c)
    <2>1. c.ts \in Nat \ {0} /\ c.ts <= m /\ c.user \in Users
      BY CertTypes, Zenon DEF DatedBy
    <2>2. AboutUserIn(ds, rv, pf, c.user, c)
      BY Zenon DEF AllAcceptable
    <2> QED
      BY <2>1, <2>2, OldCertsIn, Zenon
  <1>3. ASSUME NEW c \in ds PROVE DeviceCertIn(es, sv, qf, c)
    <2>1. c.ts \in Nat \ {0} /\ c.ts <= m
      BY CertTypes, Zenon DEF DatedBy
    <2> QED
      BY <2>1, OldCertsIn, Zenon
  <1> QED
    BY <1>1, <1>2, <1>3, Zenon DEF AllAcceptable

LEMMA StampForms ==
    ASSUME NEW ds, NEW rv, NEW pf, NEW x
    PROVE  x \in StampsIn(ds, rv, pf) <=>
             \/ \E u \in Users : \E i \in DOMAIN pf[u] : x = <<"user", u, i, pf[u][i].ts>>
             \/ \E c \in rv : x = <<"revoked", c.user, 0, c.ts>>
             \/ \E c \in ds : c.ts # pf[c.user][1].ts /\ x = <<"device", c.id, 0, c.ts>>
  <1> DEFINE A == UNION {{<<"user", u, i, pf[u][i].ts>> : i \in DOMAIN pf[u]} : u \in Users}
             B == {<<"revoked", c.user, 0, c.ts>> : c \in rv}
             C == {<<"device", c.id, 0, c.ts>> : c \in {d \in ds : d.ts # pf[d.user][1].ts}}
  <1>1. x \in A <=> \E u \in Users : \E i \in DOMAIN pf[u] : x = <<"user", u, i, pf[u][i].ts>>
    <2> DEFINE D(u) == {<<"user", u, i, pf[u][i].ts>> : i \in DOMAIN pf[u]}
    <2>1. x \in A <=> \E u \in Users : x \in D(u)
      BY Zenon
    <2>2. \A u : x \in D(u) <=> \E i \in DOMAIN pf[u] : x = <<"user", u, i, pf[u][i].ts>>
      BY Zenon
    <2> HIDE DEF A, D
    <2> QED
      BY <2>1, <2>2, Zenon
  <1>2. x \in B <=> \E c \in rv : x = <<"revoked", c.user, 0, c.ts>>
    BY Zenon
  <1>3. x \in C <=> \E c \in ds : c.ts # pf[c.user][1].ts /\ x = <<"device", c.id, 0, c.ts>>
    BY Zenon
  <1>4. StampsIn(ds, rv, pf) = A \cup B \cup C
    BY Zenon DEF StampsIn
  <1> HIDE DEF A, B, C
  <1> QED
    BY <1>1, <1>2, <1>3, <1>4, Zenon

LEMMA DatesOfStamps ==
    ASSUME NEW ds, NEW rv, NEW pf, Typed(ds, rv, pf), NEW m, DatedBy(ds, rv, pf, m),
           NEW x \in StampsIn(ds, rv, pf)
    PROVE  x[4] \in Nat /\ x[4] <= m
  <1>1. /\ \A c \in ds : c.ts \in Nat
        /\ \A c \in rv : c.ts \in Nat
        /\ \A u \in Users : \A i \in DOMAIN pf[u] : pf[u][i].ts \in Nat
    BY CertTypes, Zenon
  <1>2. CASE \E u \in Users : \E i \in DOMAIN pf[u] : x = <<"user", u, i, pf[u][i].ts>>
    BY <1>1, <1>2 DEF DatedBy
  <1>3. CASE \E c \in rv : x = <<"revoked", c.user, 0, c.ts>>
    BY <1>1, <1>3 DEF DatedBy
  <1>4. CASE \E c \in ds : x = <<"device", c.id, 0, c.ts>>
    BY <1>1, <1>4 DEF DatedBy
  <1> QED
    BY <1>2, <1>3, <1>4, StampForms

LEMMA ProfilesAppended ==
    ASSUME NEW ps \in Seq(ProfileCerts), ProfilesOrdered(ps), NEW c \in ProfileCerts, NEW m \in Nat,
           \A i \in DOMAIN ps : ps[i].ts <= m, c.ts > m
    PROVE  ProfilesOrdered(Append(ps, c))
  <1> DEFINE qs == Append(ps, c)
             last == Len(ps) + 1
  <1>1. c.ts \in Nat
    BY TimestampsAssumption, ZenonT(30) DEF ProfileCerts
  <1>2. \A i \in DOMAIN ps : ps[i] \in ProfileCerts /\ i \in Nat
    OBVIOUS
  <1>3. \A i \in DOMAIN ps : ps[i].ts \in Nat
    BY <1>2, TimestampsAssumption, ZenonT(30) DEF ProfileCerts
  <1>4. /\ DOMAIN qs = DOMAIN ps \cup {last} /\ qs[last] = c
        /\ \A i \in DOMAIN ps : qs[i] = ps[i] /\ i < last
        /\ last \notin DOMAIN ps /\ last \in Nat
    BY SMTT(30)
  <1> HIDE DEF qs, last
  <1>5. \A i, j \in DOMAIN qs : i < j => qs[i].ts < qs[j].ts
    BY <1>1, <1>2, <1>3, <1>4 DEF ProfilesOrdered
  <1>6. ASSUME NEW t \in Nat, NEW k \in DOMAIN qs, qs[k].ts <= t PROVE \E i \in DOMAIN qs : Newest(qs, t, i)
    <2>1. CASE c.ts <= t
      <3>1. Newest(qs, t, last)
        BY <1>1, <1>3, <1>4, <2>1 DEF Newest
      <3> QED
        BY <1>4, <3>1, Zenon
    <2>2. CASE ~(c.ts <= t)
      <3>1. k \in DOMAIN ps /\ ps[k].ts <= t
        BY <1>4, <1>6, <2>2, Zenon
      <3>2. PICK i \in DOMAIN ps : Newest(ps, t, i)
        BY <3>1, Zenon DEF ProfilesOrdered
      <3>3. Newest(qs, t, i)
        BY <1>4, <2>2, <3>2, Zenon DEF Newest
      <3> QED
        BY <1>4, <3>3, Zenon
    <2> QED
      BY <2>1, <2>2, Zenon
  <1>7. ProfilesOrdered(qs)
    BY <1>5, <1>6, Zenon DEF ProfilesOrdered
  <1> QED
    BY <1>7, Zenon DEF qs

\* The current profile is the newest one at any later time.
LEMMA CurrentIsNewest ==
    ASSUME NEW ps \in Seq(ProfileCerts), ps # <<>>, ProfilesOrdered(ps), NEW t,
           \A i \in DOMAIN ps : ps[i].ts <= t
    PROVE  ProfileIn(ps, t) = ps[Len(ps)].profile
  <1>1. \A i \in DOMAIN ps : ps[i] \in ProfileCerts /\ i \in Nat /\ i <= Len(ps)
    OBVIOUS
  <1>2. \A i \in DOMAIN ps : ps[i].ts \in Nat
    BY <1>1, TimestampsAssumption, ZenonT(30) DEF ProfileCerts
  <1>3. Len(ps) \in DOMAIN ps
    OBVIOUS
  <1>4. Newest(ps, t, Len(ps))
    BY <1>1, <1>2, <1>3 DEF Newest, ProfilesOrdered
  <1> QED
    BY <1>4, ProfileIsNewest, Zenon

(***************************************************************************)
(* The invariant.                                                          *)
(***************************************************************************)

\* CommonCertsAcceptable needs the dates: a request is checked against the current
\* state and its certificate judged by what is older than it, which is the same
\* because it is newer than everything stored.
CommonInv ==
    /\ AdminInv
    /\ Typed(devices, revocations, profiles)
    /\ DatedBy(devices, revocations, profiles, commonTs)
    /\ devices = {} => commonTs = 0
    /\ CommonCertsAcceptable

LEMMA CommonTsType ==
    ASSUME CommonInv
    PROVE  commonTs \in Nat
  BY Zenon DEF CommonInv, AdminInv, TypeOK

\* A step that adds acceptable certificates newer than the others.
LEMMA CommonStep ==
    ASSUME CommonInv, AdminInv', NEW t \in Timestamps, t > commonTs, commonTs' = t, devices' # {},
           Typed(devices', revocations', profiles'),
           Grows(devices, revocations, profiles, devices', revocations', profiles', t),
           \A c \in devices, e \in devices' \ devices : c.id # e.id,
           \A u \in Users : \A i \in DOMAIN profiles'[u] \ DOMAIN profiles[u] :
              ProfileCertIn(devices', revocations', profiles', u, i),
           \A c \in revocations' \ revocations : AboutUserIn(devices', revocations', profiles', c.user, c),
           \A c \in devices' \ devices : DeviceCertIn(devices', revocations', profiles', c),
           NEW y, y[4] = t,
           StampsIn(devices', revocations', profiles') \subseteq StampsIn(devices, revocations, profiles) \cup {y}
    PROVE  CommonInv'
  <1>1. commonTs \in Nat /\ t \in Nat
    BY TimestampsAssumption, Zenon DEF CommonInv, AdminInv, TypeOK
  <1>2. /\ Typed(devices, revocations, profiles) /\ DatedBy(devices, revocations, profiles, commonTs)
        /\ Distinct(StampsIn(devices, revocations, profiles))
        /\ AllAcceptable(devices, revocations, profiles)
    BY CommonCertsAre, Zenon DEF CommonInv
  <1>3. AllAcceptable(devices', revocations', profiles')
    BY <1>1, <1>2, NewCertsIn
  <1>4. \A x \in StampsIn(devices, revocations, profiles) : x[4] \in Nat /\ x[4] <= commonTs
    BY <1>2, DatesOfStamps, Zenon
  <1>5. Distinct(StampsIn(devices', revocations', profiles'))
    BY <1>1, <1>2, <1>4, NewStamp, ZenonT(30)
  <1>6. CommonCertsAcceptable'
    BY <1>3, <1>5, CommonCertsAreAfter, Zenon
  <1>7. DatedBy(devices', revocations', profiles', t)
    <2>1. \A c \in devices' : c.ts <= t
      BY <1>1, <1>2, CertTypes, SMTT(20) DEF DatedBy, Grows
    <2>2. \A c \in revocations' : c.ts <= t
      BY <1>1, <1>2, CertTypes, SMTT(20) DEF DatedBy, Grows
    <2>3. \A u \in Users : \A i \in DOMAIN profiles'[u] : profiles'[u][i].ts <= t
      BY <1>1, <1>2, CertTypes, SMTT(20) DEF DatedBy, Grows
    <2> QED
      BY <2>1, <2>2, <2>3, Zenon DEF DatedBy
  <1> QED
    BY <1>6, <1>7, Zenon DEF CommonInv, Typed, ProfilesOrdered, Newest, DatedBy

\* A request of an administrator: its author is one, at its timestamp, for every client.
LEMMA AuthorIsAdmin ==
    ASSUME CommonInv, NEW a \in devices, IsActiveAdmin(a.user), NEW t \in Timestamps, t > commonTs,
           NEW es, NEW sv, NEW qf, Typed(es, sv, qf),
           Grows(devices, revocations, profiles, es, sv, qf, t), \A c \in sv : c.user # a.user
    PROVE  AdminIn(es, sv, qf, a.id, t)
  <1> DEFINE s == t - 1
             u == a.user
  <1>1. s \in Nat /\ s < t /\ t \in Nat /\ commonTs \in Nat /\ commonTs <= s
    BY TimestampsAssumption, SMTT(20) DEF CommonInv, AdminInv, TypeOK
  <1>2. Typed(devices, revocations, profiles) /\ DatedBy(devices, revocations, profiles, commonTs)
    BY Zenon DEF CommonInv
  <1>3. u \in Users /\ a.ts \in Nat /\ a.ts <= s
    BY <1>1, <1>2, CertTypes, SMTT(20) DEF DatedBy
  <1>4. profiles[u] # <<>> /\ CurrentProfile(u) = "ADMIN"
    BY Zenon DEF IsActiveAdmin, IsActive, Exists
  <1>5. \A i \in DOMAIN profiles[u] : profiles[u][i].ts \in Nat /\ profiles[u][i].ts <= s
    BY <1>1, <1>2, <1>3, CertTypes DEF DatedBy
  <1>6. DeviceIn(devices, a.id, u, s)
    BY <1>3, Zenon DEF DeviceIn
  <1>7. UserIn(profiles, u, s)
    BY <1>2, <1>3, <1>4, <1>5, CertTypes, Zenon DEF UserIn
  <1> HIDE DEF s, u
  <1>8. profiles[u] \in Seq(ProfileCerts) /\ ProfilesOrdered(profiles[u])
    BY <1>2, <1>3, Zenon DEF Typed
  <1>9. ProfileIn(profiles[u], s) = "ADMIN"
    BY <1>4, <1>5, <1>8, CurrentIsNewest, Zenon DEF CurrentProfile
  <1>10. DeviceIn(es, a.id, u, s) /\ ProfileIn(qf[u], s) = "ADMIN"
    BY <1>1, <1>2, <1>3, <1>6, <1>7, <1>9, SeenBefore, SMTT(20)
  <1>11. ~RevokedIn(sv, u, t)
    BY Zenon DEF RevokedIn, u
  <1> QED
    BY <1>3, <1>10, <1>11, Zenon DEF AdminIn, s

\* The n-th profile of a user is added.
ProfileIsAdded(u, p, t, author, n) ==
    /\ \A v \in Users : v # u => profiles'[v] = profiles[v]
    /\ DOMAIN profiles'[u] = DOMAIN profiles[u] \cup {n} /\ n \notin DOMAIN profiles[u]
    /\ \A i \in DOMAIN profiles[u] : profiles'[u][i] = profiles[u][i]
    /\ profiles'[u][n].profile = p /\ profiles'[u][n].ts = t /\ profiles'[u][n].author = author
    /\ \A v \in Users : ProfilesOrdered(profiles'[v])
    /\ n \in Nat /\ (n = 1 <=> profiles[u] = <<>>)

LEMMA ProfileAdded ==
    ASSUME CommonInv, NEW u \in Users, NEW p \in Profiles, NEW t \in Timestamps, t > commonTs,
           NEW author \in Authors, AddProfile(u, p, t, author), NEW n, n = Len(profiles[u]) + 1
    PROVE  ProfileIsAdded(u, p, t, author, n)
  <1> DEFINE c == [profile |-> p, ts |-> t, author |-> author]
             ps == profiles[u]
             qs == Append(ps, c)
  <1>1. /\ profiles \in [Users -> Seq(ProfileCerts)] /\ commonTs \in Nat
        /\ \A v \in Users : ProfilesOrdered(profiles[v])
        /\ \A i \in DOMAIN ps : ps[i].ts <= commonTs
    BY Zenon DEF CommonInv, AdminInv, TypeOK, Typed, DatedBy
  <1>2. profiles' = [profiles EXCEPT ![u] = qs]
    BY Zenon DEF AddProfile
  <1>3. c \in ProfileCerts
    BY Zenon DEF ProfileCerts
  <1>4. c.profile = p /\ c.ts = t /\ c.author = author
    BY Zenon
  <1> HIDE DEF c
  <1>5. ps \in Seq(ProfileCerts)
    BY <1>1, Zenon
  <1>6. /\ profiles'[u] = qs /\ \A v \in Users : v # u => profiles'[v] = profiles[v]
    BY <1>1, <1>2, ZenonT(30)
  <1> HIDE DEF ps
  <1>7. /\ DOMAIN qs = DOMAIN ps \cup {Len(ps) + 1} /\ Len(ps) + 1 \notin DOMAIN ps
        /\ \A i \in DOMAIN ps : qs[i] = ps[i]
        /\ qs[Len(ps) + 1] = c /\ Len(ps) + 1 \in Nat
        /\ (Len(ps) + 1 = 1 <=> ps = <<>>)
    BY <1>3, <1>5, SMTT(30)
  <1>8. ProfilesOrdered(qs)
    <2>1. ProfilesOrdered(ps)
      BY <1>1, Zenon DEF ps
    <2>2. c.ts > commonTs
      BY <1>4, Zenon
    <2> QED
      BY <1>1, <1>3, <1>5, <2>1, <2>2, ProfilesAppended, Zenon
  <1>9. \A v \in Users : ProfilesOrdered(profiles'[v])
    BY <1>1, <1>6, <1>8, ZenonT(30)
  <1> HIDE DEF qs
  <1>10. n = Len(ps) + 1
    BY Zenon DEF ps
  <1>11. /\ DOMAIN profiles'[u] = DOMAIN ps \cup {n} /\ n \notin DOMAIN ps
         /\ \A i \in DOMAIN ps : profiles'[u][i] = ps[i]
         /\ profiles'[u][n] = c /\ n \in Nat
         /\ (n = 1 <=> ps = <<>>)
    BY <1>6, <1>7, <1>10, ZenonT(30)
  <1> QED
    BY <1>4, <1>6, <1>9, <1>11, Zenon DEF ps, ProfileIsAdded

\* Before a request dated t its users have the profiles the server sees.
LEMMA UserBefore ==
    ASSUME CommonInv, NEW u \in Users, Exists(u), NEW t \in Timestamps, t > commonTs,
           NEW es, NEW sv, NEW qf, Typed(es, sv, qf),
           Grows(devices, revocations, profiles, es, sv, qf, t)
    PROVE  UserIn(qf, u, t - 1) /\ ProfileIn(qf[u], t - 1) = CurrentProfile(u)
  <1> DEFINE s == t - 1
  <1>1. s \in Nat /\ s < t /\ t \in Nat /\ commonTs \in Nat /\ commonTs <= s
    BY TimestampsAssumption DEF CommonInv, AdminInv, TypeOK
  <1>2. Typed(devices, revocations, profiles) /\ DatedBy(devices, revocations, profiles, commonTs)
    BY Zenon DEF CommonInv
  <1>3. profiles[u] # <<>>
    BY Zenon DEF Exists
  <1>4. \A i \in DOMAIN profiles[u] : profiles[u][i].ts \in Nat /\ profiles[u][i].ts <= s
    BY <1>1, <1>2, CertTypes DEF DatedBy
  <1>5. UserIn(profiles, u, s)
    BY <1>2, <1>3, <1>4, CertTypes, ZenonT(30) DEF UserIn
  <1> HIDE DEF s
  <1>6. profiles[u] \in Seq(ProfileCerts) /\ ProfilesOrdered(profiles[u])
    BY <1>2, Zenon DEF Typed
  <1>7. ProfileIn(profiles[u], s) = CurrentProfile(u)
    BY <1>3, <1>4, <1>6, CurrentIsNewest, Zenon DEF CurrentProfile
  <1>8. UserIn(qf, u, s) /\ ProfileIn(qf[u], s) = CurrentProfile(u)
    BY <1>1, <1>2, <1>5, <1>7, SeenBefore
  <1> QED
    BY <1>8, Zenon DEF s

\* A device is one of one user only.
LEMMA DevicesDiffer ==
    ASSUME CommonInv, NEW a \in devices, NEW u, u # a.user, NEW t
    PROVE  ~DeviceIn(devices, a.id, u, t)
  <1>1. \A d \in devices : d.id = a.id => d = a
    BY CommonCertsAre, ZenonT(30) DEF CommonInv, AllAcceptable, DeviceCertIn
  <1> QED
    BY <1>1, Zenon DEF DeviceIn

LEMMA StampsGrow ==
    ASSUME NEW ds, NEW rv, NEW pf, NEW es, NEW sv, NEW qf, NEW y,
           \A u \in Users : \A i \in DOMAIN qf[u] :
              \/ i \in DOMAIN pf[u] /\ qf[u][i] = pf[u][i]
              \/ y = <<"user", u, i, qf[u][i].ts>>,
           \A c \in sv : c \in rv \/ y = <<"revoked", c.user, 0, c.ts>>,
           \A c \in es : \/ c \in ds /\ qf[c.user][1] = pf[c.user][1]
                         \/ c.ts = qf[c.user][1].ts
                         \/ y = <<"device", c.id, 0, c.ts>>
    PROVE  StampsIn(es, sv, qf) \subseteq StampsIn(ds, rv, pf) \cup {y}
  <1> SUFFICES ASSUME NEW x \in StampsIn(es, sv, qf), x # y PROVE x \in StampsIn(ds, rv, pf)
    BY Zenon
  <1>1. CASE \E u \in Users : \E i \in DOMAIN qf[u] : x = <<"user", u, i, qf[u][i].ts>>
    <2>1. PICK u \in Users : \E i \in DOMAIN qf[u] : x = <<"user", u, i, qf[u][i].ts>>
      BY <1>1, Zenon
    <2>2. PICK i \in DOMAIN qf[u] : x = <<"user", u, i, qf[u][i].ts>>
      BY <2>1, Zenon
    <2>3. i \in DOMAIN pf[u] /\ x = <<"user", u, i, pf[u][i].ts>>
      BY <2>2, Zenon
    <2> QED
      BY <2>3, StampForms, Zenon
  <1>2. CASE \E c \in sv : x = <<"revoked", c.user, 0, c.ts>>
    BY <1>2, StampForms, Zenon
  <1>3. CASE \E c \in es : c.ts # qf[c.user][1].ts /\ x = <<"device", c.id, 0, c.ts>>
    <2>1. PICK c \in es : c.ts # qf[c.user][1].ts /\ x = <<"device", c.id, 0, c.ts>>
      BY <1>3, Zenon
    <2>2. c \in ds /\ c.ts # pf[c.user][1].ts
      BY <2>1, Zenon
    <2> QED
      BY <2>1, <2>2, StampForms, Zenon
  <1>4. \/ \E u \in Users : \E i \in DOMAIN qf[u] : x = <<"user", u, i, qf[u][i].ts>>
        \/ \E c \in sv : x = <<"revoked", c.user, 0, c.ts>>
        \/ \E c \in es : c.ts # qf[c.user][1].ts /\ x = <<"device", c.id, 0, c.ts>>
    BY StampForms
  <1> QED
    BY <1>1, <1>2, <1>3, <1>4, Zenon

LEMMA UpdateUserKeepsCommon ==
    ASSUME CommonInv, AdminInv', NEW t \in Timestamps, NEW a \in devices, NEW u \in Users,
           NEW p \in Profiles, UpdateUser(a, u, p, t)
    PROVE  CommonInv'
  <1> DEFINE n == Len(profiles[u]) + 1
             c == profiles'[u][n]
             y == <<"user", u, n, t>>
  <1>1. /\ t > commonTs /\ commonTs' = t /\ AddProfile(u, p, t, a.id)
        /\ revocations' = revocations /\ devices' = devices
        /\ u # a.user /\ IsActiveAdmin(a.user) /\ Exists(u) /\ CurrentProfile(u) # p
        /\ \A x \in revocations : x.user # u /\ x.user # a.user
    BY Zenon DEF UpdateUser, UpdateUserCheck, InsertProfile, IsActiveAdmin, IsActive, IsRevoked
  <1>2. a.id \in Authors
    BY AuthorType, Zenon DEF CommonInv, AdminInv, Authors
  <1>3. /\ \A v \in Users : v # u => profiles'[v] = profiles[v]
        /\ DOMAIN profiles'[u] = DOMAIN profiles[u] \cup {n} /\ n \notin DOMAIN profiles[u]
        /\ \A i \in DOMAIN profiles[u] : profiles'[u][i] = profiles[u][i]
        /\ c.profile = p /\ c.ts = t /\ c.author = a.id
        /\ \A v \in Users : ProfilesOrdered(profiles'[v])
        /\ n \in Nat /\ n # 1
    <2> DEFINE author == a.id
    <2>1. /\ n = Len(profiles[u]) + 1 /\ profiles[u] # <<>> /\ author \in Authors
          /\ AddProfile(u, p, t, author)
      BY <1>1, <1>2, Zenon DEF Exists
    <2>2. c = profiles'[u][n] /\ author = a.id
      BY Zenon
    <2> HIDE DEF n, c, author
    <2>3. ProfileIsAdded(u, p, t, author, n)
      BY <1>1, <2>1, ProfileAdded, ZenonT(30)
    <2> QED
      BY <2>1, <2>2, <2>3, ZenonT(30) DEF ProfileIsAdded
  <1> HIDE DEF n, c
  <1>4. Typed(devices', revocations', profiles')
    BY <1>3, ZenonT(30) DEF AdminInv, TypeOK, Typed
  <1>5. Grows(devices, revocations, profiles, devices', revocations', profiles', t)
    BY <1>1, <1>3, ZenonT(30) DEF Grows, c
  <1>6. AdminIn(devices', revocations', profiles', a.id, t)
    BY <1>1, <1>4, <1>5, AuthorIsAdmin, Zenon
  <1>7. UserIn(profiles', u, t - 1) /\ ProfileIn(profiles'[u], t - 1) = CurrentProfile(u)
    BY <1>1, <1>4, <1>5, UserBefore, Zenon
  <1>8. ~DeviceIn(devices', a.id, u, t) /\ ~RevokedIn(revocations', u, t - 1)
    BY <1>1, DevicesDiffer, Zenon DEF RevokedIn
  <1>9. ProfileCertIn(devices', revocations', profiles', u, n)
    BY <1>1, <1>3, <1>6, <1>7, <1>8, ZenonT(30) DEF ProfileCertIn, AboutUserIn, c
  <1>10. \A v \in Users : \A i \in DOMAIN profiles'[v] \ DOMAIN profiles[v] : v = u /\ i = n
    BY <1>3, Zenon
  <1>11. StampsIn(devices', revocations', profiles')
            \subseteq StampsIn(devices, revocations, profiles) \cup {y}
    <2>1. \A v \in Users : \A i \in DOMAIN profiles'[v] :
             \/ i \in DOMAIN profiles[v] /\ profiles'[v][i] = profiles[v][i]
             \/ y = <<"user", v, i, profiles'[v][i].ts>>
      BY <1>3, Zenon DEF c
    <2>2. \A x \in devices' : x \in devices /\ profiles'[x.user][1] = profiles[x.user][1]
      <3> SUFFICES ASSUME NEW x \in devices PROVE profiles'[x.user][1] = profiles[x.user][1]
        BY <1>1, Zenon
      <3>1. x.user \in Users /\ 1 \in DOMAIN profiles[x.user]
        BY CommonCertsAre, CertTypes, ZenonT(30) DEF CommonInv, AllAcceptable, DeviceCertIn, UserIn
      <3> QED
        BY <1>3, <3>1, Zenon
    <2> HIDE DEF y
    <2> QED
      BY <1>1, <2>1, <2>2, StampsGrow, ZenonT(40)
  <1>12. y[4] = t /\ devices' # {}
    BY <1>1, Zenon
  <1> HIDE DEF y
  <1> QED
    BY <1>1, <1>4, <1>5, <1>9, <1>10, <1>11, <1>12, CommonStep, ZenonT(30)

LEMMA DeviceHasUser ==
    ASSUME CommonInv, NEW x \in devices
    PROVE  x.user \in Users /\ Exists(x.user) /\ 1 \in DOMAIN profiles[x.user]
  BY CommonCertsAre, CertTypes, ZenonT(30) DEF CommonInv, AllAcceptable, DeviceCertIn, UserIn, Exists

LEMMA RevokeUserKeepsCommon ==
    ASSUME CommonInv, AdminInv', NEW t \in Timestamps, NEW a \in devices, NEW u \in Users,
           RevokeUser(a, u, t)
    PROVE  CommonInv'
  <1> DEFINE c == [user |-> u, ts |-> t, author |-> a.id]
             y == <<"revoked", u, 0, t>>
  <1>1. /\ t > commonTs /\ commonTs' = t /\ revocations' = revocations \cup {c}
        /\ profiles' = profiles /\ devices' = devices
        /\ u # a.user /\ IsActiveAdmin(a.user) /\ Exists(u)
        /\ \A x \in revocations : x.user # u /\ x.user # a.user
    BY ZenonT(30) DEF RevokeUser, RevokeUserCheck, InsertRevocation, IsActiveAdmin, IsActive, IsRevoked
  <1>2. c.user = u /\ c.ts = t /\ c.author = a.id
    BY Zenon
  <1> HIDE DEF c
  <1>3. Typed(devices', revocations', profiles')
    BY <1>1, ZenonT(30) DEF AdminInv, TypeOK, CommonInv, Typed
  <1>4. Grows(devices, revocations, profiles, devices', revocations', profiles', t)
    BY <1>1, <1>2, Zenon DEF Grows
  <1>5. \A x \in revocations' : x.user # a.user
    BY <1>1, <1>2, Zenon
  <1>6. AdminIn(devices', revocations', profiles', a.id, t)
    BY <1>1, <1>3, <1>4, <1>5, AuthorIsAdmin, Zenon
  <1>7. UserIn(profiles', u, t - 1)
    BY <1>1, <1>3, <1>4, UserBefore, Zenon
  <1>8. ~DeviceIn(devices', a.id, u, t) /\ ~RevokedIn(revocations', u, t - 1)
    <2>1. ~DeviceIn(devices', a.id, u, t)
      BY <1>1, DevicesDiffer, Zenon
    <2>2. t \in Nat /\ ~(t <= t - 1)
      BY TimestampsAssumption
    <2>3. \A x \in revocations' : x.user = u => x.ts = t
      BY <1>1, <1>2, Zenon
    <2> QED
      BY <2>1, <2>2, <2>3, Zenon DEF RevokedIn
  <1>9. AboutUserIn(devices', revocations', profiles', u, c)
    BY <1>2, <1>6, <1>7, <1>8, Zenon DEF AboutUserIn
  <1>10. y[4] = t /\ y = <<"revoked", c.user, 0, c.ts>> /\ devices' # {}
    BY <1>1, <1>2, Zenon
  <1> HIDE DEF y
  <1>11. StampsIn(devices', revocations', profiles')
            \subseteq StampsIn(devices, revocations, profiles) \cup {y}
    <2>1. \A v \in Users : \A i \in DOMAIN profiles'[v] :
             \/ i \in DOMAIN profiles[v] /\ profiles'[v][i] = profiles[v][i]
             \/ y = <<"user", v, i, profiles'[v][i].ts>>
      BY <1>1, Zenon
    <2>2. \A x \in devices' : \/ x \in devices /\ profiles'[x.user][1] = profiles[x.user][1]
                              \/ x.ts = profiles'[x.user][1].ts
                              \/ y = <<"device", x.id, 0, x.ts>>
      BY <1>1, Zenon
    <2>3. \A x \in revocations' : x \in revocations \/ y = <<"revoked", x.user, 0, x.ts>>
      BY <1>1, <1>10, Zenon
    <2> QED
      BY <2>1, <2>2, <2>3, StampsGrow, Zenon
  <1>12. \A x \in revocations' \ revocations : AboutUserIn(devices', revocations', profiles', x.user, x)
    BY <1>1, <1>2, <1>9, Zenon
  <1> QED
    BY <1>1, <1>3, <1>4, <1>10, <1>11, <1>12, CommonStep, ZenonT(30)

LEMMA CreateDeviceKeepsCommon ==
    ASSUME CommonInv, AdminInv', NEW t \in Timestamps, NEW a \in devices, NEW d \in Devices,
           CreateDevice(a, d, t)
    PROVE  CommonInv'
  <1> DEFINE c == [id |-> d, user |-> a.user, ts |-> t, author |-> a.id]
             y == <<"device", d, 0, t>>
  <1>1. /\ t > commonTs /\ commonTs' = t /\ devices' = devices \cup {c}
        /\ profiles' = profiles /\ revocations' = revocations /\ Exists(a.user)
        /\ \A x \in revocations : x.user # a.user
        /\ \A x \in devices : x.id # d
    BY Zenon DEF CreateDevice, CreateDeviceCheck, InsertDevice, AddDevice, IsActive, IsRevoked
  <1>2. c.id = d /\ c.user = a.user /\ c.ts = t /\ c.author = a.id
    BY Zenon
  <1> HIDE DEF c
  <1>3. Typed(devices', revocations', profiles')
    BY <1>1, ZenonT(30) DEF AdminInv, TypeOK, CommonInv, Typed
  <1>4. Grows(devices, revocations, profiles, devices', revocations', profiles', t)
    BY <1>1, <1>2, Zenon DEF Grows
  <1>5. a.user \in Users /\ UserIn(profiles', a.user, t)
    <2>1. a.user \in Users /\ 1 \in DOMAIN profiles[a.user]
      BY DeviceHasUser, Zenon
    <2>2. profiles[a.user][1].ts \in Nat /\ profiles[a.user][1].ts <= commonTs
      BY <2>1, CertTypes, Zenon DEF CommonInv, DatedBy
    <2>3. profiles[a.user][1].ts <= t
      BY <1>1, <2>2, CommonTsType, TimestampsAssumption
    <2> QED
      BY <1>1, <2>1, <2>3, Zenon DEF UserIn, Exists
  <1>6. ~RevokedIn(revocations', a.user, t)
    BY <1>1, Zenon DEF RevokedIn
  <1>7. DeviceIn(devices', a.id, a.user, t - 1)
    <2>1. a.ts \in Nat /\ a.ts <= commonTs
      BY CertTypes, Zenon DEF CommonInv, DatedBy
    <2>2. a.ts <= t - 1
      BY <1>1, <2>1, CommonTsType, TimestampsAssumption
    <2> QED
      BY <1>1, <2>2, Zenon DEF DeviceIn
  <1>8. \A x \in devices' : x.id = c.id => x = c
    BY <1>1, <1>2, Zenon
  <1>9. DeviceCertIn(devices', revocations', profiles', c)
    BY <1>2, <1>5, <1>6, <1>7, <1>8, ZenonT(30) DEF DeviceCertIn
  <1>10. y[4] = t /\ y = <<"device", c.id, 0, c.ts>> /\ devices' # {}
    BY <1>1, <1>2, Zenon
  <1> HIDE DEF y
  <1>11. StampsIn(devices', revocations', profiles')
            \subseteq StampsIn(devices, revocations, profiles) \cup {y}
    <2>1. \A v \in Users : \A i \in DOMAIN profiles'[v] :
             \/ i \in DOMAIN profiles[v] /\ profiles'[v][i] = profiles[v][i]
             \/ y = <<"user", v, i, profiles'[v][i].ts>>
      BY <1>1, Zenon
    <2>2. \A x \in devices' : \/ x \in devices /\ profiles'[x.user][1] = profiles[x.user][1]
                              \/ x.ts = profiles'[x.user][1].ts
                              \/ y = <<"device", x.id, 0, x.ts>>
      BY <1>1, <1>10, Zenon
    <2>3. \A x \in revocations' : x \in revocations \/ y = <<"revoked", x.user, 0, x.ts>>
      BY <1>1, Zenon
    <2> QED
      BY <2>1, <2>2, <2>3, StampsGrow, Zenon
  <1>12. /\ \A x \in devices' \ devices : DeviceCertIn(devices', revocations', profiles', x)
         /\ \A x \in devices, z \in devices' \ devices : x.id # z.id
    BY <1>1, <1>2, <1>9, Zenon
  <1> QED
    BY <1>1, <1>3, <1>4, <1>10, <1>11, <1>12, CommonStep, ZenonT(30)

\* A user is revoked once it exists.
LEMMA RevokedExists ==
    ASSUME CommonInv, NEW x \in revocations
    PROVE  Exists(x.user)
  BY CommonCertsAre, Zenon DEF CommonInv, AllAcceptable, AboutUserIn, UserIn, Exists

\* What bootstrap and user creation do; the author is the root key or an administrator.
LEMMA InsertUserKeepsCommon ==
    ASSUME CommonInv, AdminInv', NEW t \in Timestamps, t > commonTs, NEW u \in Users, NEW d \in Devices,
           NEW p \in Profiles, ~Exists(u), \A x \in devices : x.id # d,
           NEW author \in Authors,
           \/ author = Root /\ devices = {}
           \/ \E a \in devices : author = a.id /\ IsActiveAdmin(a.user),
           InsertUser(u, d, p, t, author)
    PROVE  CommonInv'
  <1> DEFINE c == profiles'[u][1]
             e == [id |-> d, user |-> u, ts |-> t, author |-> author]
             y == <<"user", u, 1, t>>
  <1>1. /\ commonTs' = t /\ AddProfile(u, p, t, author) /\ revocations' = revocations
        /\ devices' = devices \cup {e}
    BY Zenon DEF InsertUser, AddDevice
  <1>2. e.id = d /\ e.user = u /\ e.ts = t /\ e.author = author
    BY Zenon
  <1> HIDE DEF e
  <1>3. profiles[u] = <<>>
    BY Zenon DEF Exists
  <1> DEFINE n == Len(profiles[u]) + 1
  <1>4. n = Len(profiles[u]) + 1 /\ n = 1
    BY <1>3
  <1> HIDE DEF n
  <1>5. /\ \A v \in Users : v # u => profiles'[v] = profiles[v]
        /\ DOMAIN profiles'[u] = DOMAIN profiles[u] \cup {1} /\ 1 \notin DOMAIN profiles[u]
        /\ \A i \in DOMAIN profiles[u] : profiles'[u][i] = profiles[u][i]
        /\ c.ts = t /\ c.author = author
        /\ \A v \in Users : ProfilesOrdered(profiles'[v])
    <2>1. ProfileIsAdded(u, p, t, author, n)
      BY <1>1, <1>4, ProfileAdded, ZenonT(30)
    <2> QED
      BY <1>4, <2>1, Zenon DEF ProfileIsAdded
  <1> HIDE DEF c
  <1>6. Typed(devices', revocations', profiles')
    BY <1>5, Zenon DEF AdminInv, TypeOK, Typed
  <1>7. Grows(devices, revocations, profiles, devices', revocations', profiles', t)
    BY <1>1, <1>2, <1>5, ZenonT(30) DEF Grows, c
  <1>8. \/ author = Root /\ devices = {}
        \/ author # Root /\ AdminIn(devices', revocations', profiles', author, t)
    <2>1. ASSUME NEW a \in devices, author = a.id, IsActiveAdmin(a.user)
          PROVE  author # Root /\ AdminIn(devices', revocations', profiles', author, t)
      <3>1. author # Root
        BY <2>1, AuthorType, RootAssumption, Zenon DEF CommonInv, AdminInv
      <3>2. \A x \in revocations' : x.user # a.user
        BY <1>1, <2>1, Zenon DEF IsActiveAdmin, IsActive, IsRevoked
      <3> QED
        BY <1>6, <1>7, <2>1, <3>1, <3>2, AuthorIsAdmin, ZenonT(30)
    <2> QED
      BY <2>1, Zenon
  <1>9. t \in Nat
    BY TimestampsAssumption, Zenon
  <1>10. ProfileCertIn(devices', revocations', profiles', u, 1)
    <2>1. CASE author = Root /\ devices = {}
      <3>1. \A x \in devices' : x.ts >= t
        BY <1>1, <1>2, <1>9, <2>1, SMTT(20)
      <3>2. profiles'[u][1].author = Root /\ profiles'[u][1].ts = t
        BY <1>5, <2>1, Zenon DEF c
      <3> QED
        BY <3>1, <3>2, Zenon DEF ProfileCertIn, UserCertIn
    <2>2. CASE author # Root /\ AdminIn(devices', revocations', profiles', author, t)
      BY <1>5, <2>2, ZenonT(30) DEF ProfileCertIn, UserCertIn, c
    <2> QED
      BY <1>8, <2>1, <2>2, Zenon
  <1>11. DeviceCertIn(devices', revocations', profiles', e)
    <2>1. UserIn(profiles', u, t)
      <3>1. 1 \in DOMAIN profiles'[u]
        BY <1>5, Zenon
      <3>2. profiles'[u] # <<>>
        BY <1>6, <3>1, CertTypes, Zenon
      <3>3. profiles'[u][1].ts <= t
        BY <1>5, <1>9 DEF c
      <3> QED
        BY <3>2, <3>3, Zenon DEF UserIn
    <2>2. ~RevokedIn(revocations', u, t)
      BY <1>1, RevokedExists, Zenon DEF RevokedIn
    <2>3. \A x \in devices' : x.id = e.id => x = e
      BY <1>1, <1>2, Zenon
    <2>4. profiles'[u][1].ts = t /\ profiles'[u][1].author = author
      BY <1>5, Zenon DEF c
    <2> QED
      BY <1>2, <1>8, <2>1, <2>2, <2>3, <2>4, ZenonT(30) DEF DeviceCertIn
  <1>12. \A v \in Users : \A i \in DOMAIN profiles'[v] \ DOMAIN profiles[v] : v = u /\ i = 1
    BY <1>5, Zenon
  <1>13. StampsIn(devices', revocations', profiles')
            \subseteq StampsIn(devices, revocations, profiles) \cup {y}
    <2>1. \A v \in Users : \A i \in DOMAIN profiles'[v] :
             \/ i \in DOMAIN profiles[v] /\ profiles'[v][i] = profiles[v][i]
             \/ y = <<"user", v, i, profiles'[v][i].ts>>
      BY <1>5, ZenonT(30) DEF c
    <2>2. \A x \in devices' : \/ x \in devices /\ profiles'[x.user][1] = profiles[x.user][1]
                              \/ x.ts = profiles'[x.user][1].ts
      <3>1. \A x \in devices : x.user \in Users /\ x.user # u
        BY DeviceHasUser, Zenon
      <3>2. e.ts = profiles'[e.user][1].ts
        BY <1>2, <1>5, ZenonT(30) DEF c
      <3> QED
        BY <1>1, <1>5, <3>1, <3>2, ZenonT(30)
    <2> HIDE DEF y
    <2>3. \A x \in revocations' : x \in revocations \/ y = <<"revoked", x.user, 0, x.ts>>
      BY <1>1, Zenon
    <2>4. \A x \in devices' : \/ x \in devices /\ profiles'[x.user][1] = profiles[x.user][1]
                              \/ x.ts = profiles'[x.user][1].ts
                              \/ y = <<"device", x.id, 0, x.ts>>
      BY <2>2, Zenon
    <2> QED
      BY <2>1, <2>3, <2>4, StampsGrow, Zenon
  <1>14. y[4] = t /\ devices' # {}
    BY <1>1, Zenon
  <1> HIDE DEF y
  <1>15. /\ \A x \in devices' \ devices : DeviceCertIn(devices', revocations', profiles', x)
         /\ \A x \in devices, z \in devices' \ devices : x.id # z.id
         /\ \A v \in Users : \A i \in DOMAIN profiles'[v] \ DOMAIN profiles[v] :
              ProfileCertIn(devices', revocations', profiles', v, i)
    BY <1>1, <1>2, <1>10, <1>11, <1>12, ZenonT(30)
  <1> QED
    BY <1>1, <1>6, <1>7, <1>13, <1>14, <1>15, CommonStep, ZenonT(30)

LEMMA CommonInvIsInductive == CommonInv /\ [Next]_vars => CommonInv'
  <1> SUFFICES ASSUME CommonInv, [Next]_vars PROVE CommonInv'
    BY Zenon
  <1>1. AdminInv'
    BY NextKeepsAdmin, Zenon DEF CommonInv
  <1>2. ASSUME NEW u \in Users, NEW d \in Devices, NEW t \in Timestamps, Bootstrap(u, d, t) PROVE CommonInv'
    <2>1. devices = {} /\ InsertUser(u, d, "ADMIN", t, Root)
      BY <1>2, Zenon DEF Bootstrap
    <2>2. t > commonTs
      BY <2>1, TimestampsAssumption DEF CommonInv
    <2>3. ~Exists(u)
      BY <2>1, Zenon DEF CommonInv, AdminInv, EmptyBeforeBootstrap, Exists
    <2>4. "ADMIN" \in Profiles /\ Root \in Authors
      BY Zenon DEF Profiles, Authors
    <2> QED
      BY <1>1, <2>1, <2>2, <2>3, <2>4, InsertUserKeepsCommon, Zenon
  <1>3. ASSUME NEW a \in devices, NEW u \in Users, NEW d \in Devices, NEW p \in Profiles,
               NEW t \in Timestamps, CreateUser(a, u, d, p, t)
        PROVE  CommonInv'
    <2>1. /\ t > commonTs /\ ~Exists(u) /\ IsActiveAdmin(a.user) /\ InsertUser(u, d, p, t, a.id)
          /\ \A x \in devices : x.id # d
      BY <1>3, Zenon DEF CreateUser, CreateUserCheck
    <2>2. a.id \in Authors
      BY AuthorType, Zenon DEF CommonInv, AdminInv, Authors
    <2> QED
      BY <1>1, <2>1, <2>2, InsertUserKeepsCommon, Zenon
  <1>4. CASE CommonNext
    BY <1>1, <1>2, <1>3, <1>4, CreateDeviceKeepsCommon, RevokeUserKeepsCommon, UpdateUserKeepsCommon, ZenonT(30)
       DEF CommonNext
  <1>5. ASSUME UNCHANGED commonVars PROVE CommonInv'
    <2>1. commonTs' = commonTs /\ devices' = devices /\ revocations' = revocations /\ profiles' = profiles
      BY <1>5, Zenon DEF commonVars
    <2>2. /\ Typed(devices, revocations, profiles)
          /\ DatedBy(devices, revocations, profiles, commonTs)
          /\ devices = {} => commonTs = 0
          /\ Distinct(StampsIn(devices, revocations, profiles)) /\ AllAcceptable(devices, revocations, profiles)
      BY CommonCertsAre, Zenon DEF CommonInv
    <2>3. CommonCertsAcceptable'
      BY <2>1, <2>2, CommonCertsAreAfter, Zenon
    <2> QED
      BY <1>1, <2>1, <2>2, <2>3, ZenonT(30) DEF CommonInv, Typed, ProfilesOrdered, Newest, DatedBy
  <1>6. CASE RealmNext
    BY <1>5, <1>6, RealmFrame, Zenon
  <1>7. CASE VlobNext
    BY <1>5, <1>7 DEF VlobNext, CreateVlob, UpdateVlob, InsertVlob
  <1>8. CASE UNCHANGED vars
    BY <1>5, <1>8, Zenon DEF vars, commonVars
  <1> QED
    BY <1>4, <1>6, <1>7, <1>8, Zenon DEF Next

\* Whatever timestamps their authors chose and in whatever order the server accepted
\* them, every client accepts the user, profile, revocation and device certificates:
\* each has a timestamp of its own and an author who was an administrator (or, for a
\* device, its user) according to the certificates that are older.
THEOREM StoredCommonCertsAcceptable == Spec => []CommonCertsAcceptable
  <1>1. Init => CommonInv
    <2> SUFFICES ASSUME Init PROVE CommonInv
      BY Zenon
    <2>1. commonTs = 0 /\ devices = {} /\ revocations = {} /\ profiles = [u \in Users |-> <<>>]
      BY Zenon DEF Init
    <2>2. AdminInv
      BY <2>1, InitTypes, Zenon DEF AdminInv, EmptyBeforeBootstrap, ActiveAdminExists
    <2>3. \A u \in Users : DOMAIN profiles[u] = {}
      BY <2>1
    <2>4. Typed(devices, revocations, profiles) /\ DatedBy(devices, revocations, profiles, commonTs)
      BY <2>1, <2>2, <2>3, Zenon DEF Typed, DatedBy, ProfilesOrdered, AdminInv, TypeOK
    <2>5. AllAcceptable(devices, revocations, profiles)
      BY <2>1, <2>3, Zenon DEF AllAcceptable
    <2>6. \A x : x \notin StampsIn(devices, revocations, profiles)
      BY <2>1, <2>3, StampForms
    <2>7. CommonCertsAcceptable
      BY <2>5, <2>6, CommonCertsAre, Zenon DEF Distinct
    <2> QED
      BY <2>1, <2>2, <2>4, <2>7, Zenon DEF CommonInv
  <1>2. CommonInv => CommonCertsAcceptable
    BY Zenon DEF CommonInv
  <1> QED
    BY <1>1, <1>2, CommonInvIsInductive, PTL DEF Spec

(***************************************************************************)
(* Enrollments.                                                            *)
(***************************************************************************)

Active == {u \in Users : IsActive(u)}

LimitedIn(S) ==
    /\ Cardinality(S) <= IF ActiveUsersLimit = 0 THEN 1 ELSE ActiveUsersLimit
    /\ \A u, v \in S : u # v => HumanHandle[u] # HumanHandle[v]

EnrollmentInv == AdminInv /\ IsFiniteSet(Active) /\ LimitedIn(Active)

\* The active users after a step: fewer, or one more within the limit.
LEMMA FewerActive ==
    ASSUME FiniteSetFacts, NEW S, IsFiniteSet(S), LimitedIn(S), NEW T, T \subseteq S
    PROVE  IsFiniteSet(T) /\ LimitedIn(T)
  <1>1. /\ IsFiniteSet(T) /\ Cardinality(T) <= Cardinality(S)
        /\ Cardinality(T) \in Nat /\ Cardinality(S) \in Nat
    BY CountFewer, Zenon
  <1> QED
    BY <1>1, LimitAssumption DEF LimitedIn

LEMMA OneMoreActive ==
    ASSUME FiniteSetFacts, NEW S, IsFiniteSet(S), LimitedIn(S), NEW u, u \notin S,
           S = {} \/ ~(ActiveUsersLimit <= Cardinality(S)),
           \A v \in S : HumanHandle[v] # HumanHandle[u]
    PROVE  IsFiniteSet(S \cup {u}) /\ LimitedIn(S \cup {u})
  <1>1. IsFiniteSet(S \cup {u}) /\ Cardinality(S \cup {u}) = Cardinality(S) + 1
    BY CountOneMore, Zenon
  <1>2. Cardinality(S) \in Nat /\ (S = {} => Cardinality(S) = 0)
    BY CountNothing, Zenon
  <1>3. Cardinality(S \cup {u}) <= IF ActiveUsersLimit = 0 THEN 1 ELSE ActiveUsersLimit
    BY <1>1, <1>2, LimitAssumption
  <1> QED
    BY <1>1, <1>3, Zenon DEF LimitedIn

LEMMA ActiveAfter ==
    ASSUME AdminInv, [Next]_vars
    PROVE  \/ Active' \subseteq Active
           \/ \E u \in Users : /\ Active' \subseteq Active \cup {u} /\ u \notin Active
                               /\ Active = {} \/ ~ActiveUserLimitReached
                               /\ \A v \in Active : HumanHandle[v] # HumanHandle[u]
  <1>1. ASSUME UNCHANGED profiles, revocations \subseteq revocations' PROVE Active' \subseteq Active
    BY <1>1, Zenon DEF Active, IsActive, Exists, IsRevoked
  <1>2. ASSUME NEW u \in Users, NEW p \in Profiles, NEW t \in Timestamps, NEW author \in Authors,
               AddProfile(u, p, t, author), UNCHANGED revocations
        PROVE  Active' \subseteq Active \cup {u}
    BY <1>2, AddProfileEffect, Zenon DEF AdminInv, Active, IsActive, Exists, IsRevoked
  <1>3. ASSUME NEW u \in Users, NEW d \in Devices, NEW t \in Timestamps, Bootstrap(u, d, t)
        PROVE  Active' \subseteq Active \cup {u} /\ u \notin Active /\ Active = {}
    <2>1. AddProfile(u, "ADMIN", t, Root) /\ UNCHANGED revocations /\ devices = {}
      BY <1>3, Zenon DEF Bootstrap, InsertUser
    <2>2. "ADMIN" \in Profiles /\ Root \in Authors
      BY Zenon DEF Profiles, Authors
    <2>3. Active = {}
      BY <2>1, Zenon DEF AdminInv, EmptyBeforeBootstrap, Active, IsActive, Exists
    <2> QED
      BY <1>2, <2>1, <2>2, <2>3, Zenon
  <1>4. ASSUME NEW a \in devices, NEW u \in Users, NEW d \in Devices, NEW p \in Profiles,
               NEW t \in Timestamps, CreateUser(a, u, d, p, t)
        PROVE  /\ Active' \subseteq Active \cup {u} /\ u \notin Active /\ ~ActiveUserLimitReached
               /\ \A v \in Active : HumanHandle[v] # HumanHandle[u]
    <2>1. /\ AddProfile(u, p, t, a.id) /\ UNCHANGED revocations /\ ~Exists(u) /\ ~ActiveUserLimitReached
          /\ \A v \in Users : IsActive(v) => HumanHandle[v] # HumanHandle[u]
      BY <1>4, Zenon DEF CreateUser, CreateUserCheck, InsertUser
    <2>2. a.id \in Authors
      BY AuthorType, Zenon DEF AdminInv, Authors
    <2>3. Active' \subseteq Active \cup {u}
      BY <1>2, <2>1, <2>2, Zenon
    <2> QED
      BY <2>1, <2>3, Zenon DEF Active, IsActive
  <1>5. ASSUME NEW a \in devices, NEW u \in Users, NEW p \in Profiles, NEW t \in Timestamps,
               UpdateUser(a, u, p, t)
        PROVE  Active' \subseteq Active
    <2>1. AddProfile(u, p, t, a.id) /\ UNCHANGED revocations /\ IsActive(u)
      BY <1>5, Zenon DEF UpdateUser, UpdateUserCheck, InsertProfile
    <2>2. a.id \in Authors
      BY AuthorType, Zenon DEF AdminInv, Authors
    <2>3. Active' \subseteq Active \cup {u}
      BY <1>2, <2>1, <2>2, Zenon
    <2> QED
      BY <2>1, <2>3, Zenon DEF Active
  <1>6. ASSUME NEW a, NEW u, NEW t, RevokeUser(a, u, t) PROVE Active' \subseteq Active
    BY <1>1, <1>6, Zenon DEF RevokeUser, InsertRevocation
  <1>7. ASSUME NEW a, NEW d, NEW t, CreateDevice(a, d, t) PROVE Active' \subseteq Active
    BY <1>1, <1>7, Zenon DEF CreateDevice, InsertDevice
  <1>8. ASSUME UNCHANGED commonVars PROVE Active' \subseteq Active
    BY <1>1, <1>8, Zenon DEF commonVars
  <1>9. CASE RealmNext
    BY <1>8, <1>9, RealmFrame, ZenonT(30)
  <1>10. CASE VlobNext
    BY <1>8, <1>10, SMTT(20) DEF VlobNext, CreateVlob, UpdateVlob, InsertVlob
  <1>11. CASE UNCHANGED vars
    BY <1>8, <1>11, Zenon DEF vars, commonVars
  <1>12. CASE CommonNext
    BY <1>3, <1>4, <1>5, <1>6, <1>7, <1>12, ZenonT(30) DEF CommonNext
  <1> QED
    BY <1>9, <1>10, <1>11, <1>12, Zenon DEF Next

LEMMA EnrollmentInvIsInductive ==
    ASSUME FiniteSetFacts
    PROVE  EnrollmentInv /\ [Next]_vars => EnrollmentInv'
  <1> SUFFICES ASSUME EnrollmentInv, [Next]_vars PROVE EnrollmentInv'
    BY Zenon
  <1>1. AdminInv /\ AdminInv' /\ IsFiniteSet(Active) /\ LimitedIn(Active)
    BY NextKeepsAdmin, Zenon DEF EnrollmentInv
  <1>2. CASE Active' \subseteq Active
    BY <1>1, <1>2, FewerActive, Zenon DEF EnrollmentInv, LimitedIn
  <1>3. CASE \E u \in Users : /\ Active' \subseteq Active \cup {u} /\ u \notin Active
                              /\ Active = {} \/ ~ActiveUserLimitReached
                              /\ \A v \in Active : HumanHandle[v] # HumanHandle[u]
    <2>1. PICK u \in Users : /\ Active' \subseteq Active \cup {u} /\ u \notin Active
                             /\ Active = {} \/ ~ActiveUserLimitReached
                             /\ \A v \in Active : HumanHandle[v] # HumanHandle[u]
      BY <1>3, Zenon
    <2>2. Active = {} \/ ~(ActiveUsersLimit <= Cardinality(Active))
      BY <2>1, Zenon DEF ActiveUserLimitReached, Active
    <2>3. IsFiniteSet(Active \cup {u}) /\ LimitedIn(Active \cup {u})
      BY <1>1, <2>1, <2>2, OneMoreActive, Zenon
    <2>4. IsFiniteSet(Active') /\ LimitedIn(Active')
      BY <2>1, <2>3, FewerActive, Zenon
    <2> QED
      BY <1>1, <2>4, Zenon DEF EnrollmentInv, LimitedIn
  <1> QED
    BY <1>1, <1>2, <1>3, ActiveAfter, Zenon

LEMMA EnrollmentInvInit ==
    ASSUME FiniteSetFacts
    PROVE  Init => EnrollmentInv
  <1> SUFFICES ASSUME Init PROVE EnrollmentInv
    BY Zenon
  <1>1. AdminInv
    BY InitTypes, Zenon DEF Init, AdminInv, EmptyBeforeBootstrap, ActiveAdminExists
  <1>2. Active = {}
    BY Zenon DEF Init, Active, IsActive, Exists
  <1>3. IsFiniteSet(Active) /\ Cardinality(Active) = 0
    BY <1>2, CountNothing, Zenon
  <1> QED
    BY <1>1, <1>2, <1>3, LimitAssumption DEF EnrollmentInv, LimitedIn

LEMMA EnrollmentInvLimits == EnrollmentInv => EnrollmentIsLimited
  BY Zenon DEF EnrollmentInv, EnrollmentIsLimited, LimitedIn, Active

(***************************************************************************)
(* The update log.                                                         *)
(***************************************************************************)

\* The entries of a log about a vlob.
Entries(log, v) == {i \in DOMAIN log : log[i].vlob = v}

\* The last entry about a vlob, if any, has its current version, and there are
\* as many as it has versions.
LogIsCurrent(log, v, n) ==
    /\ Entries(log, v) # {} =>
         \E i \in Entries(log, v) : log[i].version = n /\ \A j \in Entries(log, v) : j <= i
    /\ IsFiniteSet(Entries(log, v)) /\ Cardinality(Entries(log, v)) = n

PollInv == TypeOK /\ \A r \in Realms, v \in Vlobs : LogIsCurrent(vlobUpdates[r], v, Len(vlobs[r][v]))

LEMMA LogAppended ==
    ASSUME FiniteSetFacts,
           NEW log \in Seq(VlobUpdates), NEW v \in Vlobs, NEW n \in Nat, NEW w \in Vlobs, NEW m \in Nat,
           LogIsCurrent(log, v, n), LogIsCurrent(log, w, m)
    PROVE  /\ LogIsCurrent(Append(log, [vlob |-> v, version |-> n + 1]), v, n + 1)
           /\ w # v => LogIsCurrent(Append(log, [vlob |-> v, version |-> n + 1]), w, m)
  <1> DEFINE e == [vlob |-> v, version |-> n + 1]
             new == Append(log, e)
             last == Len(log) + 1
  <1>1. e \in VlobUpdates /\ e.vlob = v /\ e.version = n + 1
    BY DEF VlobUpdates
  <1> HIDE DEF e
  <1>2. /\ DOMAIN new = DOMAIN log \cup {last} /\ new[last] = e
        /\ \A i \in DOMAIN log : new[i] = log[i] /\ i < last
        /\ last \notin DOMAIN log /\ last \in Nat
    BY <1>1, SMTT(30)
  <1> HIDE DEF new, last
  <1>3. Entries(new, v) = Entries(log, v) \cup {last} /\ last \notin Entries(log, v)
    BY <1>1, <1>2, Zenon DEF Entries
  <1>4. w # v => Entries(new, w) = Entries(log, w) /\ \A i \in Entries(log, w) : new[i] = log[i]
    BY <1>1, <1>2, Zenon DEF Entries
  <1>5. IsFiniteSet(Entries(new, v)) /\ Cardinality(Entries(new, v)) = n + 1
    <2>1. IsFiniteSet(Entries(log, v)) /\ Cardinality(Entries(log, v)) = n
      BY Zenon DEF LogIsCurrent
    <2>2. /\ IsFiniteSet(Entries(log, v) \cup {last})
          /\ Cardinality(Entries(log, v) \cup {last}) = Cardinality(Entries(log, v)) + 1
      BY <1>3, <2>1, CountOneMore, Zenon
    <2> QED
      BY <1>3, <2>1, <2>2, Zenon
  <1>6. \A j \in Entries(new, v) : j <= last
    BY <1>2, <1>3, SMTT(20) DEF Entries
  <1>7. LogIsCurrent(new, v, n + 1)
    BY <1>1, <1>2, <1>3, <1>5, <1>6, Zenon DEF LogIsCurrent
  <1>8. w # v => LogIsCurrent(new, w, m)
    BY <1>4, Zenon DEF LogIsCurrent
  <1> QED
    BY <1>7, <1>8, Zenon DEF new, e

LEMMA PollInvIsInductive ==
    ASSUME FiniteSetFacts
    PROVE  PollInv /\ [Next]_vars => PollInv'
  <1> SUFFICES ASSUME PollInv, [Next]_vars PROVE PollInv'
    BY Zenon
  <1>1. TypeOK /\ TypeOK'
    BY NextTypes, Zenon DEF PollInv
  <1>2. ASSUME UNCHANGED vlobVars PROVE PollInv'
    BY <1>1, <1>2, Zenon DEF PollInv, vlobVars
  <1>3. ASSUME NEW r \in Realms, NEW v \in Vlobs, NEW versions, NEW t, InsertVlob(r, v, versions, t),
               Len(versions) = Len(vlobs[r][v]) + 1
        PROVE  PollInv'
    <2>1. /\ vlobs \in [Realms -> [Vlobs -> Seq(Atoms)]]
          /\ vlobUpdates \in [Realms -> Seq(VlobUpdates)]
      BY <1>1, Zenon DEF TypeOK
    <2>2. /\ vlobs' = [vlobs EXCEPT ![r][v] = versions]
          /\ vlobUpdates' = [vlobUpdates EXCEPT ![r] =
                               Append(@, [vlob |-> v, version |-> Len(versions)])]
      BY <1>3, Zenon DEF InsertVlob
    <2>3. \A q \in Realms, w \in Vlobs : Len(vlobs[q][w]) \in Nat
      BY <2>1
    <2>4. ASSUME NEW q \in Realms, NEW w \in Vlobs
          PROVE  LogIsCurrent(vlobUpdates'[q], w, Len(vlobs'[q][w]))
      <3>1. LogIsCurrent(vlobUpdates[q], w, Len(vlobs[q][w])) /\ LogIsCurrent(vlobUpdates[r], v, Len(vlobs[r][v]))
        BY Zenon DEF PollInv
      <3>2. CASE q # r
        BY <2>1, <2>2, <3>1, <3>2, Zenon
      <3>3. CASE q = r
        <4>1. vlobUpdates'[r] = Append(vlobUpdates[r], [vlob |-> v, version |-> Len(vlobs[r][v]) + 1])
          BY <1>3, <2>1, <2>2, Zenon
        <4>2. vlobs'[r][w] = IF w = v THEN versions ELSE vlobs[r][w]
          BY <2>1, <2>2, Zenon
        <4>3. vlobUpdates[r] \in Seq(VlobUpdates)
          BY <2>1, Zenon
        <4> QED
          BY <1>3, <2>3, <3>1, <3>3, <4>1, <4>2, <4>3, LogAppended, ZenonT(30)
      <3> QED
        BY <3>2, <3>3, Zenon
    <2> QED
      BY <1>1, <2>4, ZenonT(30) DEF PollInv, LogIsCurrent, Entries
  <1>4. CASE CommonNext
    BY <1>2, <1>4, ZenonT(40) DEF CommonNext, Bootstrap, CreateUser, CreateDevice, RevokeUser, UpdateUser,
       InsertUser, InsertDevice, InsertRevocation, InsertProfile
  <1>5. CASE RealmNext
    BY <1>2, <1>5, RealmFrame, Zenon
  <1>6. CASE VlobNext
    <2>1. ASSUME NEW t \in Timestamps, NEW a \in devices, NEW r \in Realms, NEW v \in Vlobs,
                 NEW k \in KeyIndexes, CreateVlob(a, r, v, k, t)
          PROVE  PollInv'
      <3>1. vlobs[r][v] = <<>> /\ InsertVlob(r, v, <<Atom(k, t, a.id)>>, t)
        BY <2>1, ZenonT(30) DEF CreateVlob
      <3>2. Len(<<Atom(k, t, a.id)>>) = Len(vlobs[r][v]) + 1
        BY <3>1
      <3> QED
        BY <1>3, <3>1, <3>2, ZenonT(30)
    <2>2. ASSUME NEW t \in Timestamps, NEW a \in devices, NEW r \in Realms, NEW v \in Vlobs,
                 NEW k \in KeyIndexes, NEW version, UpdateVlob(a, r, v, k, version, t)
          PROVE  PollInv'
      <3>1. a.id \in Devices /\ k \in Nat
        BY <1>1, AuthorType, KeyIndexesAssumption, Zenon
      <3>2. Atom(k, t, a.id) \in Atoms
        BY <3>1, Zenon DEF Atom, Atoms
      <3>3. vlobs[r][v] \in Seq(Atoms)
        BY <1>1, Zenon DEF TypeOK
      <3>4. Len(Append(vlobs[r][v], Atom(k, t, a.id))) = Len(vlobs[r][v]) + 1
        BY <3>2, <3>3
      <3> QED
        BY <1>3, <2>2, <3>4, ZenonT(30) DEF UpdateVlob
    <2> QED
      BY <1>6, <2>1, <2>2, Zenon DEF VlobNext
  <1>7. CASE UNCHANGED vars
    BY <1>2, <1>7, Zenon DEF vars, vlobVars
  <1> QED
    BY <1>4, <1>5, <1>6, <1>7, Zenon DEF Next

LEMMA PollInvInit ==
    ASSUME FiniteSetFacts
    PROVE  Init => PollInv
  <1> SUFFICES ASSUME Init PROVE PollInv
    BY Zenon
  <1>1. \A r \in Realms, v \in Vlobs : Entries(vlobUpdates[r], v) = {} /\ Len(vlobs[r][v]) = 0
    BY DEF Init, Entries
  <1> QED
    BY <1>1, InitTypes, CountNothing, ZenonT(30) DEF PollInv, LogIsCurrent

LEMMA PollAnswersCurrent == PollInv => PollIsComplete
  <1> SUFFICES ASSUME PollInv, NEW r \in Realms, NEW v \in Vlobs
               PROVE  /\ \A checkpoint \in 0 .. Len(vlobUpdates[r]) :
                            PolledVersion(r, v, checkpoint) \in {0, Len(vlobs[r][v])}
                      /\ Cardinality({i \in DOMAIN vlobUpdates[r] : vlobUpdates[r][i].vlob = v})
                            = Len(vlobs[r][v])
    BY ZenonT(30) DEF PollIsComplete
  <1> DEFINE log == vlobUpdates[r]
             n == Len(vlobs[r][v])
  <1>1. LogIsCurrent(log, v, n) /\ log \in Seq(VlobUpdates)
    BY Zenon DEF PollInv, TypeOK
  <1>2. Cardinality(Entries(log, v)) = n
    BY <1>1, Zenon DEF LogIsCurrent
  <1>3. ASSUME NEW checkpoint \in 0 .. Len(log) PROVE PolledVersion(r, v, checkpoint) \in {0, n}
    <2> DEFINE since == {i \in DOMAIN log : i > checkpoint /\ log[i].vlob = v}
    <2>1. CASE since = {}
      BY <2>1, Zenon DEF PolledVersion
    <2>2. CASE since # {}
      <3>1. PICK i \in Entries(log, v) : log[i].version = n /\ \A j \in Entries(log, v) : j <= i
        BY <1>1, <2>2, Zenon DEF LogIsCurrent, Entries
      <3>2. \A j \in since : j \in Entries(log, v) /\ j \in Nat
        BY <1>1, SMTT(20) DEF Entries
      <3>3. i \in since
        BY <1>1, <2>2, <3>1, <3>2, SMTT(20) DEF Entries
      <3>4. \A j \in since : (\A l \in since : l <= j) => j = i
        BY <3>1, <3>2, <3>3
      <3>5. (CHOOSE j \in since : \A l \in since : l <= j) = i
        BY <3>1, <3>2, <3>3, <3>4, Zenon
      <3> QED
        BY <2>2, <3>1, <3>5, ZenonT(30) DEF PolledVersion
    <2> QED
      BY <2>1, <2>2, Zenon
  <1> QED
    BY <1>2, <1>3, Zenon DEF Entries
=============================================================================
