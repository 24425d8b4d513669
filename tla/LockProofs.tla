----------------------------- MODULE LockProofs -----------------------------
(***************************************************************************)
(* Tasks that share locks.                                                 *)
(*                                                                         *)
(* The update lock of a manifest protects its cache (ManifestCache), for   *)
(* any set of accesses: what is in cache is what is stored, updaters work  *)
(* on the last manifest, and no edition is lost.                           *)
(*                                                                         *)
(* The update locks of the manifests of a workspace protect its tree       *)
(* (FolderTree), for any tree, any set of callers and of calls: what a     *)
(* call overwrites is what it has read, and no entry gets a second name.   *)
(*                                                                         *)
(* The topics lock of the server is correct for any set of tasks, of       *)
(* topics and of nested lock requests: LockTasks keeps its mutual          *)
(* exclusion, its two dictionaries agree with the holders, and no wake-up  *)
(* is lost.                                                                *)
(***************************************************************************)
EXTENDS LockTasks, FolderTree, ManifestCache, FiniteSetTheorems, TLAPS

(***************************************************************************)
(* The cache of the manifests                                              *)
(***************************************************************************)

\* A task that has the lock, by where it is.
Holds(t) ==
    \/ at[t] \in {"update", "publish"}
    \/ kind[t] = "edit" /\ at[t] \in {"lookup", "fetch", "populate", "insert"}

\* The inductive invariant.  A task that is about to insert what it has read without the
\* lock may have been overtaken, but only by the updater that is about to publish; and a
\* synchronization that has found nothing may have been overtaken by an edition, but then
\* the cache is not empty.
CacheInv ==
    /\ CacheTypeOK
    /\ \A t \in Accesses : Holds(t) => lock = t
    /\ storage = NoManifest => cache = NoManifest /\ stamp = 0
    /\ storage # NoManifest => storage.edit = stamp
    /\ cache # NoManifest =>
          cache = storage \/ \E w \in Accesses : at[w] = "publish"
    /\ \A t \in Accesses :
          /\ at[t] = "populate" => got[t] # NoManifest /\ got[t].edit = 0
          /\ at[t] = "insert" =>
                /\ got[t] # NoManifest /\ storage # NoManifest
                /\ cache = NoManifest =>
                      got[t] = storage \/ \E w \in Accesses : at[w] = "publish"
          /\ at[t] \in {"retrieve", "missing"} => kind[t] = "sync"
          /\ at[t] = "missing" => cache # NoManifest \/ stamp = 0
          /\ at[t] = "update" =>
                /\ kind[t] \in {"edit", "sync"}
                /\ kind[t] = "edit" => got[t] # NoManifest
                /\ IF got[t] = NoManifest THEN stamp = 0
                   ELSE got[t] = storage /\ cache = storage
          /\ at[t] = "publish" => got[t] # NoManifest /\ got[t] = storage

LEMMA CacheInitInv == CacheInit => CacheInv
  BY CacheAssumption DEF CacheInit, CacheInv, CacheTypeOK, Holds

LEMMA CacheInvImplies ==
    CacheInv => CacheTypeOK /\ CacheIsLatest /\ UpdatersAreCurrent /\ NoEditIsLost
  BY Zenon DEF CacheInv, CacheIsLatest, UpdatersAreCurrent, NoEditIsLost, Holds

LEMMA CacheNextInv == CacheInv /\ [CacheNext]_cacheVars => CacheInv'
  <1> SUFFICES ASSUME CacheInv, [CacheNext]_cacheVars PROVE CacheInv'
    BY Zenon
  <1> USE CacheAssumption DEF CacheInv, CacheTypeOK, Holds, Manifest, Goto
  <1>1. CASE Upload
    BY <1>1 DEF Upload
  <1>2. ASSUME NEW t \in Accesses, GetManifest(t) PROVE CacheInv'
    BY <1>2, ZenonT(30) DEF GetManifest
  <1>3. ASSUME NEW t \in Accesses, ForUpdate(t) PROVE CacheInv'
    BY <1>3 DEF ForUpdate, TakeLock
  <1>4. ASSUME NEW t \in Accesses, FetchForSync(t) PROVE CacheInv'
    BY <1>4, ZenonT(30) DEF FetchForSync
  <1>5. ASSUME NEW t \in Accesses, RetrieveFromCache(t) PROVE CacheInv'
    BY <1>5 DEF RetrieveFromCache, TakeLock
  <1>6. ASSUME NEW t \in Accesses, RetrieveWouldBlock(t) PROVE CacheInv'
    BY <1>6, ZenonT(30) DEF RetrieveWouldBlock
  <1>7. ASSUME NEW t \in Accesses, RetrieveNeedsPopulate(t) PROVE CacheInv'
    BY <1>7, ZenonT(30) DEF RetrieveNeedsPopulate
  <1>8. ASSUME NEW t \in Accesses, Lookup(t) PROVE CacheInv'
    BY <1>8 DEF Lookup
  <1>9. ASSUME NEW t \in Accesses, Fetch(t) PROVE CacheInv'
    BY <1>9 DEF Fetch, FromRemote
  <1>10. ASSUME NEW t \in Accesses, FetchFails(t) PROVE CacheInv'
    BY <1>10, ZenonT(30) DEF FetchFails, Release
  <1>11. ASSUME NEW t \in Accesses, Populate(t) PROVE CacheInv'
    BY <1>11, ZenonT(30) DEF Populate
  <1>12. ASSUME NEW t \in Accesses, InsertIfMissing(t) PROVE CacheInv'
    BY <1>12 DEF InsertIfMissing, AfterInsert
  <1>13. ASSUME NEW t \in Accesses, Update(t) PROVE CacheInv'
    BY <1>13 DEF Update, FromRemote
  <1>14. ASSUME NEW t \in Accesses, UpdateNothing(t) PROVE CacheInv'
    BY <1>14, ZenonT(30) DEF UpdateNothing, Release
  <1>15. ASSUME NEW t \in Accesses, Publish(t) PROVE CacheInv'
    BY <1>15, ZenonT(30) DEF Publish, Release
  <1>16. CASE Restart
    BY <1>16, ZenonT(30) DEF Restart
  <1>17. CASE UNCHANGED cacheVars
    BY <1>17, ZenonT(30) DEF cacheVars
  <1>18. QED
    BY <1>1, <1>2, <1>3, <1>4, <1>5, <1>6, <1>7, <1>8, <1>9, <1>10, <1>11, <1>12, <1>13,
       <1>14, <1>15, <1>16, <1>17, Zenon DEF CacheNext

LEMMA CacheInvHolds == CacheSpec => []CacheInv
  BY CacheInitInv, CacheNextInv, PTL DEF CacheSpec

\* Whatever the tasks do concurrently, and wherever the device stops, what is in cache is
\* what is in the local storage, but while an updater is between the two.
THEOREM CacheStaysLatest == CacheSpec => []CacheIsLatest
  BY CacheInvHolds, CacheInvImplies, PTL

\* An updater writes on top of what it has read, although readers populate the storage and
\* the cache without the lock.
THEOREM UpdatersStayCurrent == CacheSpec => []UpdatersAreCurrent
  BY CacheInvHolds, CacheInvImplies, PTL

\* No local edition is lost, whoever populates, merges or restarts in the meantime.
THEOREM EditsSurvive == CacheSpec => []NoEditIsLost
  BY CacheInvHolds, CacheInvImplies, PTL

(***************************************************************************)
(* The tree of a workspace                                                 *)
(***************************************************************************)

\* What `evolve_children_and_mark_updated` makes of a folder.
EvolvedFrom(f, m, data) ==
    /\ IsManifest(f) /\ f.parent = m.parent
    /\ \A n : n \in DOMAIN f.children <=>
          \/ n \in DOMAIN m.children /\ n \notin DOMAIN data
          \/ n \in DOMAIN data /\ data[n] # NoEntry
    /\ \A n \in DOMAIN f.children :
          f.children[n] = IF n \in DOMAIN data THEN data[n] ELSE m.children[n]

LEMMA EvolvedManifest ==
    ASSUME NEW m, IsManifest(m), NEW data, NEW f, f = Evolve(m, data)
    PROVE  EvolvedFrom(f, m, data)
  <1> DEFINE added == {n \in DOMAIN data : data[n] # NoEntry}
             kept  == DOMAIN m.children \ DOMAIN data
             after == [n \in kept \cup added |-> IF n \in added THEN data[n] ELSE m.children[n]]
             e == [kind |-> m.kind, parent |-> m.parent, children |-> after]
  <1>1. m = [kind |-> m.kind, parent |-> m.parent, children |-> m.children]
    BY Zenon DEF IsManifest
  <1>2. Evolve(m, data) = [m EXCEPT !.children = after]
    BY Zenon DEF Evolve
  <1>3. Evolve(m, data) = e
    <2> HIDE DEF after
    <2> QED
      BY <1>1, <1>2, Zenon
  <1>4. e.parent = m.parent /\ e.children = after /\ IsManifest(e)
    BY Zenon DEF IsManifest
  <1>5. /\ \A n : n \in DOMAIN after <=>
              \/ n \in DOMAIN m.children /\ n \notin DOMAIN data
              \/ n \in DOMAIN data /\ data[n] # NoEntry
        /\ \A n \in DOMAIN after : after[n] = IF n \in DOMAIN data THEN data[n] ELSE m.children[n]
    BY Zenon
  <1> HIDE DEF after, e
  <1> QED
    BY <1>3, <1>4, <1>5, Zenon DEF EvolvedFrom

Only(name, id) == [n \in {name} |-> id]

\* One name is given to an entry, or taken away.
EvolvedOnlyBy(f, m, name, id) ==
    /\ IsManifest(f) /\ f.parent = m.parent
    /\ \A n : n # name => (n \in DOMAIN f.children <=> n \in DOMAIN m.children)
    /\ name \in DOMAIN f.children <=> id # NoEntry
    /\ \A n \in DOMAIN f.children :
          /\ n # name => f.children[n] = m.children[n]
          /\ n = name => f.children[n] = id

LEMMA EvolvedOnly ==
    ASSUME NEW m, IsManifest(m), NEW name, NEW id, NEW f, f = Evolve(m, Only(name, id))
    PROVE  EvolvedOnlyBy(f, m, name, id)
  <1> DEFINE data == Only(name, id)
  <1>1. DOMAIN data = {name} /\ data[name] = id /\ f = Evolve(m, data)
    BY Zenon DEF Only
  <1> HIDE DEF data
  <1>2. EvolvedFrom(f, m, data)
    BY <1>1, EvolvedManifest, Zenon
  <1> QED
    BY <1>1, <1>2, Zenon DEF EvolvedFrom, EvolvedOnlyBy

\* An entry is created.
LEMMA Created ==
    ASSUME NEW m, SoundTree(m), NEW p \in DOMAIN m, NEW new, new \notin DOMAIN m, new # NoEntry,
           NEW name, NEW entry, NEW after,
           DOMAIN after = DOMAIN m \cup {new},
           after[new] = [kind |-> entry, parent |-> p, children |-> <<>>],
           after[p] = Evolve(m[p], Only(name, new)),
           \A id \in DOMAIN m : id # p => after[id] = m[id]
    PROVE  \A id \in DOMAIN after : IsManifest(after[id]) /\ Listed(after, id)
  <1>1. /\ IsManifest(after[p]) /\ after[p].parent = m[p].parent
        /\ \A n : n \in DOMAIN after[p].children <=> (n \in DOMAIN m[p].children \/ n = name)
        /\ after[p].children[name] = new
        /\ \A n \in DOMAIN after[p].children : n # name => after[p].children[n] = m[p].children[n]
    <2>1. IsManifest(m[p])
      BY Zenon DEF SoundTree
    <2>2. EvolvedOnlyBy(after[p], m[p], name, new)
      BY <2>1, EvolvedOnly, Zenon
    <2> QED
      BY <2>2, Zenon DEF EvolvedOnlyBy
  <1>2. /\ IsManifest(after[new]) /\ DOMAIN after[new].children = {} /\ after[new].parent = p
    BY DEF IsManifest
  <1>3. \A id \in DOMAIN m : after[id].parent = m[id].parent /\ IsManifest(after[id])
    BY <1>1, Zenon DEF SoundTree
  <1>4. Listed(after, p)
    BY <1>1, <1>2, <1>3 DEF SoundTree, Listed
  <1>5. \A id \in DOMAIN m : Listed(after, id)
    BY <1>3, <1>4 DEF SoundTree, Listed
  <1>6. Listed(after, new)
    BY <1>2, ZenonT(30) DEF Listed
  <1> QED
    BY <1>2, <1>3, <1>5, <1>6, Zenon DEF SoundTree

\* The names of a folder are taken away or given to other entries it lists.
Relists(data, children) ==
    /\ \A n \in DOMAIN data : data[n] # NoEntry =>
          \E x \in DOMAIN data : x \in DOMAIN children /\ data[n] = children[x]
    /\ \A n, x \in DOMAIN data : data[n] # NoEntry /\ data[n] = data[x] => n = x

LEMMA Relisted ==
    ASSUME NEW m, SoundTree(m), NEW p \in DOMAIN m, NEW data, Relists(data, m[p].children),
           NEW after,
           DOMAIN after = DOMAIN m,
           after[p] = Evolve(m[p], data),
           \A id \in DOMAIN m : id # p => after[id] = m[id]
    PROVE  \A id \in DOMAIN after : IsManifest(after[id]) /\ Listed(after, id)
  <1>1. IsManifest(m[p])
    BY Zenon DEF SoundTree
  <1>2. /\ IsManifest(after[p]) /\ after[p].parent = m[p].parent
        /\ \A n : n \in DOMAIN after[p].children <=>
              \/ n \in DOMAIN m[p].children /\ n \notin DOMAIN data
              \/ n \in DOMAIN data /\ data[n] # NoEntry
        /\ \A n \in DOMAIN after[p].children :
              after[p].children[n] = IF n \in DOMAIN data THEN data[n] ELSE m[p].children[n]
    <2>1. EvolvedFrom(after[p], m[p], data)
      BY <1>1, EvolvedManifest, Zenon
    <2> QED
      BY <2>1, Zenon DEF EvolvedFrom
  <1>3. \A id \in DOMAIN m : after[id].parent = m[id].parent /\ IsManifest(after[id])
    BY <1>2, Zenon DEF SoundTree
  <1>4. Listed(m, p)
    BY Zenon DEF SoundTree
  <1>5. \A n \in DOMAIN after[p].children :
           \E x \in DOMAIN m[p].children :
              /\ after[p].children[n] = m[p].children[x]
              /\ n \in DOMAIN data <=> x \in DOMAIN data
    BY <1>2, ZenonT(30) DEF Relists
  <1>6. \A n \in DOMAIN after[p].children :
           /\ after[p].children[n] \in DOMAIN after
           /\ after[after[p].children[n]].parent = p
    <2> SUFFICES ASSUME NEW n \in DOMAIN after[p].children
                 PROVE  /\ after[p].children[n] \in DOMAIN after
                        /\ after[after[p].children[n]].parent = p
      BY Zenon
    <2>1. PICK x \in DOMAIN m[p].children : after[p].children[n] = m[p].children[x]
      BY <1>5, ZenonT(30)
    <2> QED
      BY <1>3, <1>4, <2>1, Zenon DEF Listed
  <1>7. ASSUME NEW n \in DOMAIN after[p].children, NEW q \in DOMAIN after[p].children,
               after[p].children[n] = after[p].children[q]
        PROVE  n = q
    <2>1. PICK x \in DOMAIN m[p].children :
             /\ after[p].children[n] = m[p].children[x]
             /\ n \in DOMAIN data <=> x \in DOMAIN data
      BY <1>5, Zenon
    <2>2. PICK y \in DOMAIN m[p].children :
             /\ after[p].children[q] = m[p].children[y]
             /\ q \in DOMAIN data <=> y \in DOMAIN data
      BY <1>5, Zenon
    <2>3. x = y
      BY <1>4, <1>7, <2>1, <2>2, ZenonT(30) DEF Listed
    <2>4. n \in DOMAIN data <=> q \in DOMAIN data
      BY <2>1, <2>2, <2>3, Zenon
    <2>5. CASE n \in DOMAIN data
      BY <1>2, <1>7, <2>4, <2>5, ZenonT(30) DEF Relists
    <2>6. CASE n \notin DOMAIN data
      <3>1. n \in DOMAIN m[p].children /\ q \in DOMAIN m[p].children /\ m[p].children[n] = m[p].children[q]
        BY <1>2, <1>7, <2>4, <2>6, ZenonT(30)
      <3> QED
        BY <1>4, <3>1, Zenon DEF Listed
    <2> QED
      BY <2>5, <2>6, Zenon
  <1>8. Listed(after, p)
    BY <1>6, <1>7, Zenon DEF Listed
  <1>9. \A id \in DOMAIN m : id # p => Listed(after, id)
    BY <1>3 DEF SoundTree, Listed
  <1> QED
    BY <1>3, <1>8, <1>9, Zenon DEF SoundTree

\* A folder whose children have not been touched, and still have it as their parent.
LEMMA StillListed ==
    ASSUME NEW m, NEW after, NEW id, DOMAIN after = DOMAIN m, Listed(m, id),
           after[id].children = m[id].children,
           \A n \in DOMAIN m[id].children :
              m[id].children[n] \in DOMAIN m /\ after[m[id].children[n]].parent = id
    PROVE  Listed(after, id)
  BY Zenon DEF Listed

\* An entry goes from a folder to another.
MovedTo(f, dst) == [f EXCEPT !.parent = dst]

LEMMA Reparented ==
    ASSUME NEW m, SoundTree(m), NEW src \in DOMAIN m, NEW dst \in DOMAIN m, NEW k \in DOMAIN m,
           src # dst, k # src, k # dst, k # NoEntry, NEW name \in DOMAIN m[src].children,
           k = m[src].children[name], NEW dst_name, NEW after,
           DOMAIN after = DOMAIN m,
           after[src] = Evolve(m[src], Only(name, NoEntry)),
           after[dst] = Evolve(m[dst], Only(dst_name, k)),
           after[k] = MovedTo(m[k], dst),
           \A id \in DOMAIN m : id \notin {src, dst, k} => after[id] = m[id]
    PROVE  \A id \in DOMAIN after : IsManifest(after[id]) /\ Listed(after, id)
  <1>1. IsManifest(m[src]) /\ IsManifest(m[dst]) /\ IsManifest(m[k])
    BY Zenon DEF SoundTree
  <1>2. /\ IsManifest(after[src]) /\ after[src].parent = m[src].parent
        /\ \A n : n \in DOMAIN after[src].children <=> (n \in DOMAIN m[src].children /\ n # name)
        /\ \A n \in DOMAIN after[src].children : after[src].children[n] = m[src].children[n]
    <2>1. EvolvedOnlyBy(after[src], m[src], name, NoEntry)
      BY <1>1, EvolvedOnly, Zenon
    <2> QED
      BY <2>1, Zenon DEF EvolvedOnlyBy
  <1>3. /\ IsManifest(after[dst]) /\ after[dst].parent = m[dst].parent
        /\ \A n : n \in DOMAIN after[dst].children <=> (n \in DOMAIN m[dst].children \/ n = dst_name)
        /\ after[dst].children[dst_name] = k
        /\ \A n \in DOMAIN after[dst].children : n # dst_name => after[dst].children[n] = m[dst].children[n]
    <2>1. EvolvedOnlyBy(after[dst], m[dst], dst_name, k)
      BY <1>1, EvolvedOnly, Zenon
    <2> QED
      BY <2>1, Zenon DEF EvolvedOnlyBy
  <1>4. IsManifest(after[k]) /\ after[k].parent = dst /\ after[k].children = m[k].children
    <2>1. m[k] = [kind |-> m[k].kind, parent |-> m[k].parent, children |-> m[k].children]
      BY <1>1, Zenon DEF IsManifest
    <2>2. after[k] = [kind |-> m[k].kind, parent |-> dst, children |-> m[k].children]
      BY <2>1, Zenon DEF MovedTo
    <2> QED
      BY <2>2 DEF IsManifest
  <1>5. \A id \in DOMAIN m :
           /\ IsManifest(after[id])
           /\ id # k => after[id].parent = m[id].parent
    BY <1>2, <1>3, <1>4, ZenonT(30) DEF SoundTree
  <1>6. m[k].parent = src /\ Listed(m, src) /\ Listed(m, dst) /\ Listed(m, k)
    BY ZenonT(30) DEF SoundTree, Listed
  <1>7. \A id \in DOMAIN m : id # src => \A n \in DOMAIN m[id].children : m[id].children[n] # k
    <2> SUFFICES ASSUME NEW id \in DOMAIN m, id # src, NEW n \in DOMAIN m[id].children,
                        m[id].children[n] = k
                 PROVE  FALSE
      BY Zenon
    <2>1. m[m[id].children[n]].parent = id
      BY Zenon DEF SoundTree, Listed
    <2> QED
      BY <1>6, <2>1, Zenon
  <1>8. Listed(after, src)
    <2>1. \A n \in DOMAIN after[src].children : after[src].children[n] # k
      <3> SUFFICES ASSUME NEW n \in DOMAIN after[src].children, after[src].children[n] = k PROVE FALSE
        BY Zenon
      <3>1. n \in DOMAIN m[src].children /\ n # name /\ m[src].children[n] = m[src].children[name]
        BY <1>2, Zenon
      <3> QED
        BY <1>6, <3>1, Zenon DEF Listed
    <2>2. ASSUME NEW n \in DOMAIN after[src].children
          PROVE  /\ after[src].children[n] \in DOMAIN after
                 /\ after[after[src].children[n]].parent = src
      <3>1. n \in DOMAIN m[src].children /\ after[src].children[n] = m[src].children[n]
        BY <1>2, Zenon
      <3>2. m[src].children[n] \in DOMAIN m /\ m[m[src].children[n]].parent = src
        BY <1>6, <3>1, Zenon DEF Listed
      <3> QED
        BY <1>5, <2>1, <3>1, <3>2, Zenon
    <2>3. ASSUME NEW n \in DOMAIN after[src].children, NEW p \in DOMAIN after[src].children,
                 after[src].children[n] = after[src].children[p]
          PROVE  n = p
      <3>1. /\ n \in DOMAIN m[src].children /\ p \in DOMAIN m[src].children
            /\ m[src].children[n] = m[src].children[p]
        BY <1>2, <2>3, Zenon
      <3> QED
        BY <1>6, <3>1, Zenon DEF Listed
    <2> QED
      BY <2>2, <2>3, Zenon DEF Listed
  <1>9. Listed(after, dst)
    <2>1. \A n \in DOMAIN after[dst].children : n # dst_name => after[dst].children[n] # k
      <3> SUFFICES ASSUME NEW n \in DOMAIN after[dst].children, n # dst_name PROVE after[dst].children[n] # k
        BY Zenon
      <3>1. n \in DOMAIN m[dst].children /\ after[dst].children[n] = m[dst].children[n]
        BY <1>3, Zenon
      <3> QED
        BY <1>7, <3>1, Zenon
    <2>2. \A n \in DOMAIN after[dst].children :
             after[dst].children[n] \in DOMAIN after /\ after[after[dst].children[n]].parent = dst
      <3> SUFFICES ASSUME NEW n \in DOMAIN after[dst].children
                   PROVE  LET x == after[dst].children[n]
                          IN x \in DOMAIN after /\ after[x].parent = dst
        BY Zenon
      <3>1. CASE n = dst_name
        BY <1>3, <1>4, <3>1, ZenonT(30)
      <3>2. CASE n # dst_name
        <4>1. n \in DOMAIN m[dst].children /\ after[dst].children[n] = m[dst].children[n]
          BY <1>3, <3>2, Zenon
        <4>2. /\ m[dst].children[n] \in DOMAIN m /\ m[m[dst].children[n]].parent = dst
              /\ m[dst].children[n] # k
          BY <1>6, <2>1, <3>2, <4>1, ZenonT(30) DEF Listed
        <4> QED
          BY <1>5, <4>1, <4>2, ZenonT(30)
      <3> QED
        BY <3>1, <3>2, Zenon
    <2>3. \A n, p \in DOMAIN after[dst].children :
             after[dst].children[n] = after[dst].children[p] => n = p
      <3> SUFFICES ASSUME NEW n \in DOMAIN after[dst].children, NEW p \in DOMAIN after[dst].children,
                          after[dst].children[n] = after[dst].children[p]
                   PROVE  n = p
        BY Zenon
      <3>1. CASE n = dst_name \/ p = dst_name
        BY <1>3, <2>1, <3>1, ZenonT(30)
      <3>2. CASE n # dst_name /\ p # dst_name
        <4>1. /\ n \in DOMAIN m[dst].children /\ p \in DOMAIN m[dst].children
              /\ m[dst].children[n] = m[dst].children[p]
          BY <1>3, <3>2, Zenon
        <4> QED
          BY <1>6, <4>1, Zenon DEF Listed
      <3> QED
        BY <3>1, <3>2, Zenon
    <2> QED
      BY <2>2, <2>3, ZenonT(30) DEF Listed
  <1>10. Listed(after, k)
    <2>1. \A n \in DOMAIN m[k].children : m[k].children[n] # k
      BY <1>7, Zenon
    <2>2. ASSUME NEW n \in DOMAIN m[k].children
          PROVE  /\ m[k].children[n] \in DOMAIN m
                 /\ after[m[k].children[n]].parent = k
      BY <1>5, <1>6, <2>1, Zenon DEF Listed
    <2>3. Listed(m, k) /\ after[k].children = m[k].children
      BY <1>4, <1>6, Zenon
    <2> QED
      BY <2>2, <2>3, StillListed, ZenonT(30)
  <1>11. ASSUME NEW id \in DOMAIN m, id \notin {src, dst, k} PROVE Listed(after, id)
    <2>1. Listed(m, id) /\ after[id] = m[id] /\ \A n \in DOMAIN m[id].children : m[id].children[n] # k
      BY <1>7, <1>11, Zenon DEF SoundTree
    <2>2. ASSUME NEW n \in DOMAIN m[id].children
          PROVE  /\ m[id].children[n] \in DOMAIN m
                 /\ after[m[id].children[n]].parent = id
      BY <1>5, <2>1, Zenon DEF Listed
    <2> QED
      BY <2>1, <2>2, StillListed, Zenon
  <1> QED
    BY <1>5, <1>8, <1>9, <1>10, <1>11, Zenon

\* No entry is exchanged with one of another folder: the resolution of such a call releases the
\* lock of the destination before the manifests are written.
ExchangesStayInFolder == \A c \in Calls : IsReparenting(c) => c.mode # "Exchange"

TreeHypotheses == TreeAssumption /\ ExchangesStayInFolder

\* What a task that has its locks has read.
WorkState(s) ==
    /\ s = [pc |-> s.pc, call |-> s.call, ids |-> s.ids, read |-> s.read]
    /\ IF IsReparenting(s.call)
       THEN /\ s.ids = <<s.ids[1], s.ids[2], s.ids[3]>>
            /\ s.ids[1] # s.ids[2] /\ s.ids[1] # s.ids[3] /\ s.ids[2] # s.ids[3]
            /\ s.call.name \in DOMAIN s.read[s.ids[2]].children
            /\ s.ids[3] = s.read[s.ids[2]].children[s.call.name]
       ELSE s.ids = <<s.ids[1]>>
    /\ s.read = [id \in Range(s.ids) |-> s.read[id]]
    /\ s.pc = "commit" /\ s.call.op \in {"move", "rename_by_id"} /\ ~IsReparenting(s.call) =>
          s.call.name \in DOMAIN s.read[s.ids[1]].children

\* It has the locks of the manifests it works on, which are still as it has read them.
HasLocks(t) ==
    \A id \in Range(task[t].ids) :
       /\ id \in DOMAIN manifests /\ task[t].read[id] = manifests[id]
       /\ id \in DOMAIN locks /\ locks[id] = t

Working(t) == task[t].pc \in {"check", "commit"}

TasksAreSound ==
    /\ task = [t \in Callers |-> task[t]]
    /\ \A t \in Callers :
          task[t].pc \in {"resolve", "wait", "check", "commit"} => task[t].call \in Calls
    /\ \A t \in Callers : Working(t) => WorkState(task[t]) /\ HasLocks(t)

\* The inductive invariant.  The tree is sound because the calls write what they have computed
\* from a sound tree, which the locks leave as it was; a folder that lists an entry of another
\* one would have the assertion of `evolve_children_and_mark_updated` fail later.
TreeInv ==
    /\ SoundTree(manifests) /\ DOMAIN manifests \subseteq DOMAIN InitialTree \cup NewIds
    /\ TasksAreSound

LEMMA WorkIds ==
    ASSUME NEW s, WorkState(s)
    PROVE  /\ IsReparenting(s.call) => Range(s.ids) = {s.ids[1], s.ids[2], s.ids[3]} /\ Len(s.ids) = 3
           /\ ~IsReparenting(s.call) => Range(s.ids) = {s.ids[1]}
  <1>1. \A a, b, c : Range(<<a, b, c>>) = {a, b, c} /\ Len(<<a, b, c>>) = 3
    BY DEF Range
  <1>2. \A a : Range(<<a>>) = {a}
    BY DEF Range
  <1> QED
    <2> DEFINE a == s.ids[1]
               b == s.ids[2]
               c == s.ids[3]
    <2>1. IsReparenting(s.call) => s.ids = <<a, b, c>>
      BY Zenon DEF WorkState
    <2>2. ~IsReparenting(s.call) => s.ids = <<a>>
      BY Zenon DEF WorkState
    <2> HIDE DEF a, b, c
    <2>3. /\ IsReparenting(s.call) => Range(s.ids) = {a, b, c} /\ Len(s.ids) = 3
          /\ ~IsReparenting(s.call) => Range(s.ids) = {a}
      BY <1>1, <1>2, <2>1, <2>2
    <2> QED
      BY <2>3, Zenon DEF a, b, c

\* What a task overwrites is what it has locked, or new.
LEMMA WrittenIds ==
    ASSUME NEW t \in Callers, WorkState(task[t]), NEW new
    PROVE  /\ DOMAIN Written(t, new) \subseteq Range(task[t].ids) \cup {new}
           /\ task[t].call.op # "create" => DOMAIN Written(t, new) \subseteq Range(task[t].ids)
  <1> DEFINE s == task[t]
             moved == IF IsReparenting(s.call) THEN {s.ids[i] : i \in 3 .. Len(s.ids)} ELSE {}
             created == IF s.call.op = "create" THEN {new} ELSE {}
  <1>1. moved \subseteq Range(s.ids)
    <2>1. CASE IsReparenting(s.call)
      <3>1. Len(s.ids) = 3
        BY <2>1, WorkIds, Zenon
      <3>2. \A i \in 3 .. Len(s.ids) : i = 3
        BY <3>1
      <3> QED
        BY <2>1, <3>2, WorkIds, ZenonT(30)
    <2> QED
      BY <2>1, Zenon
  <1>2. DOMAIN Changes(t, new) \subseteq {SrcParent(t), DstParent(t)}
    BY Zenon DEF Changes
  <1>3. SrcParent(t) \in Range(s.ids) /\ DstParent(t) \in Range(s.ids)
    BY WorkIds, Zenon DEF SrcParent, DstParent
  <1>4. DOMAIN Written(t, new) = DOMAIN Changes(t, new) \cup created \cup moved
    BY Zenon DEF Written
  <1> HIDE DEF s, moved
  <1> QED
    BY <1>1, <1>2, <1>3, <1>4, Zenon DEF s

\* A task returns, and the locks of the others are left alone.
LEMMA ReturnKeeps ==
    ASSUME TasksAreSound, NEW t \in Callers, Return(t),
           \A s \in Callers : s # t /\ Working(s) =>
              \A id \in Range(task[s].ids) : id \in DOMAIN manifests' /\ manifests'[id] = manifests[id]
    PROVE  TasksAreSound'
  <1>1. /\ task' = [task EXCEPT ![t] = Idle] /\ locks' = Unlocked(t) /\ Idle.pc = "idle"
    BY Zenon DEF Return, Idle
  <1>2. task = [s \in Callers |-> task[s]]
    BY Zenon DEF TasksAreSound
  <1>3. /\ task' = [s \in Callers |-> task'[s]] /\ task'[t] = Idle
        /\ \A s \in Callers : s # t => task'[s] = task[s]
    BY <1>1, <1>2, Zenon
  <1>4. ASSUME NEW s \in Callers, s # t, Working(s) PROVE HasLocks(s)'
    <2>1. HasLocks(s)
      BY <1>4, Zenon DEF TasksAreSound
    <2>2. ASSUME NEW id \in Range(task[s].ids)
          PROVE  /\ id \in DOMAIN manifests' /\ task[s].read[id] = manifests'[id]
                 /\ id \in DOMAIN locks' /\ locks'[id] = s
      <3>1. /\ id \in DOMAIN manifests /\ task[s].read[id] = manifests[id]
            /\ id \in DOMAIN locks /\ locks[id] = s
        BY <2>1, <2>2, Zenon DEF HasLocks
      <3>2. id \in DOMAIN locks' /\ locks'[id] = s
        BY <1>1, <1>4, <3>1, ZenonT(30) DEF Unlocked
      <3> QED
        BY <1>4, <2>2, <3>1, <3>2, Zenon
    <2> QED
      BY <1>3, <1>4, <2>2, Zenon DEF HasLocks
  <1>5. \A s \in Callers : Working(s)' => s # t /\ Working(s)
    BY <1>1, <1>3, Zenon DEF Working
  <1>6. \A s \in Callers : Working(s)' => WorkState(task'[s]) /\ HasLocks(s)'
    BY <1>3, <1>4, <1>5, Zenon DEF TasksAreSound
  <1>7. \A s \in Callers : task'[s].pc \in {"resolve", "wait", "check", "commit"} => task'[s].call \in Calls
    BY <1>1, <1>3, Zenon DEF TasksAreSound
  <1> QED
    BY <1>3, <1>6, <1>7, Zenon DEF TasksAreSound

(***************************************************************************)
(* The steps that do not write.                                            *)
(***************************************************************************)

\* A task goes on without a lock.
LEMMA TaskKeeps ==
    ASSUME TreeInv, NEW t \in Callers, NEW next, task' = [task EXCEPT ![t] = next],
           next.pc \in {"resolve", "wait"}, next.call \in Calls, UNCHANGED <<manifests, locks>>
    PROVE  TreeInv'
  <1>1. task = [s \in Callers |-> task[s]]
    BY Zenon DEF TreeInv, TasksAreSound
  <1>2. /\ task' = [s \in Callers |-> task'[s]] /\ task'[t] = next
        /\ \A s \in Callers : s # t => task'[s] = task[s]
    BY <1>1, Zenon
  <1>3. \A s \in Callers : Working(s)' => s # t /\ Working(s) /\ task'[s] = task[s]
    BY <1>2, Zenon DEF Working
  <1>4. \A s \in Callers : Working(s)' => WorkState(task'[s]) /\ HasLocks(s)'
    BY <1>3 DEF TreeInv, TasksAreSound, HasLocks
  <1>5. \A s \in Callers : task'[s].pc \in {"resolve", "wait", "check", "commit"} => task'[s].call \in Calls
    BY <1>2, Zenon DEF TreeInv, TasksAreSound
  <1>6. TasksAreSound'
    BY <1>2, <1>4, <1>5, Zenon DEF TasksAreSound
  <1> QED
    BY <1>6, Zenon DEF TreeInv

LEMMA ReturnKeepsTree ==
    ASSUME TreeInv, NEW t \in Callers, Return(t), UNCHANGED manifests
    PROVE  TreeInv'
  <1>1. \A s \in Callers : s # t /\ Working(s) =>
           \A id \in Range(task[s].ids) : id \in DOMAIN manifests' /\ manifests'[id] = manifests[id]
    BY Zenon DEF TreeInv, TasksAreSound, HasLocks
  <1>2. TasksAreSound'
    BY <1>1, ReturnKeeps, Zenon DEF TreeInv
  <1> QED
    BY <1>2, Zenon DEF TreeInv

\* What a call locks.
LEMMA LockedIds ==
    ASSUME ExchangesStayInFolder, NEW c \in Calls, NEW ids, ids = ToLock(c)
    PROVE  /\ ~IsReparenting(c) => ids = <<ids[1]>>
           /\ IsReparenting(c) => /\ ids = <<ids[1], ids[2], ids[3]>>
                                  /\ ids[3] = ChildOf(ids[2], c.name)
           /\ Range(Kept(c, ids)) = Range(ids)
  <1>1. CASE ~IsReparenting(c)
    <2>1. PICK a : ids = <<a>>
      BY <1>1, Zenon DEF ToLock
    <2>2. ids[1] = a
      BY <2>1
    <2> QED
      BY <1>1, <2>1, <2>2, Zenon DEF Kept
  <1>2. CASE IsReparenting(c)
    <2>1. c.op = "move" /\ c.mode # "Exchange"
      BY <1>2, Zenon DEF ExchangesStayInFolder, IsReparenting
    <2> DEFINE a == ResolvePath(c.dst_parent)
               b == ResolvePath(c.parent)
    <2>2. ids = <<a, b, ChildOf(b, c.name)>> \o <<>>
      BY <1>2, <2>1, Zenon DEF ToLock
    <2> HIDE DEF a, b
    <2>3. ids = <<a, b, ChildOf(b, c.name)>>
      BY <2>2
    <2>4. ids[1] = a /\ ids[2] = b /\ ids[3] = ChildOf(b, c.name)
      BY <2>3
    <2>5. Range(SubSeq(ids, 1, 3)) = Range(ids)
      <3> DEFINE kept == SubSeq(ids, 1, 3)
      <3>1. Len(kept) = 3 /\ Len(ids) = 3 /\ \A i \in 1 .. 3 : kept[i] = ids[i]
        BY <2>3
      <3>2. DOMAIN kept = 1 .. 3 /\ DOMAIN ids = 1 .. 3
        BY <2>3
      <3> HIDE DEF kept
      <3> QED
        BY <3>1, <3>2, Zenon DEF Range, kept
    <2> QED
      BY <1>2, <2>3, <2>4, <2>5, Zenon DEF Kept
  <1> QED
    BY <1>1, <1>2, Zenon

LEMMA ResolveAndLockKeeps ==
    ASSUME TreeHypotheses, TreeInv, NEW t \in Callers, ResolveAndLock(t)
    PROVE  TreeInv'
  <1> DEFINE c == task[t].call
             ids == ToLock(c)
             i == FirstObstacle(c, ids)
             read == [id \in Range(ids) |-> manifests[id]]
             next == [pc |-> "check", call |-> c, ids |-> ids, read |-> read]
             wait == [pc |-> "wait", call |-> c, for |-> ids[i]]
             free == \A j \in 1 .. Len(ids) : ~IsWrong(c, ids, j) /\ ~IsTaken(ids, j)
  <1>1. /\ c \in Calls /\ UNCHANGED manifests
        /\ \/ /\ free
              /\ locks' = [id \in DOMAIN locks \cup Range(Kept(c, ids)) |->
                             IF id \in DOMAIN locks THEN locks[id] ELSE t]
              /\ task' = [task EXCEPT ![t] = next]
           \/ task' = [task EXCEPT ![t] = wait] /\ UNCHANGED locks
           \/ Return(t)
    BY Zenon DEF ResolveAndLock, TreeInv, TasksAreSound
  <1>2. CASE task' = [task EXCEPT ![t] = wait] /\ UNCHANGED locks
    <2>1. wait.pc = "wait" /\ wait.call = c
      BY Zenon
    <2> HIDE DEF wait
    <2> QED
      BY <1>1, <1>2, <2>1, TaskKeeps, ZenonT(30)
  <1>3. CASE Return(t)
    BY <1>1, <1>3, ReturnKeepsTree, Zenon
  <1>4. CASE /\ free /\ task' = [task EXCEPT ![t] = next]
             /\ locks' = [id \in DOMAIN locks \cup Range(Kept(c, ids)) |->
                            IF id \in DOMAIN locks THEN locks[id] ELSE t]
    <2>1. /\ ~IsReparenting(c) => ids = <<ids[1]>>
          /\ IsReparenting(c) => ids = <<ids[1], ids[2], ids[3]>> /\ ids[3] = ChildOf(ids[2], c.name)
          /\ Range(Kept(c, ids)) = Range(ids)
      BY <1>1, LockedIds, Zenon DEF TreeHypotheses
    <2>2. /\ next.pc = "check" /\ next.call = c /\ next.ids = ids /\ next.read = read
          /\ next = [pc |-> next.pc, call |-> next.call, ids |-> next.ids, read |-> next.read]
      BY Zenon
    <2>3. read = [id \in Range(ids) |-> read[id]] /\ \A id \in Range(ids) : read[id] = manifests[id]
      BY Zenon
    <2> DEFINE a == ids[1]
               b == ids[2]
               k == ids[3]
    <2>4. IsReparenting(c) => /\ Len(ids) = 3 /\ Range(ids) = {a, b, k}
                              /\ {a, b, k} \subseteq DOMAIN manifests
                              /\ a # b /\ a # k /\ b # k
      <3> SUFFICES ASSUME IsReparenting(c)
                   PROVE  /\ Len(ids) = 3 /\ Range(ids) = {a, b, k}
                          /\ {a, b, k} \subseteq DOMAIN manifests
                          /\ a # b /\ a # k /\ b # k
        BY Zenon
      <3>1. \A x, y, z : Range(<<x, y, z>>) = {x, y, z} /\ Len(<<x, y, z>>) = 3
        BY DEF Range
      <3>2. ids = <<a, b, k>>
        BY <2>1, Zenon
      <3>3. \A j \in 1 .. Len(ids) : ids[j] \in DOMAIN manifests /\ \A m \in 1 .. j - 1 : ids[m] # ids[j]
        BY <1>4, Zenon DEF IsWrong, IsTaken
      <3>4. a = ids[1] /\ b = ids[2] /\ k = ids[3]
        BY Zenon
      <3> HIDE DEF a, b, k, ids
      <3>5. Range(ids) = {a, b, k} /\ Len(ids) = 3
        BY <3>1, <3>2, Zenon
      <3>6. 1 \in 1 .. Len(ids) /\ 2 \in 1 .. Len(ids) /\ 3 \in 1 .. Len(ids)
            /\ 1 \in 1 .. 2 - 1 /\ 1 \in 1 .. 3 - 1 /\ 2 \in 1 .. 3 - 1
        BY <3>5
      <3> QED
        BY <3>3, <3>4, <3>5, <3>6, Zenon
    <2>5. ~IsReparenting(c) => Len(ids) = 1 /\ Range(ids) = {a} /\ a \in DOMAIN manifests
      <3> SUFFICES ASSUME ~IsReparenting(c)
                   PROVE  Len(ids) = 1 /\ Range(ids) = {a} /\ a \in DOMAIN manifests
        BY Zenon
      <3>1. \A x : Range(<<x>>) = {x} /\ Len(<<x>>) = 1
        BY DEF Range
      <3>2. ids = <<a>> /\ a = ids[1]
        BY <2>1, Zenon
      <3>3. \A j \in 1 .. Len(ids) : ids[j] \in DOMAIN manifests
        BY <1>4, Zenon DEF IsWrong
      <3> HIDE DEF a, ids
      <3> QED
        BY <3>1, <3>2, <3>3
    <2>6. \A id \in Range(ids) : id \in DOMAIN manifests /\ id \notin DOMAIN locks
      <3>1. \A j \in 1 .. Len(ids) : ids[j] \in DOMAIN manifests /\ ids[j] \notin DOMAIN locks
        BY <1>4, Zenon DEF IsWrong, IsTaken
      <3>2. DOMAIN ids = 1 .. Len(ids)
        <4>1. CASE IsReparenting(c)
          <5>1. ids = <<a, b, k>>
            BY <2>1, <4>1, Zenon
          <5> HIDE DEF a, b, k, ids
          <5> QED
            BY <5>1
        <4>2. CASE ~IsReparenting(c)
          <5>1. ids = <<a>>
            BY <2>1, <4>2, Zenon
          <5> HIDE DEF a, ids
          <5> QED
            BY <5>1
        <4> QED
          BY <4>1, <4>2, Zenon
      <3> HIDE DEF ids
      <3> QED
        BY <3>1, <3>2, Zenon DEF Range
    <2>7. IsReparenting(c) => c.name \in DOMAIN read[b].children /\ k = read[b].children[c.name]
      <3> SUFFICES ASSUME IsReparenting(c)
                   PROVE  c.name \in DOMAIN read[b].children /\ k = read[b].children[c.name]
        BY Zenon
      <3>1. k = ChildOf(b, c.name) /\ k \in DOMAIN manifests /\ b \in Range(ids)
        BY <2>1, <2>4, Zenon
      <3>2. k # NoEntry
        BY <3>1, Zenon DEF TreeInv, TreeHypotheses, TreeAssumption
      <3>3. read[b] = manifests[b]
        BY <2>3, <3>1, Zenon
      <3> HIDE DEF a, b, k, c, ids, read
      <3> QED
        BY <3>1, <3>2, <3>3, Zenon DEF ChildOf, ChildIn
    <2>8. WorkState(next)
      <3> HIDE DEF next, ids, read, c
      <3> QED
        BY <2>1, <2>2, <2>3, <2>4, <2>7, Zenon DEF WorkState, a, b, k
    <2>9. task = [s \in Callers |-> task[s]]
      BY Zenon DEF TreeInv, TasksAreSound
    <2> HIDE DEF next, read, ids, c, free
    <2>10. /\ task' = [s \in Callers |-> task'[s]] /\ task'[t] = next
           /\ \A s \in Callers : s # t => task'[s] = task[s]
      BY <1>4, <2>9, Zenon
    <2>11. /\ \A id \in DOMAIN locks : id \in DOMAIN locks' /\ locks'[id] = locks[id]
           /\ \A id \in Range(ids) : id \in DOMAIN locks' /\ locks'[id] = t
      BY <1>4, <2>1, <2>6, Zenon
    <2>12. HasLocks(t)'
      BY <1>1, <2>2, <2>3, <2>6, <2>10, <2>11, ZenonT(30) DEF HasLocks
    <2>13. ASSUME NEW s \in Callers, s # t, Working(s) PROVE HasLocks(s)'
      <3>1. HasLocks(s)
        BY <2>13, Zenon DEF TreeInv, TasksAreSound
      <3> QED
        BY <1>1, <2>10, <2>11, <2>13, <3>1, ZenonT(30) DEF HasLocks
    <2>14. \A s \in Callers : Working(s)' => WorkState(task'[s]) /\ HasLocks(s)'
      BY <2>8, <2>10, <2>12, <2>13, Zenon DEF Working, TreeInv, TasksAreSound
    <2>15. \A s \in Callers : task'[s].pc \in {"resolve", "wait", "check", "commit"} => task'[s].call \in Calls
      BY <1>1, <2>2, <2>10, Zenon DEF TreeInv, TasksAreSound
    <2>16. TasksAreSound'
      BY <2>10, <2>14, <2>15, Zenon DEF TasksAreSound
    <2> QED
      BY <1>1, <2>16, Zenon DEF TreeInv
  <1> QED
    BY <1>1, <1>2, <1>3, <1>4, Zenon

LEMMA CheckKeeps ==
    ASSUME TreeHypotheses, TreeInv, NEW t \in Callers, Check(t)
    PROVE  TreeInv'
  <1>1. CASE Return(t)
    BY <1>1, ReturnKeepsTree, Zenon DEF Check
  <1>2. CASE IsAllowed(t) /\ task' = [task EXCEPT ![t].pc = "commit"] /\ UNCHANGED locks
    <2> DEFINE s == task[t]
               next == [pc |-> "commit", call |-> s.call, ids |-> s.ids, read |-> s.read]
    <2>1. /\ task = [x \in Callers |-> task[x]] /\ WorkState(s) /\ HasLocks(t) /\ s.call \in Calls
          /\ Working(t) /\ UNCHANGED manifests
      BY Zenon DEF Check, TreeInv, TasksAreSound, Working
    <2>2. s = [pc |-> s.pc, call |-> s.call, ids |-> s.ids, read |-> s.read]
      BY <2>1, Zenon DEF WorkState
    <2>3. [s EXCEPT !.pc = "commit"] = next
      BY <2>2
    <2>4. task' = [task EXCEPT ![t] = next]
      BY <1>2, <2>1, <2>3, ZenonT(30)
    <2>5. next.pc = "commit" /\ next.call = s.call /\ next.ids = s.ids /\ next.read = s.read
          /\ next = [pc |-> next.pc, call |-> next.call, ids |-> next.ids, read |-> next.read]
      BY Zenon
    <2>6. s.call.op \in {"move", "rename_by_id"} /\ ~IsReparenting(s.call) =>
             s.call.name \in DOMAIN s.read[s.ids[1]].children
      BY <1>2, Zenon DEF IsAllowed, SrcParent, ExistingChild
    <2>7. s = task[t]
      BY Zenon
    <2> HIDE DEF s, next
    <2>8. WorkState(next)
      BY <2>1, <2>5, <2>6, Zenon DEF WorkState
    <2>9. /\ task' = [x \in Callers |-> task'[x]] /\ task'[t] = next
          /\ \A x \in Callers : x # t => task'[x] = task[x]
      BY <2>1, <2>4, Zenon
    <2>10. \A x \in Callers : Working(x)' => HasLocks(x)'
      BY <1>2, <2>1, <2>5, <2>7, <2>9 DEF HasLocks, Working, TreeInv, TasksAreSound
    <2>11. \A x \in Callers : Working(x)' => WorkState(task'[x])
      BY <2>8, <2>9, Zenon DEF Working, TreeInv, TasksAreSound
    <2>12. \A x \in Callers : task'[x].pc \in {"resolve", "wait", "check", "commit"} => task'[x].call \in Calls
      BY <2>1, <2>5, <2>9, Zenon DEF TreeInv, TasksAreSound
    <2>13. TasksAreSound'
      BY <2>9, <2>10, <2>11, <2>12, Zenon DEF TasksAreSound
    <2> QED
      BY <2>1, <2>13, Zenon DEF TreeInv
  <1> QED
    BY <1>1, <1>2, Zenon DEF Check

LEMMA WrittenByCreate ==
    ASSUME NEW t \in Callers, NEW new, WorkState(task[t]), task[t].call.op = "create",
           new # task[t].ids[1]
    PROVE  LET s == task[t]
               p == s.ids[1]
               w == Written(t, new)
           IN /\ DOMAIN w = {p, new}
              /\ w[new] = [kind |-> s.call.kind, parent |-> p, children |-> <<>>]
              /\ w[p] = Evolve(s.read[p], Only(s.call.name, new))
  <1> DEFINE s == task[t]
             p == s.ids[1]
             data == Only(s.call.name, new)
  <1>1. ~IsReparenting(s.call) /\ SrcParent(t) = p
    BY Zenon DEF IsReparenting, SrcParent
  <1>2. Changes(t, new) = [x \in {p} |-> data]
    BY <1>1, Zenon DEF Changes, Only
  <1> HIDE DEF data
  <1>3. Written(t, new) = [x \in {p} \cup {new} |->
                             IF x = new THEN [kind |-> s.call.kind, parent |-> p, children |-> <<>>]
                             ELSE Evolve(s.read[x], [y \in {p} |-> data][x])]
    BY <1>1, <1>2, Zenon DEF Written
  <1> HIDE DEF s, p
  <1> QED
    BY <1>3, Zenon DEF data, s, p

\* The other calls that update one folder.
InFolder(c) == c.op \in {"remove", "move", "rename_by_id"} /\ ~IsReparenting(c)

Relisting(t) ==
    LET c == task[t].call
        p == task[t].ids[1]
    IN IF c.op = "remove" THEN [n \in {c.name} |-> NoEntry]
       ELSE [n \in {c.name, c.dst_name} |->
               IF n = c.dst_name THEN task[t].read[p].children[c.name]
               ELSE IF c.mode = "Exchange" THEN Destination(t) ELSE NoEntry]

LEMMA ChangesInFolder ==
    ASSUME NEW t \in Callers, NEW new, InFolder(task[t].call)
    PROVE  /\ DOMAIN Changes(t, new) = {task[t].ids[1]}
           /\ Changes(t, new)[task[t].ids[1]] = Relisting(t)
  <1> DEFINE s == task[t]
             p == s.ids[1]
  <1>1. SrcParent(t) = p /\ DstParent(t) = p
    BY Zenon DEF SrcParent, DstParent, InFolder
  <1>2. CASE s.call.op = "remove"
    BY <1>1, <1>2, Zenon DEF Changes, Relisting
  <1>3. CASE s.call.op \in {"move", "rename_by_id"}
    <2> DEFINE c == s.call
               child == s.read[p].children[c.name]
               back == IF c.mode = "Exchange" THEN Destination(t) ELSE NoEntry
               data == [n \in {c.name, c.dst_name} |-> IF n = c.dst_name THEN child ELSE back]
    <2>1. c.op # "create" /\ c.op # "remove"
      BY <1>3, Zenon
    <2>2. Relisting(t) = data
      BY <2>1, Zenon DEF Relisting
    <2>3. Changes(t, new) = [x \in {p} |-> data]
      BY <1>1, <2>1, Zenon DEF Changes
    <2> QED
      BY <2>2, <2>3, Zenon
  <1> QED
    BY <1>2, <1>3, Zenon DEF InFolder

LEMMA WrittenInFolder ==
    ASSUME NEW t \in Callers, NEW new, InFolder(task[t].call)
    PROVE  LET s == task[t]
               p == s.ids[1]
               w == Written(t, new)
           IN DOMAIN w = {p} /\ w[p] = Evolve(s.read[p], Relisting(t))
  <1> DEFINE s == task[t]
             p == s.ids[1]
             data == Relisting(t)
             changes == Changes(t, new)
  <1>1. DOMAIN changes = {p} /\ changes[p] = data
    BY ChangesInFolder, Zenon
  <1> HIDE DEF data
  <1>2. Written(t, new) = [x \in {p} |-> Evolve(s.read[x], changes[x])]
    BY <1>1, Zenon DEF Written, InFolder
  <1> HIDE DEF s, p, changes
  <1> QED
    BY <1>1, <1>2, Zenon DEF data, s, p

LEMMA RelistingIsSound ==
    ASSUME TreeHypotheses, TreeInv, NEW t \in Callers, task[t].pc = "commit",
           InFolder(task[t].call)
    PROVE  LET s == task[t]
               p == s.ids[1]
           IN /\ p \in DOMAIN manifests /\ s.read[p] = manifests[p]
              /\ Relists(Relisting(t), manifests[p].children)
  <1> DEFINE s == task[t]
             c == s.call
             p == s.ids[1]
             children == manifests[p].children
             data == Relisting(t)
  <1>1. WorkState(s) /\ HasLocks(t)
    BY Zenon DEF TreeInv, TasksAreSound, Working
  <1>2. p \in Range(s.ids)
    BY <1>1, WorkIds, ZenonT(30)
  <1>3. p \in DOMAIN manifests /\ s.read[p] = manifests[p]
    BY <1>1, <1>2, ZenonT(30) DEF HasLocks
  <1>4. \A n, x \in DOMAIN children : children[n] = children[x] => n = x
    BY <1>3, Zenon DEF TreeInv, SoundTree, Listed
  <1>5. c.op = "remove" => DOMAIN data = {c.name} /\ data[c.name] = NoEntry
    BY Zenon DEF Relisting
  <1>6. c.op # "remove" =>
           /\ DOMAIN data = {c.name, c.dst_name} /\ data[c.dst_name] = children[c.name]
           /\ c.name # c.dst_name => data[c.name] \in {Destination(t), NoEntry}
    BY <1>3, ZenonT(30) DEF Relisting
  <1>7. c.op # "remove" => c.name \in DOMAIN children
    BY <1>1, <1>3, ZenonT(30) DEF WorkState, InFolder
  <1>8. Destination(t) # NoEntry => c.dst_name \in DOMAIN children /\ Destination(t) = children[c.dst_name]
    BY <1>3, Zenon DEF Destination, ExistingChild, DstParent
  <1> HIDE DEF data, children, p, c
  <1>9. CASE c.op = "remove"
    BY <1>3, <1>5, <1>9, ZenonT(30) DEF Relists, data, children, p, c
  <1>10. CASE c.op # "remove"
    <2>1. \A n \in DOMAIN data : data[n] # NoEntry =>
             \E x \in DOMAIN data : x \in DOMAIN children /\ data[n] = children[x]
      BY <1>6, <1>7, <1>8, <1>10, ZenonT(30)
    <2>2. \A n, x \in DOMAIN data : data[n] # NoEntry /\ data[n] = data[x] => n = x
      BY <1>4, <1>6, <1>7, <1>8, <1>10
    <2> QED
      BY <1>3, <2>1, <2>2, ZenonT(30) DEF Relists, data, children, p, c
  <1> QED
    BY <1>9, <1>10, ZenonT(30)

LEMMA ChangesInFolders ==
    ASSUME NEW t \in Callers, NEW new, IsReparenting(task[t].call), task[t].call.mode # "Exchange",
           task[t].ids[1] # task[t].ids[2]
    PROVE  LET s == task[t]
               changes == Changes(t, new)
           IN /\ DOMAIN changes = {s.ids[2], s.ids[1]}
              /\ changes[s.ids[2]] = Only(s.call.name, NoEntry)
              /\ changes[s.ids[1]] = Only(s.call.dst_name, s.read[s.ids[2]].children[s.call.name])
  <1>1. SrcParent(t) = task[t].ids[2] /\ DstParent(t) = task[t].ids[1] /\ task[t].call.op = "move"
    BY Zenon DEF SrcParent, DstParent, IsReparenting
  <1>2. task[t].call.op # "create" /\ task[t].call.op # "remove"
    BY <1>1, Zenon
  <1> QED
    BY <1>1, <1>2, Zenon DEF Changes, Only

LEMMA WrittenInFolders ==
    ASSUME NEW t \in Callers, NEW new, WorkState(task[t]), IsReparenting(task[t].call),
           task[t].call.mode # "Exchange"
    PROVE  LET s == task[t]
               dst == s.ids[1]
               src == s.ids[2]
               k == s.ids[3]
               w == Written(t, new)
           IN /\ DOMAIN w = {src, dst, k}
              /\ w[src] = Evolve(s.read[src], Only(s.call.name, NoEntry))
              /\ w[dst] = Evolve(s.read[dst], Only(s.call.dst_name, k))
              /\ w[k] = [s.read[k] EXCEPT !.parent = dst]
  <1> DEFINE s == task[t]
             dst == s.ids[1]
             src == s.ids[2]
             k == s.ids[3]
             off == Only(s.call.name, NoEntry)
             on == Only(s.call.dst_name, k)
             changes == Changes(t, new)
  <1>1. /\ src # dst /\ k # src /\ k # dst /\ s.call.op = "move"
        /\ k = s.read[src].children[s.call.name] /\ DstParent(t) = dst
    BY Zenon DEF WorkState, IsReparenting, DstParent
  <1>2. DOMAIN changes = {src, dst} /\ changes[src] = off /\ changes[dst] = on
    BY <1>1, ChangesInFolders, Zenon
  <1>3. {s.ids[i] : i \in 3 .. Len(s.ids)} = {k}
    <2>1. Len(s.ids) = 3
      BY WorkIds, Zenon
    <2>2. \A i : i \in 3 .. Len(s.ids) <=> i = 3
      BY <2>1
    <2> QED
      BY <2>2
  <1> HIDE DEF changes
  <1>4. Written(t, new) = [x \in DOMAIN changes \cup {k} |->
                             IF x = k THEN [s.read[x] EXCEPT !.parent = dst]
                             ELSE Evolve(s.read[x], changes[x])]
    BY <1>1, <1>3, Zenon DEF Written, changes
  <1> HIDE DEF s, on, off, src, dst, k, changes
  <1>5. LET w == Written(t, new)
        IN /\ DOMAIN w = {src, dst, k} /\ w[src] = Evolve(s.read[src], off)
           /\ w[dst] = Evolve(s.read[dst], on) /\ w[k] = [s.read[k] EXCEPT !.parent = dst]
    BY <1>1, <1>2, <1>4, Zenon
  <1> QED
    BY <1>5, Zenon DEF on, off, src, dst, k, s

\* The manifests, once the call is done.
After(t, new) ==
    LET written == Written(t, new)
    IN [x \in DOMAIN manifests \cup DOMAIN written |->
          IF x \in DOMAIN written THEN written[x] ELSE manifests[x]]

LEMMA AfterFacts ==
    ASSUME NEW t, NEW new
    PROVE  LET w == Written(t, new)
               after == After(t, new)
           IN /\ after = [x \in DOMAIN after |-> after[x]]
              /\ DOMAIN after = DOMAIN manifests \cup DOMAIN w
              /\ \A x \in DOMAIN w : after[x] = w[x]
              /\ \A x \in DOMAIN manifests : x \notin DOMAIN w => after[x] = manifests[x]
  <1> DEFINE w == Written(t, new)
  <1> HIDE DEF w
  <1>1. After(t, new) = [x \in DOMAIN manifests \cup DOMAIN w |->
                           IF x \in DOMAIN w THEN w[x] ELSE manifests[x]]
    BY Zenon DEF After, w
  <1> QED
    BY <1>1, Zenon DEF w

\* Whatever a call writes, every folder agrees with the children it lists.
LEMMA TreeStaysSound ==
    ASSUME TreeHypotheses, TreeInv, NEW t \in Callers, task[t].pc = "commit", NEW new,
           task[t].call.op = "create" => new \notin DOMAIN manifests /\ new # NoEntry
    PROVE  SoundTree(After(t, new))
  <1> DEFINE s == task[t]
             w == Written(t, new)
             after == After(t, new)
  <1>1. WorkState(s) /\ HasLocks(t) /\ s.call \in Calls /\ SoundTree(manifests)
    BY Zenon DEF TreeInv, TasksAreSound, Working
  <1>2. \A id \in Range(s.ids) : id \in DOMAIN manifests /\ s.read[id] = manifests[id]
    BY <1>1, Zenon DEF HasLocks
  <1>3. /\ after = [x \in DOMAIN after |-> after[x]]
        /\ DOMAIN after = DOMAIN manifests \cup DOMAIN w
        /\ \A x \in DOMAIN w : after[x] = w[x]
        /\ \A x \in DOMAIN manifests : x \notin DOMAIN w => after[x] = manifests[x]
    BY AfterFacts, ZenonT(30)
  <1> SUFFICES \A id \in DOMAIN after : IsManifest(after[id]) /\ Listed(after, id)
    BY <1>3, Zenon DEF SoundTree
  <1>4. CASE s.call.op = "create"
    <2> DEFINE p == s.ids[1]
    <2>1. ~IsReparenting(s.call)
      BY <1>4, Zenon DEF IsReparenting
    <2>2. p \in DOMAIN manifests /\ s.read[p] = manifests[p]
      BY <1>1, <1>2, <2>1, WorkIds, Zenon
    <2>3. /\ DOMAIN w = {p, new}
          /\ w[new] = [kind |-> s.call.kind, parent |-> p, children |-> <<>>]
          /\ w[p] = Evolve(manifests[p], Only(s.call.name, new))
      BY <1>1, <1>4, <2>2, WrittenByCreate, ZenonT(30)
    <2>4. new \notin DOMAIN manifests /\ new # NoEntry
      BY <1>4, Zenon
    <2> DEFINE name == s.call.name
               entry == s.call.kind
    <2> HIDE DEF w, after, p, s, name, entry
    <2>5. /\ DOMAIN after = DOMAIN manifests \cup {new}
          /\ after[new] = [kind |-> entry, parent |-> p, children |-> <<>>]
          /\ after[p] = Evolve(manifests[p], Only(name, new))
          /\ \A id \in DOMAIN manifests : id # p => after[id] = manifests[id]
      <3>1. DOMAIN after = DOMAIN manifests \cup {new}
        BY <1>3, <2>2, <2>3, Zenon
      <3>2. /\ after[new] = w[new] /\ after[p] = w[p]
            /\ \A id \in DOMAIN manifests : id # p => after[id] = manifests[id]
        BY <1>3, <2>2, <2>3, <2>4, ZenonT(30)
      <3> QED
        BY <2>3, <3>1, <3>2, Zenon DEF name, entry
    <2> QED
      BY <1>1, <2>2, <2>4, <2>5, Created, ZenonT(30)
  <1>5. CASE InFolder(s.call)
    <2> DEFINE p == s.ids[1]
               data == Relisting(t)
    <2>1. /\ p \in DOMAIN manifests /\ s.read[p] = manifests[p]
          /\ Relists(data, manifests[p].children)
      BY <1>5, RelistingIsSound, ZenonT(30)
    <2>2. DOMAIN w = {p} /\ w[p] = Evolve(s.read[p], data)
      BY <1>5, WrittenInFolder, Zenon
    <2> HIDE DEF w, after, p, s, data
    <2>3. /\ DOMAIN after = DOMAIN manifests /\ after[p] = Evolve(manifests[p], data)
          /\ \A id \in DOMAIN manifests : id # p => after[id] = manifests[id]
      BY <1>3, <2>1, <2>2, Zenon
    <2> QED
      BY <1>1, <2>1, <2>3, Relisted, ZenonT(30)
  <1>6. CASE IsReparenting(s.call)
    <2> DEFINE dst == s.ids[1]
               src == s.ids[2]
               k == s.ids[3]
               name == s.call.name
               dst_name == s.call.dst_name
    <2>1. s.call.mode # "Exchange"
      BY <1>1, <1>6, Zenon DEF TreeHypotheses, TreeAssumption, ExchangesStayInFolder
    <2>2. /\ src # dst /\ k # src /\ k # dst
          /\ name \in DOMAIN s.read[src].children /\ k = s.read[src].children[name]
      BY <1>1, <1>6, Zenon DEF WorkState
    <2>3. /\ {src, dst, k} \subseteq DOMAIN manifests
          /\ s.read[src] = manifests[src] /\ s.read[dst] = manifests[dst] /\ s.read[k] = manifests[k]
      BY <1>1, <1>2, <1>6, WorkIds, ZenonT(30)
    <2>4. /\ DOMAIN w = {src, dst, k}
          /\ w[src] = Evolve(s.read[src], Only(name, NoEntry))
          /\ w[dst] = Evolve(s.read[dst], Only(dst_name, k))
          /\ w[k] = [s.read[k] EXCEPT !.parent = dst]
      BY <1>1, <1>6, <2>1, WrittenInFolders, Zenon
    <2>5. k # NoEntry
      BY <2>3, Zenon DEF TreeInv, TreeHypotheses, TreeAssumption
    <2> HIDE DEF w, after, src, dst, k, s, name, dst_name
    <2>6. /\ DOMAIN after = DOMAIN manifests
          /\ after[src] = Evolve(manifests[src], Only(name, NoEntry))
          /\ after[dst] = Evolve(manifests[dst], Only(dst_name, k))
          /\ after[k] = MovedTo(manifests[k], dst)
          /\ \A id \in DOMAIN manifests : id \notin {src, dst, k} => after[id] = manifests[id]
      BY <1>3, <2>3, <2>4 DEF MovedTo
    <2>7. /\ src \in DOMAIN manifests /\ dst \in DOMAIN manifests /\ k \in DOMAIN manifests
          /\ name \in DOMAIN manifests[src].children /\ k = manifests[src].children[name]
      BY <2>2, <2>3, Zenon
    <2> QED
      BY <1>1, <2>2, <2>5, <2>6, <2>7, Reparented
  <1> QED
    BY <1>1, <1>4, <1>5, <1>6, ZenonT(30) DEF TreeHypotheses, TreeAssumption, ExchangesStayInFolder, InFolder

LEMMA CommitKeeps ==
    ASSUME TreeHypotheses, TreeInv, NEW t \in Callers, Commit(t)
    PROVE  TreeInv'
  <1> DEFINE s == task[t]
             new == IF s.call.op = "create" THEN NewId ELSE NoEntry
             w == Written(t, new)
             after == After(t, new)
  <1>1. s.pc = "commit" /\ manifests' = after /\ Return(t)
    BY Zenon DEF Commit, After
  <1>2. s.call.op = "create" => new \in NewIds /\ new \notin DOMAIN manifests /\ new # NoEntry
    <2>1. s.call.op = "create" => \E id \in NewIds : id \notin DOMAIN manifests
      BY Zenon DEF Commit
    <2> QED
      BY <2>1, Zenon DEF NewId, TreeHypotheses, TreeAssumption
  <1>3. WorkState(s) /\ HasLocks(t)
    BY <1>1, Zenon DEF TreeInv, TasksAreSound, Working
  <1>4. /\ DOMAIN w \subseteq Range(s.ids) \cup {new}
        /\ s.call.op # "create" => DOMAIN w \subseteq Range(s.ids)
    BY <1>3, WrittenIds, Zenon
  <1> HIDE DEF new
  <1>5. SoundTree(after)
    BY <1>1, <1>2, TreeStaysSound, Zenon
  <1>6. /\ DOMAIN after = DOMAIN manifests \cup DOMAIN w
        /\ \A x \in DOMAIN manifests : x \notin DOMAIN w => after[x] = manifests[x]
    BY AfterFacts, ZenonT(30)
  <1>7. \A id \in Range(s.ids) : id \in DOMAIN manifests /\ id \in DOMAIN locks /\ locks[id] = t
    BY <1>3, Zenon DEF HasLocks
  <1> HIDE DEF w, after
  <1>8. DOMAIN after \subseteq DOMAIN InitialTree \cup NewIds
    BY <1>2, <1>4, <1>6, <1>7, Zenon DEF TreeInv
  <1>9. ASSUME NEW x \in Callers, x # t, Working(x), NEW id \in Range(task[x].ids)
        PROVE  id \in DOMAIN manifests' /\ manifests'[id] = manifests[id]
    <2>1. id \in DOMAIN manifests /\ locks[id] = x
      BY <1>9, Zenon DEF TreeInv, TasksAreSound, HasLocks
    <2>2. id \notin DOMAIN w
      BY <1>2, <1>4, <1>7, <1>9, <2>1, ZenonT(30)
    <2> QED
      BY <1>1, <1>6, <2>1, <2>2, Zenon
  <1>10. TasksAreSound'
    BY <1>1, <1>9, ReturnKeeps, Zenon DEF TreeInv
  <1>11. SoundTree(manifests')
    BY <1>1, <1>5, Zenon
  <1> QED
    BY <1>1, <1>8, <1>10, <1>11, Zenon DEF TreeInv

LEMMA CallKeeps ==
    ASSUME TreeHypotheses, TreeInv, NEW t \in Callers, NEW c \in Calls, Call(t, c)
    PROVE  TreeInv'
  <1> DEFINE next == [pc |-> "resolve", call |-> c]
  <1>1. next.pc = "resolve" /\ next.call \in Calls
    BY Zenon
  <1>2. task' = [task EXCEPT ![t] = next] /\ UNCHANGED <<manifests, locks>>
    BY Zenon DEF Call
  <1> HIDE DEF next
  <1> QED
    BY <1>1, <1>2, TaskKeeps, ZenonT(30)

LEMMA WakeUpKeeps ==
    ASSUME TreeHypotheses, TreeInv, NEW t \in Callers, WakeUp(t)
    PROVE  TreeInv'
  <1> DEFINE next == [pc |-> "resolve", call |-> task[t].call]
  <1>1. next.pc = "resolve" /\ next.call \in Calls
    BY Zenon DEF WakeUp, TreeInv, TasksAreSound
  <1>2. task' = [task EXCEPT ![t] = next] /\ UNCHANGED <<manifests, locks>>
    BY Zenon DEF WakeUp
  <1> HIDE DEF next
  <1> QED
    BY <1>1, <1>2, TaskKeeps, ZenonT(30)

LEMMA TreeInvInit ==
    ASSUME TreeHypotheses, TreeInit
    PROVE  TreeInv
  <1>1. manifests = InitialTree /\ task = [t \in Callers |-> Idle] /\ Idle.pc = "idle"
    BY Zenon DEF TreeInit, Idle
  <1>2. TasksAreSound
    BY <1>1, Zenon DEF TasksAreSound, Working
  <1> QED
    BY <1>1, <1>2, Zenon DEF TreeInv, TreeHypotheses, TreeAssumption

LEMMA TreeInvIsInductive ==
    ASSUME TreeHypotheses, TreeInv, [TreeNext]_treeVars
    PROVE  TreeInv'
  <1>1. CASE UNCHANGED treeVars
    <2>1. UNCHANGED <<manifests, task, locks>>
      BY <1>1, Zenon DEF treeVars
    <2> QED
      BY <2>1, ZenonT(30) DEF TreeInv, TasksAreSound, Working, HasLocks
  <1>2. ASSUME NEW t \in Callers, NEW c \in Calls, Call(t, c) PROVE TreeInv'
    BY <1>2, CallKeeps, Zenon
  <1>3. ASSUME NEW t \in Callers, TreeStep(t) PROVE TreeInv'
    <2>1. CASE CommitFails(t)
      BY <1>3, <2>1, ReturnKeepsTree, Zenon DEF CommitFails
    <2> QED
      BY <1>3, <2>1, ResolveAndLockKeeps, WakeUpKeeps, CheckKeeps, CommitKeeps, ZenonT(30) DEF TreeStep
  <1> QED
    BY <1>1, <1>2, <1>3, ZenonT(30) DEF TreeNext

LEMMA TreeInvHolds ==
    ASSUME TreeHypotheses
    PROVE  TreeSpec => []TreeInv
  <1>1. TreeInit => TreeInv
    BY TreeInvInit, Zenon
  <1>2. TreeInv /\ [TreeNext]_treeVars => TreeInv'
    BY TreeInvIsInductive, Zenon
  <1> QED
    BY <1>1, <1>2, PTL DEF TreeSpec

\* No update of a manifest is lost, whatever the tree, the callers and their calls, but for the
\* exchanges of entries of two folders: what a call overwrites is what it has read when it took
\* its locks.
THEOREM SnapshotsStayCurrent ==
    ASSUME TreeHypotheses
    PROVE  TreeSpec => []SnapshotsAreCurrent
  <1>1. TreeInv => SnapshotsAreCurrent
    <2> SUFFICES ASSUME TreeInv, NEW t \in Callers, Working(t), NEW id \in DOMAIN task[t].read
                 PROVE  manifests[id] = task[t].read[id]
      BY Zenon DEF SnapshotsAreCurrent, Working
    <2>1. WorkState(task[t]) /\ HasLocks(t)
      BY Zenon DEF TreeInv, TasksAreSound
    <2>2. id \in Range(task[t].ids)
      BY <2>1, ZenonT(30) DEF WorkState
    <2> QED
      BY <2>1, <2>2, Zenon DEF HasLocks
  <1> QED
    BY <1>1, TreeInvHolds, PTL

\* The assertion of `evolve_children_and_mark_updated` never fails: no call, however it
\* interleaves with the others, gives a second name to an entry of a folder.
THEOREM NoEntryGetsASecondName ==
    ASSUME TreeHypotheses
    PROVE  TreeSpec => []NoEntryTwice
  <1>1. ASSUME TreeInv, NEW t \in Callers, task[t].pc = "commit",
               NEW x \in DOMAIN Changes(t, NoEntry)
        PROVE  ~EvolvePanics(task[t].read[x], Changes(t, NoEntry)[x])
    <2> DEFINE s == task[t]
               changes == Changes(t, NoEntry)
    <2>1. WorkState(s) /\ HasLocks(t) /\ s.call \in Calls /\ SoundTree(manifests)
      BY <1>1, Zenon DEF TreeInv, TasksAreSound, Working
    <2>2. CASE s.call.op = "create"
      <3>1. changes[x] = [n \in {s.call.name} |-> NoEntry]
        BY <1>1, <2>2, Zenon DEF Changes
      <3> QED
        BY <3>1, Zenon DEF EvolvePanics
    <2>3. CASE InFolder(s.call)
      <3> DEFINE p == s.ids[1]
                 data == Relisting(t)
                 children == manifests[p].children
      <3>1. p \in DOMAIN manifests /\ s.read[p] = manifests[p] /\ Relists(data, children)
        BY <1>1, <2>3, RelistingIsSound, ZenonT(30)
      <3>2. x = p /\ changes[x] = data
        BY <1>1, <2>3, ChangesInFolder, ZenonT(30)
      <3>3. \A n, y \in DOMAIN children : children[n] = children[y] => n = y
        BY <2>1, <3>1, Zenon DEF SoundTree, Listed
      <3> HIDE DEF data, changes, p
      <3>4. ASSUME NEW n \in DOMAIN data, NEW z \in DOMAIN children \ DOMAIN data,
                   data[n] # NoEntry, data[n] = children[z]
            PROVE  FALSE
        BY <3>1, <3>3, <3>4, Zenon DEF Relists
      <3>5. ~EvolvePanics(s.read[p], data)
        BY <3>1, <3>4, Zenon DEF EvolvePanics
      <3> QED
        BY <3>2, <3>5, Zenon DEF changes
    <2>4. CASE IsReparenting(s.call)
      <3> DEFINE dst == s.ids[1]
                 src == s.ids[2]
                 k == s.read[src].children[s.call.name]
      <3>1. s.call.mode # "Exchange" /\ src # dst /\ s.call.name \in DOMAIN s.read[src].children
        BY <2>1, <2>4, ZenonT(30) DEF WorkState, TreeHypotheses, TreeAssumption, ExchangesStayInFolder
      <3>2. /\ DOMAIN changes = {src, dst} /\ changes[src] = Only(s.call.name, NoEntry)
            /\ changes[dst] = Only(s.call.dst_name, k)
        BY <2>4, <3>1, ChangesInFolders, ZenonT(30)
      <3>3. /\ src \in DOMAIN manifests /\ s.read[src] = manifests[src]
            /\ dst \in DOMAIN manifests /\ s.read[dst] = manifests[dst]
        BY <2>1, <2>4, WorkIds, ZenonT(30) DEF HasLocks
      <3>4. \A n \in DOMAIN manifests[dst].children : manifests[dst].children[n] # k
        <4>1. manifests[k].parent = src
          <5>1. /\ s.call.name \in DOMAIN manifests[src].children
                /\ k = manifests[src].children[s.call.name]
            BY <3>1, <3>3, Zenon
          <5>2. \A n \in DOMAIN manifests[src].children :
                   manifests[manifests[src].children[n]].parent = src
            BY <2>1, <3>3, Zenon DEF SoundTree, Listed
          <5> HIDE DEF k, src
          <5> QED
            BY <5>1, <5>2, Zenon
        <4>2. \A n \in DOMAIN manifests[dst].children : manifests[manifests[dst].children[n]].parent = dst
          BY <2>1, <3>3, Zenon DEF SoundTree, Listed
        <4> HIDE DEF k, src, dst
        <4> QED
          BY <3>1, <4>1, <4>2, Zenon
      <3> HIDE DEF k, src, dst
      <3>5. ~EvolvePanics(s.read[src], changes[src])
        BY <3>2, Zenon DEF EvolvePanics, Only
      <3>6. ~EvolvePanics(s.read[dst], changes[dst])
        BY <3>2, <3>3, <3>4 DEF EvolvePanics, Only
      <3> QED
        BY <1>1, <3>2, <3>5, <3>6, ZenonT(30)
    <2> QED
      BY <2>1, <2>2, <2>3, <2>4, ZenonT(30) DEF TreeHypotheses, TreeAssumption, ExchangesStayInFolder, InFolder
  <1>2. TreeInv => NoEntryTwice
    BY <1>1, Zenon DEF NoEntryTwice
  <1> QED
    BY <1>2, TreeInvHolds, PTL

(***************************************************************************)
(* The topics lock                                                         *)
(***************************************************************************)

\* A task that has not started, or has ended, holds nothing, and only finitely
\* many locks are held at a time.
HoldersAreRunning ==
    /\ \A t \in Tasks : pc[t] \in {"idle", "done"} => held[t] = 0
    /\ IsFiniteSet(Grants)

\* The inductive invariant.  The books are needed for exclusion, since the
\* checks read the books and not the holders; exclusion is needed for the
\* books, since releasing a write lock empties the topic's entry.
IInv ==
    /\ TypeOK
    /\ HoldersAreRunning
    /\ BooksMatchHolders
    /\ WriteIsExclusive
    /\ NoLostWakeup

\* Grants, one level of quantification less deep.
LEMMA GrantsMembers ==
    \A g : g \in Grants <=> \E t \in Tasks : \E i \in 1 .. held[t] : g = <<t, i>>
  BY DEF Grants

LEMMA GrantsMembersPrimed ==
    \A g : g \in Grants' <=> \E t \in Tasks : \E i \in 1 .. held'[t] : g = <<t, i>>
  BY DEF Grants

\* The grants are typed by the plans of their tasks.
LEMMA GrantedType ==
    ASSUME TypeOK, NEW g \in Grants
    PROVE  Granted(g) \in LockRequests
  <1>1. PICK t \in Tasks, i \in Nat : i \in 1 .. held[t] /\ g = <<t, i>>
    BY GrantsMembers DEF TypeOK
  <1>2. i \in 1 .. Len(plan[t])
    BY <1>1 DEF TypeOK
  <1> QED
    BY <1>1, <1>2 DEF TypeOK, Granted

\* An empty read count means that nobody reads.
LEMMA NoReaders ==
    ASSUME IInv, NEW p \in Topics, readLocked[p] = 0
    PROVE  ReadersOf(p) = {}
  <1>1. IsFiniteSet(ReadersOf(p))
    BY FS_Subset, Zenon DEF IInv, HoldersAreRunning, ReadersOf
  <1>2. Cardinality(ReadersOf(p)) = 0
    BY Zenon DEF IInv, BooksMatchHolders
  <1> QED
    BY <1>1, <1>2, FS_EmptySet, Zenon

\* Take adds exactly one grant, for what the task wanted.
LEMMA TakeGrants ==
    ASSUME TypeOK, NEW t \in Tasks, Take(t)
    PROVE  LET n == <<t, held[t] + 1>> IN
           /\ n \notin Grants
           /\ Grants' = Grants \cup {n}
           /\ Granted(n) = Wanted(t)
           /\ Wanted(t) \in LockRequests
           /\ \A g \in Grants' : Granted(g)' = Granted(g)
  <1> DEFINE n == <<t, held[t] + 1>>
  <1>1. held[t] \in Nat /\ held \in [Tasks -> Nat] /\ held' = [held EXCEPT ![t] = held[t] + 1]
    BY Zenon DEF TypeOK, Take
  <1>2. n \notin Grants
    BY <1>1, GrantsMembers
  <1>3. \A g : g \in Grants' <=> g \in Grants \/ g = n
    <2>1. \A s \in Tasks : s # t => held'[s] = held[s]
      BY <1>1, Zenon
    <2>2. held'[t] = held[t] + 1
      BY <1>1, Zenon
    <2>3. 1 .. held'[t] = (1 .. held[t]) \cup {held[t] + 1}
      BY <1>1, <2>2
    <2> QED
      BY <2>1, <2>3, GrantsMembers, GrantsMembersPrimed, Zenon
  <1>4. Wanted(t) \in LockRequests
    BY <1>1 DEF Take, TypeOK, Wanted
  <1>5. Granted(n) = Wanted(t) /\ \A g \in Grants' : Granted(g)' = Granted(g)
    BY Zenon DEF Granted, Wanted, Take
  <1> QED
    BY <1>2, <1>3, <1>4, <1>5, Zenon

\* Exit removes exactly the grant of the innermost lock.
LEMMA ExitGrants ==
    ASSUME TypeOK, NEW t \in Tasks, Exit(t)
    PROVE  LET n == <<t, held[t]>> IN
           /\ n \in Grants
           /\ Grants' = Grants \ {n}
           /\ Granted(n) = plan[t][held[t]]
           /\ \A g \in Grants : Granted(g)' = Granted(g)
  <1> DEFINE n == <<t, held[t]>>
  <1>1. held[t] \in Nat \ {0} /\ held \in [Tasks -> Nat] /\ held' = [held EXCEPT ![t] = held[t] - 1]
    BY DEF TypeOK, Exit
  <1>2. n \in Grants
    BY <1>1, GrantsMembers
  <1>3. \A g : g \in Grants' <=> g \in Grants /\ g # n
    <2>1. \A s \in Tasks : s # t => held'[s] = held[s]
      BY <1>1, Zenon
    <2>2. held'[t] = held[t] - 1
      BY <1>1, Zenon
    <2>3. 1 .. held'[t] = (1 .. held[t]) \ {held[t]}
      BY <1>1, <2>2
    <2> QED
      BY <2>1, <2>3, GrantsMembers, GrantsMembersPrimed
  <1>4. Granted(n) = plan[t][held[t]] /\ \A g \in Grants : Granted(g)' = Granted(g)
    BY Zenon DEF Granted, Exit
  <1> QED
    BY <1>2, <1>3, <1>4, Zenon

\* Start, Wait and Cancel grant nothing and leave the books alone.
LEMMA SameGrants ==
    ASSUME TypeOK, HoldersAreRunning,
           UNCHANGED <<held, writeLocked, readLocked>>,
           \A s \in Tasks : held[s] # 0 => plan'[s] = plan[s]
    PROVE  /\ BooksMatchHolders => BooksMatchHolders'
           /\ WriteIsExclusive => WriteIsExclusive'
           /\ IsFiniteSet(Grants')
  <1>1. Grants' = Grants
    BY DEF Grants
  <1>2. \A g \in Grants : Granted(g)' = Granted(g)
    <2> TAKE g \in Grants
    <2>1. PICK t \in Tasks, i \in Nat : i \in 1 .. held[t] /\ g = <<t, i>>
      BY GrantsMembers DEF TypeOK
    <2>2. held[t] # 0
      BY <2>1 DEF TypeOK
    <2> QED
      BY <2>1, <2>2, Zenon DEF Granted
  <1>3. \A p \in Topics : ReadersOf(p)' = ReadersOf(p)
    BY <1>1, <1>2, Zenon DEF ReadersOf
  <1>4. BooksMatchHolders => BooksMatchHolders'
    BY <1>1, <1>2, <1>3, Zenon DEF BooksMatchHolders
  <1>5. WriteIsExclusive => WriteIsExclusive'
    BY <1>1, <1>2, Zenon DEF WriteIsExclusive
  <1> QED
    BY <1>1, <1>4, <1>5, Zenon DEF HoldersAreRunning

LEMMA StartPreserves ==
    ASSUME IInv, NEW t \in Tasks, Start(t)
    PROVE  IInv'
  <1> USE DEF IInv
  <1>1. PICK p \in Plans : plan' = [plan EXCEPT ![t] = p]
    BY Zenon DEF Start
  <1>2. p \in Seq(LockRequests)
    BY PlansAssumption, Zenon
  <1>3. held[t] = 0
    BY Zenon DEF Start, HoldersAreRunning
  <1>4. TypeOK'
    BY <1>1, <1>2, <1>3 DEF Start, TypeOK, LockTypeOK, lockVars
  <1>5. \A s \in Tasks : held[s] # 0 => plan'[s] = plan[s]
    BY <1>1, <1>3, Zenon DEF TypeOK
  <1>6. BooksMatchHolders' /\ WriteIsExclusive' /\ IsFiniteSet(Grants')
    BY <1>5, SameGrants, Zenon DEF Start, lockVars
  <1>7. HoldersAreRunning'
    BY <1>6, Zenon DEF HoldersAreRunning, Start, TypeOK
  <1>8. NoLostWakeup'
    BY <1>1, Zenon DEF NoLostWakeup, Start, TypeOK, LockTypeOK, lockVars, Conflict, Wanted
  <1> QED
    BY <1>4, <1>6, <1>7, <1>8, Zenon

LEMMA WaitPreserves ==
    ASSUME IInv, NEW t \in Tasks, Wait(t)
    PROVE  IInv'
  <1> USE DEF IInv
  <1>1. TypeOK'
    BY Zenon DEF Wait, WaitForRelease, JoinWaiters, TypeOK, LockTypeOK
  <1>2. BooksMatchHolders' /\ WriteIsExclusive' /\ IsFiniteSet(Grants')
    BY SameGrants, Zenon DEF Wait, WaitForRelease
  <1>3. HoldersAreRunning'
    BY <1>2, Zenon DEF HoldersAreRunning, Wait
  <1>4. NoLostWakeup'
    BY Zenon DEF NoLostWakeup, Wait, Runnable, WaitForRelease, JoinWaiters, Conflict, Wanted
  <1> QED
    BY <1>1, <1>2, <1>3, <1>4, Zenon

LEMMA CancelPreserves ==
    ASSUME IInv, NEW t \in Tasks, Cancel(t)
    PROVE  IInv'
  <1> USE DEF IInv
  <1>1. TypeOK'
    BY Zenon DEF Cancel, TypeOK, LockTypeOK
  <1>2. BooksMatchHolders' /\ WriteIsExclusive' /\ IsFiniteSet(Grants')
    BY SameGrants, Zenon DEF Cancel
  <1>3. HoldersAreRunning'
    BY <1>2, Zenon DEF HoldersAreRunning, Cancel, TypeOK
  <1>4. NoLostWakeup'
    <2>1. \A s \in waiting' : s \in waiting /\ s \in Tasks /\ pc'[s] = pc[s]
      BY Zenon DEF Cancel, TypeOK, LockTypeOK
    <2> QED
      BY <2>1, Zenon DEF NoLostWakeup, Cancel, Conflict, Wanted
  <1> QED
    BY <1>1, <1>2, <1>3, <1>4, Zenon

LEMMA TakePreserves ==
    ASSUME IInv, NEW t \in Tasks, Take(t)
    PROVE  IInv'
  <1> USE DEF IInv
  <1> DEFINE n == <<t, held[t] + 1>>
             q == Wanted(t)
  <1>1. /\ n \notin Grants
        /\ Grants' = Grants \cup {n}
        /\ Granted(n) = q
        /\ q \in LockRequests
        /\ \A g \in Grants' : Granted(g)' = Granted(g)
    BY TakeGrants, Zenon
  <1>2. /\ writeLocked' = writeLocked \cup q.write
        /\ readLocked' = [p \in Topics |->
                            IF p \in q.read THEN readLocked[p] + 1 ELSE readLocked[p]]
        /\ UNCHANGED <<event, waiting, pc, plan>>
        /\ held' = [held EXCEPT ![t] = held[t] + 1]
        /\ held[t] < Len(plan[t])
    BY Zenon DEF Take, TakeLocks, MarkTaken
  <1>3. TypeOK'
    <2>1. q.write \subseteq Topics
      BY <1>1, Zenon DEF LockRequests
    <2>2. readLocked' \in [Topics -> Nat]
      BY <1>2 DEF TypeOK, LockTypeOK
    <2>3. LockTypeOK'
      BY <1>2, <2>1, <2>2, Zenon DEF TypeOK, LockTypeOK
    <2>4. held' \in [Tasks -> Nat] /\ \A s \in Tasks : held'[s] <= Len(plan[s])
      BY <1>2 DEF TypeOK
    <2> QED
      BY <1>2, <2>3, <2>4, Zenon DEF TypeOK
  <1>4. HoldersAreRunning'
    <2>1. IsFiniteSet(Grants')
      BY <1>1, FS_AddElement, Zenon DEF HoldersAreRunning
    <2>2. pc[t] = "entering"
      BY Zenon DEF Take, Runnable
    <2> QED
      BY <1>2, <2>1, <2>2, Zenon DEF HoldersAreRunning, TypeOK
  <1>5. ASSUME NEW p \in Topics
        PROVE  readLocked'[p] = Cardinality(ReadersOf(p)')
    <2>1. IsFiniteSet(ReadersOf(p)) /\ n \notin ReadersOf(p)
      BY <1>1, FS_Subset, Zenon DEF HoldersAreRunning, ReadersOf
    <2>2. readLocked[p] = Cardinality(ReadersOf(p))
      BY Zenon DEF BooksMatchHolders
    <2>3. CASE p \in q.read
      <3>1. ReadersOf(p)' = ReadersOf(p) \cup {n}
        BY <1>1, <2>3, Zenon DEF ReadersOf
      <3>2. Cardinality(ReadersOf(p) \cup {n}) = Cardinality(ReadersOf(p)) + 1
        BY <2>1, FS_AddElement, Zenon
      <3> QED
        BY <1>2, <2>2, <2>3, <3>1, <3>2, ZenonT(30)
    <2>4. CASE p \notin q.read
      <3>1. ReadersOf(p)' = ReadersOf(p)
        BY <1>1, <2>4, Zenon DEF ReadersOf
      <3> QED
        BY <1>2, <2>2, <2>4, <3>1, Zenon
    <2> QED
      BY <2>3, <2>4, Zenon
  <1>6. BooksMatchHolders'
    BY <1>1, <1>2, <1>5, Zenon DEF BooksMatchHolders
  <1>7. WriteIsExclusive'
    <2>1. \A p \in q.read \cup q.write : p \notin writeLocked
      BY Zenon DEF Take, Conflict
    <2>2. \A p \in q.write : ReadersOf(p) = {}
      BY <1>1, NoReaders, Zenon DEF Take, Conflict, LockRequests
    <2>3. ASSUME NEW g \in Grants
          PROVE  /\ q.write \cap (Granted(g).read \cup Granted(g).write) = {}
                 /\ Granted(g).write \cap (q.read \cup q.write) = {}
      <3>1. Granted(g) \in LockRequests
        BY GrantedType, Zenon
      <3>2. \A p \in Topics : p \in Granted(g).write => p \in writeLocked
        BY Zenon DEF BooksMatchHolders
      <3>3. \A p \in q.write : p \notin Granted(g).read
        BY <2>2, Zenon DEF ReadersOf
      <3> QED
        BY <1>1, <2>1, <3>1, <3>2, <3>3, Zenon DEF LockRequests
    <2> QED
      BY <1>1, <2>3, ZenonT(30) DEF WriteIsExclusive
  <1>8. NoLostWakeup'
    <2> SUFFICES ASSUME NEW s \in waiting
                 PROVE  /\ event
                        /\ pc[s] = "entering"
                        /\ held'[s] < Len(plan[s])
                        /\ Conflict(Wanted(s))'
      BY <1>2, Zenon DEF NoLostWakeup
    <2>1. s \in Tasks /\ s # t /\ held'[s] = held[s]
      BY <1>2, Zenon DEF TypeOK, LockTypeOK, Take, Runnable
    <2>2. Wanted(s)' = Wanted(s) /\ Conflict(Wanted(s)) /\ Wanted(s) \in LockRequests
      BY <1>2, <2>1 DEF NoLostWakeup, Wanted, TypeOK
    <2>3. Conflict(Wanted(s))'
      BY <1>2, <2>2 DEF Conflict, LockRequests, TypeOK, LockTypeOK
    <2> QED
      BY <2>1, <2>3, Zenon DEF NoLostWakeup
  <1> QED
    BY <1>3, <1>4, <1>6, <1>7, <1>8, ZenonT(30)

LEMMA ExitPreserves ==
    ASSUME IInv, NEW t \in Tasks, Exit(t)
    PROVE  IInv'
  <1> USE DEF IInv
  <1> DEFINE n == <<t, held[t]>>
             q == plan[t][held[t]]
  <1>1. /\ n \in Grants
        /\ Grants' = Grants \ {n}
        /\ Granted(n) = q
        /\ \A g \in Grants : Granted(g)' = Granted(g)
    BY ExitGrants, Zenon
  <1>2. q \in LockRequests
    BY <1>1, GrantedType, Zenon
  <1>3. /\ writeLocked' = writeLocked \ q.write
        /\ readLocked' = [p \in Topics |->
                            IF p \in q.read THEN readLocked[p] - 1 ELSE readLocked[p]]
        /\ waiting' = IF event THEN {} ELSE waiting
        /\ UNCHANGED <<event, plan>>
        /\ held' = [held EXCEPT ![t] = held[t] - 1]
        /\ held[t] > 0
        /\ pc' = [pc EXCEPT ![t] = IF held[t] = 1 THEN "done" ELSE "leaving"]
    BY Zenon DEF Exit, ReleaseLocks
  <1>4. ASSUME NEW p \in Topics
        PROVE  /\ readLocked'[p] = Cardinality(ReadersOf(p)')
               /\ readLocked'[p] \in Nat
    <2>1. IsFiniteSet(ReadersOf(p))
      BY FS_Subset, Zenon DEF HoldersAreRunning, ReadersOf
    <2>2. readLocked[p] = Cardinality(ReadersOf(p)) /\ readLocked[p] \in Nat
      BY Zenon DEF BooksMatchHolders, TypeOK, LockTypeOK
    <2>3. CASE p \in q.read
      <3>1. ReadersOf(p)' = ReadersOf(p) \ {n} /\ n \in ReadersOf(p)
        BY <1>1, <2>3, Zenon DEF ReadersOf
      <3>2. /\ Cardinality(ReadersOf(p) \ {n}) = Cardinality(ReadersOf(p)) - 1
            /\ IsFiniteSet(ReadersOf(p) \ {n})
        BY <2>1, <3>1, FS_RemoveElement, Zenon
      <3>3. Cardinality(ReadersOf(p) \ {n}) \in Nat
        BY <3>2, FS_CardinalityType, Zenon
      <3> QED
        BY <1>3, <2>2, <2>3, <3>1, <3>2, <3>3, ZenonT(30)
    <2>4. CASE p \notin q.read
      <3>1. ReadersOf(p)' = ReadersOf(p)
        BY <1>1, <2>4, Zenon DEF ReadersOf
      <3> QED
        BY <1>3, <2>2, <2>4, <3>1, Zenon
    <2> QED
      BY <2>3, <2>4, Zenon
  <1>5. TypeOK'
    <2>1. readLocked' \in [Topics -> Nat]
      BY <1>3, <1>4, Zenon
    <2>2. LockTypeOK'
      BY <1>3, <2>1, Zenon DEF TypeOK, LockTypeOK
    <2>3. held' \in [Tasks -> Nat] /\ \A s \in Tasks : held'[s] <= Len(plan[s])
      BY <1>3 DEF TypeOK
    <2> QED
      BY <1>3, <2>2, <2>3, Zenon DEF TypeOK
  <1>6. HoldersAreRunning'
    <2>1. IsFiniteSet(Grants')
      BY <1>1, FS_RemoveElement, Zenon DEF HoldersAreRunning
    <2> QED
      BY <1>3, <2>1 DEF HoldersAreRunning, TypeOK
  <1>7. BooksMatchHolders'
    <2>1. ASSUME NEW p \in Topics
          PROVE  p \in writeLocked' <=> \E g \in Grants' : p \in Granted(g)'.write
      <3>1. CASE p \in q.write
        <4>1. \A g \in Grants : g # n => p \notin Granted(g).write
          BY <1>1, <3>1, Zenon DEF WriteIsExclusive
        <4> QED
          BY <1>1, <1>3, <3>1, <4>1, Zenon
      <3>2. CASE p \notin q.write
        BY <1>1, <1>3, <3>2, Zenon DEF BooksMatchHolders
      <3> QED
        BY <3>1, <3>2, Zenon
    <2> QED
      BY <1>4, <2>1, Zenon DEF BooksMatchHolders
  <1>8. WriteIsExclusive'
    BY <1>1, ZenonT(30) DEF WriteIsExclusive
  <1>9. NoLostWakeup'
    <2>1. waiting' = {}
      BY <1>3, Zenon DEF NoLostWakeup
    <2> QED
      BY <2>1, Zenon DEF NoLostWakeup
  <1> QED
    BY <1>5, <1>6, <1>7, <1>8, <1>9, Zenon

LEMMA InitEstablishes == Init => IInv
  <1> SUFFICES ASSUME Init PROVE IInv
    BY Zenon
  <1>1. TypeOK
    <2>1. <<>> \in Seq(LockRequests) /\ Len(<<>>) = 0
      OBVIOUS
    <2>2. LockTypeOK
      BY Zenon DEF Init, LockInit, LockTypeOK
    <2>3. plan \in [Tasks -> Seq(LockRequests)] /\ held \in [Tasks -> Nat]
      BY <2>1, Zenon DEF Init
    <2>4. \A t \in Tasks : held[t] <= Len(plan[t])
      <3> TAKE t \in Tasks
      <3>1. held[t] = 0 /\ plan[t] = <<>>
        BY Zenon DEF Init
      <3> QED
        BY <3>1, <2>1
    <2> QED
      BY <2>2, <2>3, <2>4, Zenon DEF Init, TypeOK
  <1>2. Grants = {}
    BY GrantsMembers DEF Init
  <1>3. HoldersAreRunning
    BY <1>2, FS_EmptySet, Zenon DEF HoldersAreRunning, Init
  <1>4. BooksMatchHolders
    BY <1>2, FS_EmptySet, Zenon DEF BooksMatchHolders, ReadersOf, Init, LockInit
  <1>5. WriteIsExclusive /\ NoLostWakeup
    BY <1>2, Zenon DEF WriteIsExclusive, NoLostWakeup, Init, LockInit
  <1> QED
    BY <1>1, <1>3, <1>4, <1>5, ZenonT(30) DEF IInv

LEMMA StutterPreserves ==
    ASSUME IInv, UNCHANGED vars
    PROVE  IInv'
  <1> USE DEF IInv, vars
  <1>1. TypeOK'
    BY Zenon DEF TypeOK, LockTypeOK
  <1>2. BooksMatchHolders' /\ WriteIsExclusive' /\ IsFiniteSet(Grants')
    BY SameGrants, Zenon
  <1>3. HoldersAreRunning'
    BY <1>2, Zenon DEF HoldersAreRunning
  <1>4. NoLostWakeup'
    BY Zenon DEF NoLostWakeup, Conflict, Wanted
  <1> QED
    BY <1>1, <1>2, <1>3, <1>4, Zenon

LEMMA NextPreserves == IInv /\ [Next]_vars => IInv'
  <1> SUFFICES ASSUME IInv, [Next]_vars PROVE IInv'
    BY Zenon
  <1>1. CASE Terminated \/ UNCHANGED vars
    BY <1>1, StutterPreserves, Zenon DEF Terminated
  <1>2. ASSUME NEW t \in Tasks, Start(t) PROVE IInv'
    BY <1>2, StartPreserves, Zenon
  <1>3. ASSUME NEW t \in Tasks, Wait(t) PROVE IInv'
    BY <1>3, WaitPreserves, ZenonT(30)
  <1>4. ASSUME NEW t \in Tasks, Take(t) PROVE IInv'
    BY <1>4, TakePreserves, Zenon
  <1>5. ASSUME NEW t \in Tasks, Exit(t) PROVE IInv'
    BY <1>5, ExitPreserves, Zenon
  <1>6. ASSUME NEW t \in Tasks, Cancel(t) PROVE IInv'
    BY <1>6, CancelPreserves, Zenon
  <1> QED
    BY <1>1, <1>2, <1>3, <1>4, <1>5, <1>6, ZenonT(30) DEF Next

\* All parts of the invariant hold in every reachable state.
LEMMA Invariance == Spec => []IInv
  BY InitEstablishes, NextPreserves, PTL DEF Spec

\* The lock's state and the tasks' keep their types; in particular the read
\* counter of a topic, which a release decrements, never becomes negative.
THEOREM LockTypeCorrect == Spec => []TypeOK
  <1>1. IInv => TypeOK
    BY Zenon DEF IInv
  <1> QED
    BY <1>1, Invariance, PTL

\* topics_lock excludes: no topic is held in write mode by one block and in any
\* mode by another, for any number of tasks, topics and nested requests.
THEOREM LockExcludes == Spec => []WriteIsExclusive
  <1>1. IInv => WriteIsExclusive
    BY Zenon DEF IInv
  <1> QED
    BY <1>1, Invariance, PTL

\* _topic_write_locked and _topic_read_locked say exactly who holds what.
THEOREM LockBooksAreExact == Spec => []BooksMatchHolders
  <1>1. IInv => BooksMatchHolders
    BY Zenon DEF IInv
  <1> QED
    BY <1>1, Invariance, PTL

\* One shared Event, set and replaced at every release, loses no wake-up: a task
\* still blocked on it waits for a topic that is held right now.
THEOREM LockLosesNoWakeup == Spec => []NoLostWakeup
  <1>1. IInv => NoLostWakeup
    BY Zenon DEF IInv
  <1> QED
    BY <1>1, Invariance, PTL

=============================================================================
