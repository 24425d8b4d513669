----------------------------- MODULE RetrievePath -----------------------------
(***************************************************************************)
(* How the path of an entry is retrieved from its ID, by climbing from     *)
(* parent to parent in the cache.  A manifest that the cache misses is     *)
(* populated and the climb starts again, until the entry is reached from   *)
(* the root, found unreachable, or found missing; the entry may have to be *)
(* locked then.                                                            *)
(*                                                                         *)
(* The manifests do not change meanwhile: parent says which parent each    *)
(* one claims, listed which ones their parent has among its children,      *)
(* confined which ones it keeps from synchronization, files which ones are *)
(* files, and existing which ones can be found at all.                     *)
(***************************************************************************)
EXTENDS Naturals, FiniteSets

CONSTANTS Entries, Root, NoEntry

ASSUME RetrieveAssumption == Root \in Entries /\ NoEntry \notin Entries

VARIABLES parent, listed, confined, files, existing,
          entry,       \* the entry whose path is retrieved
          cached,      \* the manifests in cache
          notFound,    \* `last_not_found_during_populate`
          wanted,      \* the manifest to populate, or NoEntry
          result       \* "none" until the retrieval is done

world == <<parent, listed, confined, files, existing, entry>>
vars == <<world, cached, notFound, wanted, result>>

None == [kind |-> "none"]
Missing == [kind |-> "missing"]
Unreachable == [kind |-> "unreachable"]
Reachable(chain, point) == [kind |-> "reachable", chain |-> chain, confinement |-> point]
NeedPopulate(e) == [kind |-> "populate", entry |-> e]

\* The root manifest is always in cache, and a folder.
RetrieveInit ==
    /\ parent \in [Entries \ {Root} -> Entries]
    /\ listed \in SUBSET (Entries \ {Root})
    /\ confined \in SUBSET listed
    /\ existing \in {s \in SUBSET Entries : Root \in s}
    /\ files \in SUBSET (Entries \ {Root})
    /\ entry \in Entries
    /\ cached \in {s \in SUBSET existing : Root \in s}
    /\ notFound = NoEntry /\ wanted = NoEntry /\ result = None

\* Mutant of IsBroken: a parent that does not know the child is not noticed.
BelievesTheChild(e, p) == p \in files

\* The parent is a file, or does not have the entry among its children.
IsBroken(e, p) == p \in files \/ e \notin listed

\* The priority goes to the confinement point nearest to the root.
PointAt(e, point) == IF e \in confined THEN parent[e] ELSE point

\* `cache_only_retrieve_path_from_id`, from entry e on, which was reached through chain.
RECURSIVE Climb(_, _, _)
Climb(e, chain, point) ==
    IF e = Root THEN Reachable(chain, point)
    ELSE LET p == parent[e] IN
         IF p \notin cached
         THEN IF notFound = entry THEN Unreachable ELSE NeedPopulate(p)
         ELSE IF IsBroken(e, p) \/ p \in chain THEN Unreachable
         ELSE Climb(p, chain \cup {p}, PointAt(e, point))

FromCache ==
    IF entry \in cached THEN Climb(entry, {entry}, NoEntry)
    ELSE IF notFound = entry THEN Missing
    ELSE NeedPopulate(entry)

Retrieve ==
    /\ result = None /\ wanted = NoEntry
    /\ IF FromCache.kind = "populate"
       THEN wanted' = FromCache.entry /\ UNCHANGED result
       ELSE result' = FromCache /\ UNCHANGED wanted
    /\ UNCHANGED <<world, cached, notFound>>

\* Mutant of PopulateCache: what was not found is not remembered.
PopulateForgetting ==
    /\ wanted # NoEntry
    /\ wanted' = NoEntry
    /\ cached' = cached \cup ({wanted} \cap existing)
    /\ UNCHANGED <<world, notFound, result>>

PopulateCache ==
    /\ wanted # NoEntry
    /\ wanted' = NoEntry
    /\ IF wanted \in existing
       THEN cached' = cached \cup {wanted} /\ UNCHANGED notFound
       ELSE notFound' = wanted /\ UNCHANGED cached
    /\ UNCHANGED <<world, result>>

\* Once done, there is nothing left to do.
Done == result # None /\ UNCHANGED vars

RetrieveNext == Retrieve \/ PopulateCache \/ Done

RetrieveSpec == RetrieveInit /\ [][RetrieveNext]_vars

\* The loop goes on by itself.
FairRetrieve == RetrieveSpec /\ WF_vars(Retrieve \/ PopulateCache)

(***************************************************************************)
(* Properties                                                              *)
(***************************************************************************)
\* The ancestors of an entry, by generation.
Ancestor(e) ==
    LET up[n \in 0 .. Cardinality(Entries)] ==
           IF n = 0 THEN e ELSE IF up[n - 1] = Root THEN Root ELSE parent[up[n - 1]]
    IN up

Generations == 0 .. Cardinality(Entries)

\* Every ancestor up to the root is there, is a folder and has the next one as a child.
IsReachable(e) ==
    LET up == Ancestor(e)
    IN /\ \E n \in Generations : up[n] = Root
       /\ \A n \in Generations : up[n] # Root =>
             up[n] \in listed /\ parent[up[n]] \in existing \ files

\* The confinement points of the path of an entry, by generation.
PointsOf(e) ==
    {n \in Generations : Ancestor(e)[n] # Root /\ Ancestor(e)[n] \in confined}

\* The climb through the cache says what the manifests say, whatever was in cache and in
\* whichever order the rest was populated: an entry is missing if it does not exist,
\* reachable if each of its ancestors agrees, and confined by the ancestor nearest to the
\* root.
RetrievalIsRight ==
    result # None =>
       /\ result.kind = "missing" <=> entry \notin existing
       /\ result.kind = "reachable" <=> entry \in existing /\ IsReachable(entry)
       /\ result.kind = "reachable" =>
             result.confinement =
                IF PointsOf(entry) = {} THEN NoEntry
                ELSE LET last == CHOOSE n \in PointsOf(entry) :
                                    \A m \in PointsOf(entry) : m <= n
                     IN parent[Ancestor(entry)[last]]

\* The loop ends: "if we already failed to populate this parent, we are done".
RetrievalEnds == <>(result # None)

\* The loop ends when it never meets a parent that cannot be found, be there cycles, files
\* for parents, or no entry at all.
EndsWhenParentsExist ==
    (\A e \in existing \ {Root} : parent[e] \in existing) => <>(result # None)

=============================================================================
