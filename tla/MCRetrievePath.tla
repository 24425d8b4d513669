--------------------------- MODULE MCRetrievePath ---------------------------
(***************************************************************************)
(* Instances of RetrievePath: the root and three other entries, which are  *)
(* alike: the path is that of the first, and its parent is not the third.  *)
(***************************************************************************)
EXTENDS RetrievePath

CONSTANTS a, b, c

MCEntries == {Root, a, b, c}

InstanceInit ==
    /\ entry = a
    /\ parent \in {f \in [MCEntries \ {Root} -> MCEntries] : f[a] # c}
    /\ RetrieveInit

InstanceSpec ==
    InstanceInit /\ [][RetrieveNext]_vars /\ WF_vars(Retrieve \/ PopulateCache)

=============================================================================
