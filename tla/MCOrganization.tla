--------------------------- MODULE MCOrganization ---------------------------
(***************************************************************************)
(* Small instances of Organization for TLC: one that starts before the     *)
(* bootstrap, and the organization of MCOrganizationShared.                *)
(***************************************************************************)
EXTENDS MCOrganizationShared, TLC

CONSTANT Twins

VARIABLE few        \* the instance has few timestamps and keys

\* Twins are user ids for one and the same human: enrolling the second needs
\* the revocation of the first.
TwinHandle == [u \in Users |-> IF u \in Twins THEN "twins" ELSE u]

Symmetry ==
    Permutations(Twins) \cup Permutations(Users \ Twins) \cup Permutations(Devices)

\* The bounds of an instance that starts before the bootstrap when the other one, which
\* has used some timestamps and a key already, gets MaxTs and MaxKey.
FewTs == MaxTs - 2
FewKeys == MaxKey - 1

WithinFew ==
    /\ commonTs <= FewTs
    /\ \A r \in Realms :
        realmTs[r] <= FewTs /\ lastVlob[r] <= FewTs /\ Len(rotations[r]) <= FewKeys

FromBootstrap == few /\ Init

FromShared ==
    /\ ~few
    /\ \E u, v \in Users, d, e \in Devices, r \in Realms :
        u # v /\ d # e /\ Shared(u, v, d, e, r)

InstanceNext == Next /\ UNCHANGED few /\ (few => WithinFew')

OrganizationInit == few \in BOOLEAN /\ (FromBootstrap \/ FromShared)

OrganizationSpec == OrganizationInit /\ [][InstanceNext]_<<vars, few>>

\* Users and devices only, with all the timestamps from the bootstrap on.
AdminsInit == few = FALSE /\ Init

AdminsSpec == AdminsInit /\ [][InstanceNext]_<<vars, few>>
=============================================================================
