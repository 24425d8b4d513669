------------------------ MODULE MCOrganizationShared ------------------------
(***************************************************************************)
(* An organization some requests after its bootstrap: Bootstrap at 1,      *)
(* CreateRealm and CreateUser at 2, RotateKey at 3, Share at 4.            *)
(***************************************************************************)
EXTENDS Organization

CONSTANTS MaxTs, MaxKey

MCTimestamps == 1 .. MaxTs

MCKeyIndexes == 0 .. MaxKey

OwnHandle == [u \in Users |-> u]

Shared(alice, bob, aliceDev, bobDev, realm1) ==
    /\ commonTs = 2
    /\ profiles = [u \in Users |->
            CASE u = alice -> <<[profile |-> "ADMIN", ts |-> 1, author |-> Root]>>
              [] u = bob -> <<[profile |-> "STANDARD", ts |-> 2, author |-> aliceDev]>>
              [] OTHER -> <<>>]
    /\ revocations = {}
    /\ devices = {[id |-> aliceDev, user |-> alice, ts |-> 1, author |-> Root],
                  [id |-> bobDev, user |-> bob, ts |-> 2, author |-> aliceDev]}
    /\ realmTs = [r \in Realms |-> IF r = realm1 THEN 4 ELSE 0]
    /\ roles = [r \in Realms |-> IF r # realm1 THEN <<>> ELSE
            <<[user |-> alice, role |-> "OWNER", ts |-> 2, author |-> aliceDev],
              [user |-> bob, role |-> "OWNER", ts |-> 4, author |-> aliceDev]>>]
    /\ rotations = [r \in Realms |-> IF r # realm1 THEN <<>> ELSE
            <<[access |-> {[user |-> alice, ts |-> 3], [user |-> bob, ts |-> 4]},
               ts |-> 3, author |-> aliceDev]>>]
    /\ renames = [r \in Realms |-> <<>>]
    /\ lastVlob = [r \in Realms |-> 0]
    /\ vlobs = [r \in Realms |-> [v \in Vlobs |-> <<>>]]
    /\ vlobUpdates = [r \in Realms |-> <<>>]
=============================================================================
