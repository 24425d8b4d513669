-------------------------- MODULE MCManifestCache --------------------------
(***************************************************************************)
(* Instances of ManifestCache.                                             *)
(***************************************************************************)
EXTENDS ManifestCache, TLC

TaskSymmetry == Permutations(Accesses)

=============================================================================
