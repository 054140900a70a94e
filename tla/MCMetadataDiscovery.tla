------------------------ MODULE MCMetadataDiscovery ------------------------
(* Instances of MetadataDiscovery for TLC.                                 *)
EXTENDS MetadataDiscovery, TLC

Symmetric == Permutations(Calls) \cup Permutations(Domains \ Aliases)
=============================================================================
