--------------------------- MODULE MCDeviceCache ---------------------------
(* An instance of DeviceCache for TLC. Builds and cores are interchangeable. *)
EXTENDS DeviceCache, TLC

Symmetry == Permutations(Builds) \cup Permutations(Elfs)
=============================================================================
