-------------------------- MODULE MCUserDataHolder --------------------------
(* Instance of UserDataHolder for TLC. *)
EXTENDS UserDataHolder, TLC

CONSTANTS s1, s2, a, b

MCSessions == {s1, s2}
MCArchives == {a, b}
MCBackupIds == {0, 1}
MCSymmetry == Permutations(MCSessions) \cup Permutations(MCArchives)
=============================================================================
