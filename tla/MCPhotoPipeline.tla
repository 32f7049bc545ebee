---------------------------- MODULE MCPhotoPipeline ----------------------------
(* Slots and photos are interchangeable in the safety runs.                    *)
EXTENDS PhotoPipeline, TLC

CONSTANTS p1, p2, s1, s2

MCSymmetry == Permutations(Slots) \cup Permutations(Photos)

=============================================================================
