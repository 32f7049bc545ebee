--------------------------- MODULE MCUploadSessions ---------------------------
(* Requests and upload ids are interchangeable.                               *)
EXTENDS UploadSessions, TLC

CONSTANTS r1, r2, r3, u1, u2, u3

MCSymmetry == Permutations(Requests) \cup Permutations(Uploads)

\* For a photo of one part: whole, a part it does not have, too many parts, out of order.
MCManifests == {<<1>>, <<2>>, <<1, 2>>, <<2, 1>>}

=============================================================================
