---------------------------- MODULE MCPublicAccess ----------------------------
(* Publishing, unpublishing, and an end date with downloads turned off.       *)
EXTENDS PublicAccess, TLC

CONSTANTS p1, p2, f1, r1, a1, a2, a3, a4

MCSymmetry == Permutations(Photos) \cup Permutations({a1, a2})

\* Two editors who race, one member who may only look, and one whose membership is suspended.
MCMemberships == [a \in Admins |->
    [role |-> IF a = a3 THEN "viewer" ELSE "editor",
     active |-> IF a = a4 THEN {"organization", "user"} ELSE {"membership", "organization", "user"}]]

Command(visibility, expiry, downloads) ==
    [visibility |-> visibility, expiry |-> expiry, downloads |-> downloads]

MCCommands == { Command("public", None, None), Command("private", 1, FALSE) }

=============================================================================
