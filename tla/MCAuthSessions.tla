---------------------------- MODULE MCAuthSessions ----------------------------
(* Tabs are interchangeable.                                                  *)
EXTENDS AuthSessions, TLC

CONSTANTS b1, b2, b3

MCSymmetry == Permutations(Tabs)

=============================================================================
