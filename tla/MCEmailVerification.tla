------------------------ MODULE MCEmailVerification ------------------------
(* Constants of the TLC runs of EmailVerification.                         *)
EXTENDS EmailVerification, TLC

CONSTANTS u1, u2, e1, e2, w1, w2

Symmetry == Permutations(Users) \cup Permutations(Emails) \cup Permutations(Workers)

=============================================================================
