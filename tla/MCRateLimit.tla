---------------------------- MODULE MCRateLimit ----------------------------
(* Constants of the TLC runs of RateLimit.                                 *)
EXTENDS RateLimit, TLC

(* An hour against the default of five minutes, and a minute.              *)
Windows == [s \in Scopes |-> IF s = "resend-cooldown" THEN 1 ELSE Default + 1]

Limits == [s \in Scopes |-> IF s = "resend-cooldown" THEN 1 ELSE 2]

Symmetry == Permutations(Workers)

=============================================================================
