--------------------------- MODULE MCQuotaService ---------------------------
(* Constants of the TLC runs of QuotaService.                              *)
EXTENDS QuotaService, TLC

(* One application, as the administrator leaves it.                        *)
ConsumingApp == {[active |-> TRUE, consumes |-> TRUE]}

(* The application can be deactivated.                                     *)
SwitchedApp == ConsumingApp \cup {[active |-> FALSE, consumes |-> TRUE]}

(* The application can stop and start consuming quota.                     *)
MeteredApp == ConsumingApp \cup {[active |-> TRUE, consumes |-> FALSE]}

(* Nothing tells two of them apart.                                        *)
Symmetry ==
    UNION {Permutations(S) : S \in {Workers, Requests, Users, Apps, Actions}}

=============================================================================
