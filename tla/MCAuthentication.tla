--------------------------- MODULE MCAuthentication ---------------------------
(* Instances of Authentication and of its history variables for TLC. *)
EXTENDS AuthenticationHistory, TLC

CONSTANTS i1, i2, u1, u2, r1, r2

\* Ids, users and requests are only ever compared for equality.
Symmetry ==
    Permutations(Ids) \cup Permutations(UserIds) \cup Permutations(Requests)

=============================================================================
