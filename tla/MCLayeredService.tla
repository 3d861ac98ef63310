---------------------------- MODULE MCLayeredService ----------------------------
(*****************************************************************************)
(* LayeredService for TLC.  Routes, what stands behind the handles of a user *)
(* type, and permissions are interchangeable, as the one closure in the .cfg *)
(* accepts the users who have exactly one permission.                        *)
(*****************************************************************************)
EXTENDS LayeredService, TLC

Symmetry ==
    Permutations(Paths) \cup Permutations(Providers) \cup Permutations(Permissions)

=============================================================================
