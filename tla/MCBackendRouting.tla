-------------------------- MODULE MCBackendRouting --------------------------
(* Instances of BackendRouting for TLC. *)
EXTENDS BackendRouting

CONSTANTS a1, a2, b1, b2, g1, g2, p1, p2

\* The calls that leave a health check room to overtake them.
WindowOps == {"UpdateGroup", "AddGroupMember"}

=============================================================================
