----------------------------- MODULE MCPortalJobs -----------------------------
(* Instances of PortalJobs for TLC. *)
EXTENDS PortalJobs

CONSTANTS j1, j2

Two == {j1, j2}
=============================================================================
