---------------------------- MODULE MCLeadership ----------------------------
(* Small instances of the leadership lease. *)
EXTENDS LeadershipLiveness
=============================================================================
