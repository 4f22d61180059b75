------------------------------ MODULE MCForward ------------------------------
(* Forward for TLC: see MCForward.cfg for the instance. *)
EXTENDS Forward
=============================================================================
