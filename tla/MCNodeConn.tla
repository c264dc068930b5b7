----------------------------- MODULE MCNodeConn -----------------------------
(***************************************************************************)
(* Instances of NodeConn for TLC; the .cfg files give the constants values. *)
(***************************************************************************)
EXTENDS NodeConn
=============================================================================
