---------------------------- MODULE MCFdTransfer ----------------------------
(***************************************************************************)
(* Instances of FdTransfer for TLC; the .cfg files give the constants values. *)
(***************************************************************************)
EXTENDS FdTransfer
=============================================================================
