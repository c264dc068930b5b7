----------------------------- MODULE MCCmdTable -----------------------------
(***************************************************************************)
(* Instances of CmdTable for TLC; the .cfg files give the constants values. *)
(***************************************************************************)
EXTENDS CmdTable
=============================================================================
