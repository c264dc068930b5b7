---------------------------- MODULE MCMysqlConn ----------------------------
(***************************************************************************)
(* Instances of MysqlConn for TLC; the .cfg files give the constants values. *)
(***************************************************************************)
EXTENDS MysqlConn
=============================================================================
