--------------------------- MODULE MCZookeeperLock --------------------------
(***************************************************************************)
(* A small instance of ZookeeperLock for TLC.                              *)
(***************************************************************************)
EXTENDS ZookeeperLock
=============================================================================
