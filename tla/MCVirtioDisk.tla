---------------------------- MODULE MCVirtioDisk ----------------------------
(* Model-checking instance of VirtioDisk. *)
EXTENDS VirtioDisk
=============================================================================
