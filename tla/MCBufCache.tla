----------------------------- MODULE MCBufCache -----------------------------
(* Model-checking instance of BufCache. *)
EXTENDS BufCache
=============================================================================
