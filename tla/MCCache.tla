------------------------------ MODULE MCCache -------------------------------
(* The caches that are model checked: MCCache_*.cfg give their shapes. *)
EXTENDS CacheProps
=============================================================================
