---------------------------- MODULE MCAuthCache ----------------------------
(***************************************************************************)
(* The credential cache with the connections and tokens given in the cfg.  *)
(***************************************************************************)
EXTENDS AuthCache
=============================================================================
