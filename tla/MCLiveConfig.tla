---------------------------- MODULE MCLiveConfig ----------------------------
(* One file beside the configuration centre for checking LiveConfig. *)
EXTENDS LiveConfig

CONSTANT a

MCLocalFile == "redis" :> a
=============================================================================
