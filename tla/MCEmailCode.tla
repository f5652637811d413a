----------------------------- MODULE MCEmailCode -----------------------------
(* EmailCode needs no definition beyond the model values of the .cfg files. *)
EXTENDS EmailCode, TLC

=============================================================================
