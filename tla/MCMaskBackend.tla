--------------------------- MODULE MCMaskBackend ---------------------------
(* Every kind of attachment, connected again and again, with failing jobs. *)
EXTENDS MaskBackend
=============================================================================
