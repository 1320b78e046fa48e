------------------------ MODULE MCMaskReservation ------------------------
(* One USB attachment; the bound on faults is in the configuration. *)
EXTENDS MaskReservation
=============================================================================
