-------------------------- MODULE MCMaskAdmission --------------------------
(* Three emergency stops, so that one can overtake the answer to another. *)
EXTENDS MaskAdmission
=============================================================================
