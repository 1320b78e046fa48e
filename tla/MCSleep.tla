------------------------------- MODULE MCSleep -------------------------------
(***************************************************************************)
(* Sleep for TLC: the queue bound lets two suspends and their wakes overlap. *)
(***************************************************************************)
EXTENDS Sleep
=============================================================================
