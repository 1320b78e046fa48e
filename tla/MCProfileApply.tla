--------------------------- MODULE MCProfileApply ---------------------------
(* Three contexts for one device: two that map it differently with different *)
(* rollover groups, and one without an effective mapping.                    *)
EXTENDS ProfileApply

Resolutions ==
    [c \in {"desk", "game", "idle"} |->
        CASE c = "desk" -> [grab |-> "g1", map |-> "m1", roll |-> "none"]
          [] c = "game" -> [grab |-> "g2", map |-> "m2", roll |-> "r2"]
          [] OTHER -> [grab |-> "-", map |-> "m0", roll |-> "none"]]
=============================================================================
