------------------------------ MODULE MCSuperkey ------------------------------
(***************************************************************************)
(* Superkey for TLC.  The slots press different outputs, and one output is *)
(* shared, so that press counts matter.                                    *)
(***************************************************************************)
EXTENDS Superkey

\* All four slots; the tap list awaits an action between two keys, the hold list
\* presses at once.
FullConfig ==
    [tap |-> <<{"a"}, {"b"}>>, double_tap |-> <<{"a"}>>, hold |-> <<{"b"}>>,
     tap_hold |-> <<{"a", "b"}>>]

\* A hold list that awaits a macro before it presses its second key, and no tap.
SlowHoldConfig ==
    [tap |-> <<>>, double_tap |-> <<>>, hold |-> <<{"a"}, {"b"}>>, tap_hold |-> <<>>]

\* Tap + Hold alone, with a slow list, next to a tap.
SlowTapHoldConfig ==
    [tap |-> <<{"b"}>>, double_tap |-> <<>>, hold |-> <<>>, tap_hold |-> <<{"a"}, {"b"}>>]

MCConfigs == {FullConfig, SlowHoldConfig, SlowTapHoldConfig}
=============================================================================
