------------------------------ MODULE MCCombo ------------------------------
(* A keyboard k and a mouse m, combos that share their keys, and three       *)
(* combo sets between which the session switches.                            *)
EXTENDS Combo, TLC

CONSTANTS k, m

MCDevices == {k, m}
MCBindings == {"k_ctrl", "k_a", "m_b", "m_wheel"}
MCDeviceOf == [b \in MCBindings |-> IF b \in {"k_ctrl", "k_a"} THEN k ELSE m]
MCNames == {"ctrl", "a", "b", "wheel"}
MCNameOf == "k_ctrl" :> "ctrl" @@ "k_a" :> "a" @@ "m_b" :> "b" @@ "m_wheel" :> "wheel"

On(d, n) == [device |-> d, name |-> n]

Combo(steps, recall, restore, isHeld) ==
  [steps |-> steps, recall |-> recall, restore |-> restore, held |-> isHeld]

\* ctrl and the mouse button, with recall and restore
Chord == Combo(<<{On(k, "ctrl"), On(m, "b")}>>, TRUE, {"ctrl"}, TRUE)

\* a on any device, then the mouse button together with ctrl
TwoSteps == Combo(<<{On(AnyDevice, "a")}, {On(m, "b"), On(k, "ctrl")}>>, FALSE, {}, TRUE)

\* ctrl and a wheel tick, then a
WheelFirst == Combo(<<{On(k, "ctrl"), On(m, "wheel")}, {On(k, "a")}>>, FALSE, {}, FALSE)

\* ctrl and a wheel tick, with recall and restore
Wheel == Combo(<<{On(k, "ctrl"), On(m, "wheel")}>>, TRUE, {"ctrl"}, TRUE)

\* ctrl and a, recalled and not restored, as in the built-in emergency combo
Emergency == Combo(<<{On(k, "ctrl"), On(k, "a")}>>, TRUE, {}, TRUE)

MCConfigurations ==
  {"c1" :> Chord @@ "c2" :> TwoSteps @@ "c3" :> WheelFirst,
   "c1" :> Chord @@ "c2" :> Emergency @@ "c3" :> Wheel,
   <<>>}
=============================================================================
