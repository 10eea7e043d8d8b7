------------------------------- MODULE MCInput -------------------------------
(***************************************************************************)
(* Keyboard.tla with two slots: one device of any kind, or a joystick in    *)
(* each.  A keyboard beside a second device is left out.                   *)
(***************************************************************************)
EXTENDS Keyboard

TwoSlots == {0, 1}
R(m, a, b) == [mod |-> m, keys |-> <<a, b>>]
SomeReports ==
  {R(FALSE, "none", "none"), R(FALSE, "down", "none"), R(TRUE, "esc", "down"),
   R(FALSE, "f12", "none")}
PluggedIn ==
  {{<<0, k>>} : k \in Kinds} \cup {{<<0, "joystick">>, <<1, "joystick">>}, {<<1, "joystick">>}}
DownKey == {"down"}
=============================================================================
