------------------------------ MODULE MCSdPath ------------------------------
(***************************************************************************)
(* SdPath.tla with sectors of two beats: two clients, a client and the     *)
(* firmware, the firmware.                                                 *)
(***************************************************************************)
EXTENDS SdPath

CONSTANTS s1, s2

Apart == [clients |-> {0, 1}, sectors |-> {s1, s2}, ops |-> {}]
Shared == [clients |-> {0}, sectors |-> {s1}, ops |-> {"read", "write", "insert"}]
Firmware == [clients |-> {}, sectors |-> {s1, s2}, ops |-> {"read", "write"}]
Reading == [clients |-> {0, 1}, sectors |-> {s1}, ops |-> {"read"}]
Writing == [clients |-> {0}, sectors |-> {s1}, ops |-> {"write"}]

TwoSectors == {s1, s2}
ManyMixes == {Apart, Shared, Firmware}
OnlyReading == {Reading}
OnlyWriting == {Writing}
=============================================================================
