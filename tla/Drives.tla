-------------------------------- MODULE Drives --------------------------------
(***************************************************************************)
(* The tape player (TapeDeck.tla) and the hard disk (HardDisk.tla), which  *)
(* the same tasks of the firmware serve.  Bound: only one of the two has   *)
(* an image and is used in a behaviour; how their requests share the SD    *)
(* path is SdPath.tla's.                                                   *)
(***************************************************************************)
EXTENDS TapeDeck, HardDisk

ASSUME DrivesAssumption == Outside = Blank

VARIABLE used \* the drive

deckVars == <<tapeVars, spoilt>>
unitVars == <<ideVars, card, calm>>
drivesVars == <<deckVars, unitVars, svcVars, osdVars, used>>

DrivesInit ==
  /\ Init /\ DiskInit /\ used \in {"tape", "disk"}
  /\ used = "tape" => ~wprot /\ calm

OnTape(A) == used = "tape" /\ A /\ UNCHANGED <<unitVars, used>>
OnDisk(A) == used = "disk" /\ A /\ UNCHANGED <<deckVars, used>>

DrivesNext == OnTape(Next) \/ OnDisk(DiskNext)

(* Tasks that can run do, the FPGA is clocked, a transfer ends; neither the *)
(* user nor the software need go on, nor need a reading of the firmware end *)
(* (ReadingsEnd).                                                          *)
DrivesSpec ==
  /\ DrivesInit /\ [][DrivesNext]_drivesVars
  /\ WF_drivesVars(OnTape(Task) \/ OnDisk(DiskTask))
  /\ WF_drivesVars(OnTape(Fpga) \/ OnDisk(DiskFpga))
  /\ WF_drivesVars(OnTape(Player))
  /\ WF_drivesVars(OnTape(Works) \/ OnDisk(DiskWorks))
=============================================================================
