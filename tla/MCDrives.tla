------------------------------- MODULE MCDrives -------------------------------
(***************************************************************************)
(* Drives.tla.  The tape has sectors of two bytes and bytes of a bit; file *)
(* "a" is three whole sectors, with a header's bytes that are not aligned  *)
(* and a header at the end, and file "b" a header and a byte.  The disk    *)
(* has sectors of four bytes, a count of 0 that means two sectors, an      *)
(* image of MaxSects sectors and one of one.                               *)
(***************************************************************************)
EXTENDS Drives, TLC

TwoMagic == << <<0>>, <<1>> >>
Bits(bits) == [i \in DOMAIN bits |-> <<bits[i]>>]
TwoFiles == ("a" :> Bits(<<1, 0, 1, 1, 0, 1>>)) @@ ("b" :> Bits(<<0, 1, 0>>))
AByte(place, offset) == FileByte(place, offset)
NoPlace == <<"none", 0>>

Sizes == ("a" :> MaxSects) @@ ("b" :> 1)
Unread == <<"none", 0, 0>>
=============================================================================
