------------------------------- MODULE MCLoader -------------------------------
(***************************************************************************)
(* Loader.tla with a menu of two forms that scroll, an image larger than   *)
(* the two sectors that fit and one of less than a sector, a ring of two.  *)
(***************************************************************************)
EXTENDS Loader, TLC

I(t, a) == [type |-> t, arg |-> a]
TwoForms ==
  << [parent |-> 0, back |-> 1,
      items |-> <<I("F", 5), I("F", 4), I("L", 0), I("S", 1), I("T", 0), I("B", 0)>>],
     [parent |-> 0, back |-> 5,
      items |-> <<I("F", 4), I("L", 0), I("B", 0), I("L", 0)>>] >>
TwoDrives == {4, 5}
Sizes == ("a" :> 5) @@ ("b" :> 1)
NoBytes == <<"none", 0>>
AllSectors == {NoBytes} \cup ({"a", "b"} \X {0, 1})
AllEntries == 0 .. 3
=============================================================================
