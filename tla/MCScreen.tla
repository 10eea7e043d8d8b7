------------------------------ MODULE MCScreen ------------------------------
(***************************************************************************)
(* Screen.tla on a line of three tiles and a row of two lines.             *)
(***************************************************************************)
EXTENDS Screen

NameOf == [want : {"name"}, row : {0}, tile : 0 .. Tiles - 1]
Names == NameOf \cup {NoByte}
PatternByte == [want : {"pattern"}, name : Names, lrow : 0 .. TileLines - 1]
ColourByte == [want : {"colour"}, name : Names, lrow : 0 .. TileLines - 1]
TestByte == [want : {"test"}, i : 0 .. 3]
OwnByte == [want : {"cpu"}, i : {0}]

Nothing == [want |-> "nothing read"]
OneBank == {0}
Rows == Tables \cup {"low", "top"}
Places == NameOf \cup PatternByte \cup ColourByte \cup TestByte
AllBytes == Places \cup OwnByte \cup {Nothing}
Unwritten(a) == a.col

Top(i) == [bank |-> 0, row |-> "top", col |-> [want |-> "test", i |-> i]]
Low == [bank |-> 0, row |-> "low", col |-> [want |-> "test", i |-> 0]]
RamCells == {Top(i) : i \in 0 .. 3} \cup {Low}
CellsOfCpu == {Top(0)}
TestAdr == [i \in 0 .. 3 |-> Top(i)]
TestPat == [i \in 0 .. 3 |-> [want |-> "test", i |-> i]]
AllModes == 0 .. 3
TwoTimes == {<<1, 115>>, <<2, 7>>}
=============================================================================
