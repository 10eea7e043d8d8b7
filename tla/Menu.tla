--------------------------------- MODULE Menu ---------------------------------
(***************************************************************************)
(* The OSD's menu (menu.c): forms of entries, the file selector, and pages *)
(* of text, four rows of which are in view.  An action is an event of      *)
(* menu_do with the drawing that ends it, which counts the entries of a    *)
(* form that has just been opened and scrolls to the selected one.         *)
(*                                                                         *)
(* The labels, the values of the variables and the names of the files are  *)
(* left out: a directory is how many entries it has, and the entry the     *)
(* selector jumps to, that of the mounted image, may be any of them.       *)
(***************************************************************************)
EXTENDS Integers, Sequences, FiniteSets

CONSTANTS
  Forms,    \* the sequence of forms: [parent, back, items], the main form first
  Drives,   \* the drives a file selector is for
  DirSizes, \* how many entries a directory has, the "No Disk" or ".." included
  TextSizes \* how many lines a page of text has

FSEL == -1
TEXT == -2
Rows == 4

Form == 0 .. Len(Forms) - 1
Items(f) == Forms[f + 1].items
Item == [type : {"F", "S", "T", "L", "B", "R"}, arg : Nat]

ASSUME MenuAssumption ==
  /\ Len(Forms) \in Nat \ {0}
  /\ \A f \in Form :
       /\ Forms[f + 1].parent \in Form
       /\ Items(f) \in Seq(Item)
       /\ Len(Items(f)) >= 1
       /\ Forms[f + 1].back \in 1 .. Len(Items(Forms[f + 1].parent))
       /\ \A i \in 1 .. Len(Items(f)) : Items(f)[i].type = "S" => Items(f)[i].arg \in Form \ {0}
  /\ DirSizes \subseteq Nat \ {0}
  /\ TextSizes \subseteq Nat

(* A form is opened by one entry, of the form that is its parent. *)
ASSUME OneOpener ==
  \A p, q \in Form : \A i \in 1 .. Len(Items(p)), j \in 1 .. Len(Items(q)) :
    /\ Items(p)[i].type = "S" /\ Items(q)[j].type = "S" /\ Items(p)[i].arg = Items(q)[j].arg
    => p = q /\ i = j /\ Forms[Items(p)[i].arg + 1].parent = p

VARIABLES
  form, entry, entries, offset,        \* of menu_t
  parent, fsel_entry, drive,           \* of menu_fileselector
  text_parent, text_entry, text_nlines,\* of the text view
  openers                              \* history: where each form was opened from

view == <<form, entry, entries, offset>>
fsel == <<parent, fsel_entry, drive>>
text == <<text_parent, text_entry, text_nlines>>
menuVars == <<view, fsel, text, openers>>

-----------------------------------------------------------------------------
(* The scrolling rule: which offset shows entry e of n, going down (and    *)
(* jumping there) and going up.                                            *)
JumpsPast(n, e) ==
  IF n <= 4 \/ e <= 3 THEN 0 ELSE IF e < n - 2 THEN e - 3 ELSE n - 4
Jumps(n, e) ==
  IF n <= 5 \/ e <= 3 THEN 0 ELSE IF e < n - 2 THEN e - 3 ELSE n - 5
Climbs(n, e) ==
  IF n <= 5 \/ e <= 2 THEN 0 ELSE IF e < n - 3 THEN e - 2 ELSE n - 5

EntriesOf(f) == Len(Items(f)) + 1

(* menu_goto_form and the drawing after it. *)
Goto(f, e) ==
  /\ form' = f /\ entry' = e
  /\ entries' = EntriesOf(f)
  /\ offset' = Jumps(EntriesOf(f), e)

MenuInit ==
  /\ form = 0 /\ entry = 1
  /\ entries = EntriesOf(0)
  /\ offset = 0
  /\ parent = 0 /\ fsel_entry = 1
  /\ drive \in Drives
  /\ text_parent = 0 /\ text_entry = 0 /\ text_nlines = 0
  /\ openers = <<>>

-----------------------------------------------------------------------------
(* menu_entry_go. *)
Scrolls(s) ==
  /\ form = TEXT
  /\ LET max == IF text_nlines > Rows THEN text_nlines - Rows ELSE 0
         to  == offset + s
     IN  offset' = IF to < 0 THEN 0 ELSE IF to > max THEN max ELSE to
  /\ UNCHANGED <<form, entry, entries, fsel, text, openers>>

Wrapped(e) == IF e < 0 THEN entries + e ELSE IF e >= entries THEN e - entries ELSE e
Unusable(e) == form = 0 /\ e = 0
Stepped(s) ==
  IF Unusable(Wrapped(entry + s)) THEN Wrapped(Wrapped(entry + s) + s) ELSE Wrapped(entry + s)

Steps(s) ==
  /\ form # TEXT
  /\ entry' = Stepped(s)
  /\ offset' = IF s > 0 THEN Jumps(entries, Stepped(s)) ELSE Climbs(entries, Stepped(s))
  /\ UNCHANGED <<form, entries, fsel, text, openers>>

(* A page is not wrapped; at an end the rule of the other direction holds. *)
PageDown ==
  /\ form # TEXT
  /\ IF entry + Rows < entries
       THEN entry' = entry + Rows /\ offset' = Jumps(entries, entry + Rows)
       ELSE entry' = entries - 1 /\ offset' = Climbs(entries, entries - 1)
  /\ UNCHANGED <<form, entries, fsel, text, openers>>

PageUp ==
  /\ form # TEXT
  /\ IF entry - Rows >= 1
       THEN entry' = entry - Rows /\ offset' = Climbs(entries, entry - Rows)
       ELSE entry' = 1 /\ offset' = Jumps(entries, 1)
  /\ UNCHANGED <<form, entries, fsel, text, openers>>

Moves == \/ \E s \in {-1, 1, -Rows, Rows} : Scrolls(s)
         \/ Steps(1) \/ Steps(-1) \/ PageDown \/ PageUp

-----------------------------------------------------------------------------
(* menu_select. *)
Selected == Items(form)[entry]
Selects(type) == form \in Form /\ entry # 0 /\ Selected.type = type
Opened == openers' = Append(openers, <<form, entry>>)
Returned == openers' = IF openers = <<>> THEN <<>> ELSE SubSeq(openers, 1, Len(openers) - 1)

OpensForm ==
  /\ Selects("S")
  /\ Goto(Selected.arg, 1)
  /\ Opened /\ UNCHANGED <<fsel, text>>

OpensText(lines) ==
  /\ Selects("T")
  /\ form' = TEXT /\ entry' = 0 /\ entries' = -1 /\ offset' = 0
  /\ text_parent' = form /\ text_entry' = entry /\ text_nlines' = lines
  /\ Opened /\ UNCHANGED fsel

(* The file selector, on a directory of n entries, at its entry e. *)
Lists(n, e) ==
  /\ form' = FSEL
  /\ entries' = n + 1
  /\ entry' = e
  /\ offset' = Jumps(n + 1, e)

OpensSelector(n, e) ==
  /\ Selects("F")
  /\ Lists(n, e)
  /\ parent' = form /\ fsel_entry' = entry /\ drive' = Selected.arg
  /\ Opened /\ UNCHANGED text

OnFile == form = FSEL /\ entry # 0

EntersDirectory(n, e) ==
  /\ OnFile
  /\ Lists(n, e)
  /\ UNCHANGED <<fsel, text, openers>>

NoText == text_parent' = 0 /\ text_entry' = 0 /\ text_nlines' = 0

(* Back to where it was opened: from the selector, a text, a form's title. *)
LeavesSelector ==
  /\ form = FSEL
  /\ Goto(parent, fsel_entry)
  /\ Returned /\ UNCHANGED <<fsel, text>>

LeavesText ==
  /\ form = TEXT
  /\ Goto(text_parent, text_entry)
  /\ NoText
  /\ Returned /\ UNCHANGED fsel

(* menu_parent_entry: the entry of p that opens form f, or the one named. *)
Openers(p, f) == {i \in 1 .. Len(Items(p)) : Items(p)[i].type = "S" /\ Items(p)[i].arg = f}
NamedEntry(p, f) == Forms[f + 1].back
ParentEntry(p, f) ==
  IF Openers(p, f) = {} THEN Forms[f + 1].back
  ELSE CHOOSE i \in Openers(p, f) : \A j \in Openers(p, f) : i <= j

LeavesForm ==
  /\ form \in Form /\ entry = 0
  /\ Goto(Forms[form + 1].parent, ParentEntry(Forms[form + 1].parent, form))
  /\ Returned /\ UNCHANGED <<fsel, text>>

MenuNext ==
  \/ Moves
  \/ OpensForm
  \/ \E lines \in TextSizes : OpensText(lines)
  \/ \E n \in DirSizes : \E e \in 1 .. n : OpensSelector(n, e) \/ EntersDirectory(n, e)
  \/ LeavesSelector \/ LeavesText \/ LeavesForm

MenuSpec == MenuInit /\ [][MenuNext]_menuVars

-----------------------------------------------------------------------------
(* The selected entry is one of the four rows drawn, the rows drawn are    *)
(* entries that exist (the selector reads dir->files[] there), the main    *)
(* form never selects its title, and a text is not scrolled past its end.  *)
SelectedShown ==
  IF form = TEXT THEN offset = 0 \/ offset + Rows <= text_nlines
  ELSE /\ entry < entries
       /\ offset + 1 <= entries - 1
       /\ offset = 0 \/ offset + Rows <= entries - 1
       /\ entry = 0 \/ (offset < entry /\ entry <= offset + Rows)
       /\ form = 0 => entry # 0

(* Whatever is left, a form by its title, a text, or the file selector,    *)
(* the menu comes back to the entry it was opened from, though three       *)
(* mechanisms remember it (menu_parent_entry, text_entry, fsel_entry).     *)
ReturnsToOpener ==
  [][Len(openers') < Len(openers) =>
       <<form', entry'>> = openers[Len(openers)]]_menuVars
=============================================================================
