----------------------------- MODULE LoaderProofs -----------------------------
(***************************************************************************)
(* What menu.c guarantees for any forms, directories and texts: the        *)
(* selected entry exists and is one of the rows that are drawn, and what   *)
(* is left goes back to the entry it was opened from.  What poke.v         *)
(* guarantees for any depth of its ring, any bytes and however the CPU and *)
(* the ROM disk's loader leave it slots: it is the queue of PokeQueue.tla. *)
(* And that the composition keeps both: a step of Loader.tla is a step of  *)
(* the menu or leaves it alone, and a clock of the poke queue or leaves it *)
(* alone.  Last what the composition guarantees of memory: a ROM disk that *)
(* is present is the open image, and a program that is run is all there.   *)
(***************************************************************************)
EXTENDS Loader, SequenceTheorems, WellFoundedInduction, TLAPS

-----------------------------------------------------------------------------
(* The menu. *)

(* Entry e of n is in view at offset o, and so are only entries that exist. *)
InView(n, e, o) ==
  /\ n \in Nat /\ e \in 0 .. n - 1 /\ o \in Nat
  /\ o + 1 <= n - 1
  /\ o = 0 \/ o + Rows <= n - 1
  /\ e = 0 \/ (o < e /\ e <= o + Rows)

EntryOf(f, e) == f \in Form /\ e \in 1 .. Len(Items(f))

(* What is remembered of a form is an entry of it. *)
MenuInv ==
  /\ form \in Form \cup {FSEL, TEXT}
  /\ form \in Form => entries = EntriesOf(form)
  /\ form = FSEL => EntryOf(parent, fsel_entry)
  /\ form = TEXT => /\ EntryOf(text_parent, text_entry) /\ text_nlines \in Nat
                    /\ offset \in Nat /\ (offset = 0 \/ offset + Rows <= text_nlines)
  /\ form # TEXT => InView(entries, entry, offset)
  /\ form = 0 => entry # 0

-----------------------------------------------------------------------------
(* The scrolling rule, in both directions. *)
LEMMA JumpsInView ==
  ASSUME NEW n \in Nat, n >= 2, NEW e \in 0 .. n - 1
  PROVE  InView(n, e, Jumps(n, e))
BY DEF InView, Jumps, Rows

LEMMA ClimbsInView ==
  ASSUME NEW n \in Nat, n >= 2, NEW e \in 0 .. n - 1
  PROVE  InView(n, e, Climbs(n, e))
BY DEF InView, Climbs, Rows

LEMMA FormFacts ==
  ASSUME NEW f \in Form
  PROVE  /\ f \in Nat /\ f # FSEL /\ f # TEXT
         /\ Items(f) \in Seq(Item)
         /\ EntriesOf(f) \in Nat /\ EntriesOf(f) >= 2
         /\ Forms[f + 1].parent \in Form
         /\ \A i \in 1 .. Len(Items(f)) : /\ Items(f)[i] \in Item
                                          /\ Items(f)[i].type = "S" => Items(f)[i].arg \in Form \ {0}
<1>1. Len(Forms) \in Nat
  BY MenuAssumption
<1>2. f \in Nat /\ f # FSEL /\ f # TEXT
  BY <1>1 DEF Form, FSEL, TEXT
<1>3. /\ Items(f) \in Seq(Item) /\ Len(Items(f)) >= 1 /\ Forms[f + 1].parent \in Form
      /\ \A i \in 1 .. Len(Items(f)) : Items(f)[i].type = "S" => Items(f)[i].arg \in Form \ {0}
  BY MenuAssumption
<1>4. QED
  BY <1>2, <1>3 DEF EntriesOf

LEMMA MainForm == 0 \in Form
BY MenuAssumption DEF Form

LEMMA Apart == FSEL \notin Form /\ TEXT \notin Form /\ FSEL # TEXT /\ FSEL # 0 /\ TEXT # 0
<1>1. Len(Forms) \in Nat
  BY MenuAssumption
<1>2. QED
  BY <1>1 DEF Form, FSEL, TEXT

(* A form is opened at one of its entries. *)
LEMMA GotoInView ==
  ASSUME NEW f \in Form, NEW e, EntryOf(f, e), Goto(f, e)
  PROVE  MenuInv'
<1>1. EntriesOf(f) \in Nat /\ EntriesOf(f) >= 2 /\ e \in 0 .. EntriesOf(f) - 1 /\ e # 0
  BY FormFacts DEF EntryOf, EntriesOf
<1>2. InView(EntriesOf(f), e, Jumps(EntriesOf(f), e))
  BY <1>1, JumpsInView
<1>3. /\ form' = f /\ entry' = e /\ entries' = EntriesOf(f)
      /\ offset' = Jumps(EntriesOf(f), e)
  BY DEF Goto
<1>4. InView(entries, entry, offset)'
  BY <1>2, <1>3 DEF InView
<1>5. EntriesOf(form)' = EntriesOf(f)
  BY <1>3 DEF EntriesOf, Items
<1>6. QED
  BY <1>1, <1>3, <1>4, <1>5, FormFacts DEF MenuInv

(* Of the entries that open a form there is a first one. *)
LEMMA LeastOpener ==
  ASSUME NEW p, NEW f, Openers(p, f) # {}
  PROVE  \E i \in Openers(p, f) : \A j \in Openers(p, f) : i <= j
<1>1. Openers(p, f) \subseteq Nat
  BY DEF Openers
<1>2. PICK i \in Openers(p, f) : \A j \in Openers(p, f) : <<j, i>> \notin OpToRel(<, Nat)
  BY <1>1, NatLessThanWellFounded, WFMin, Zenon
<1>3. \A j \in Openers(p, f) : ~(j < i)
  BY <1>1, <1>2 DEF OpToRel
<1>4. QED
  BY <1>1, <1>3

-----------------------------------------------------------------------------
(* The cursor. *)
LEMMA StepsKeeps ==
  ASSUME MenuInv, NEW s \in {-1, 1}, Steps(s)
  PROVE  MenuInv'
<1>1. /\ form # TEXT /\ form \in Form \cup {FSEL}
      /\ entries \in Nat /\ entry \in 0 .. entries - 1
      /\ UNCHANGED <<form, entries, fsel, text>>
  BY DEF Steps, MenuInv, InView
<1>2. entries >= 2
  BY DEF MenuInv, InView, Steps
<1>3. Stepped(s) \in 0 .. entries - 1 /\ (form = 0 => Stepped(s) # 0)
  <2>1. \A e \in -1 .. entries : Wrapped(e) \in 0 .. entries - 1
    BY <1>1, <1>2 DEF Wrapped
  <2>2. entry + s \in -1 .. entries
    BY <1>1
  <2>3. CASE Unusable(Wrapped(entry + s))
    <3>1. Stepped(s) = Wrapped(s)
      BY <2>3 DEF Stepped, Unusable
    <3>2. QED
      BY <1>1, <1>2, <3>1 DEF Wrapped
  <2>4. CASE ~Unusable(Wrapped(entry + s))
    BY <2>1, <2>2, <2>4 DEF Stepped, Unusable
  <2>5. QED
    BY <2>3, <2>4
<1>4. entry' = Stepped(s) /\ offset' \in {Jumps(entries, Stepped(s)), Climbs(entries, Stepped(s))}
  BY DEF Steps
<1>5. InView(entries, entry', offset')
  BY <1>1, <1>2, <1>3, <1>4, JumpsInView, ClimbsInView
<1>6. QED
  BY <1>1, <1>3, <1>4, <1>5 DEF MenuInv, InView, EntryOf, EntriesOf, Items, fsel, text

LEMMA PagesKeep ==
  ASSUME MenuInv, PageDown \/ PageUp
  PROVE  MenuInv'
<1>1. /\ form # TEXT /\ form \in Form \cup {FSEL}
      /\ entries \in Nat /\ entries >= 2 /\ entry \in 0 .. entries - 1
      /\ UNCHANGED <<form, entries, fsel, text>>
  BY DEF PageDown, PageUp, MenuInv, InView
<1>2. entry' \in 1 .. entries - 1
  BY <1>1 DEF PageDown, PageUp, Rows
<1>3. offset' \in {Jumps(entries, entry'), Climbs(entries, entry')}
  BY DEF PageDown, PageUp
<1>4. InView(entries, entry', offset') /\ entry' # 0
  BY <1>1, <1>2, <1>3, JumpsInView, ClimbsInView
<1>5. QED
  BY <1>1, <1>4 DEF MenuInv, InView, EntryOf, EntriesOf, Items, fsel, text

LEMMA ScrollsKeeps ==
  ASSUME MenuInv, NEW s \in Int, Scrolls(s)
  PROVE  MenuInv'
<1>1. /\ form = TEXT /\ text_nlines \in Nat /\ offset \in Nat
      /\ UNCHANGED <<form, entry, entries, fsel, text>>
  BY DEF Scrolls, MenuInv
<1>2. offset' \in Nat /\ (offset' = 0 \/ offset' + Rows <= text_nlines)
  BY <1>1 DEF Scrolls, Rows
<1>3. form \notin Form /\ form # FSEL /\ form # 0
  BY <1>1, Apart
<1>4. QED
  BY <1>1, <1>2, <1>3 DEF MenuInv, EntryOf, Items, text

-----------------------------------------------------------------------------
(* What is opened, and what is left. *)
LEMMA SelectedFacts ==
  ASSUME MenuInv, NEW type, Selects(type)
  PROVE  EntryOf(form, entry) /\ Selected = Items(form)[entry] /\ Selected \in Item
         /\ (type = "S" => Selected.arg \in Form \ {0})
<1>1. form \in Form /\ entry # 0 /\ Items(form)[entry].type = type
  BY DEF Selects, Selected
<1>2. entry \in 1 .. Len(Items(form))
  BY <1>1, FormFacts DEF MenuInv, InView, EntriesOf
<1>3. QED
  BY <1>1, <1>2, FormFacts DEF EntryOf, Selected

LEMMA ListsInView ==
  ASSUME NEW n \in Nat, NEW e \in 1 .. n, Lists(n, e), EntryOf(parent', fsel_entry')
  PROVE  MenuInv'
<1>1. /\ form' = FSEL /\ entries' = n + 1 /\ entry' = e /\ offset' = Jumps(n + 1, e)
  BY DEF Lists
<1>2. InView(n + 1, e, Jumps(n + 1, e))
  BY JumpsInView
<1>3. InView(entries, entry, offset)'
  BY <1>1, <1>2 DEF InView
<1>4. FSEL \notin Form /\ FSEL # TEXT /\ FSEL # 0
  BY Apart
<1>5. QED
  BY <1>1, <1>3, <1>4 DEF MenuInv, EntryOf, Items

LEMMA OpensKeep ==
  ASSUME MenuInv, OpensForm \/ (\E lines \in TextSizes : OpensText(lines))
  PROVE  MenuInv'
<1>1. CASE OpensForm
  <2>1. Selected.arg \in Form
    BY <1>1, SelectedFacts DEF OpensForm
  <2>2. EntryOf(Selected.arg, 1)
    BY <2>1, FormFacts DEF EntryOf, EntriesOf
  <2>3. QED
    BY <1>1, <2>1, <2>2, GotoInView DEF OpensForm
<1>2. ASSUME NEW lines \in TextSizes, OpensText(lines) PROVE MenuInv'
  <2>1. EntryOf(form, entry)
    BY <1>2, SelectedFacts DEF OpensText
  <2>2. /\ form' = TEXT /\ offset' = 0
        /\ text_parent' = form /\ text_entry' = entry /\ text_nlines' = lines
    BY <1>2 DEF OpensText
  <2>3. lines \in Nat
    BY MenuAssumption
  <2>4. TEXT \notin Form /\ TEXT # FSEL /\ TEXT # 0
    BY Apart
  <2>5. QED
    BY <2>1, <2>2, <2>3, <2>4 DEF MenuInv, EntryOf, Items
<1>3. QED
  BY <1>1, <1>2

LEMMA SelectorKeeps ==
  ASSUME MenuInv, NEW n \in DirSizes, NEW e \in 1 .. n, OpensSelector(n, e) \/ EntersDirectory(n, e)
  PROVE  MenuInv'
<1>1. n \in Nat
  BY MenuAssumption
<1>2. CASE OpensSelector(n, e)
  <2>1. EntryOf(form, entry)
    BY <1>2, SelectedFacts DEF OpensSelector
  <2>2. EntryOf(parent', fsel_entry') /\ Lists(n, e)
    BY <1>2, <2>1 DEF OpensSelector, EntryOf, Items
  <2>3. QED
    BY <1>1, <2>2, ListsInView
<1>3. CASE EntersDirectory(n, e)
  <2>1. EntryOf(parent', fsel_entry') /\ Lists(n, e)
    BY <1>3 DEF EntersDirectory, OnFile, MenuInv, EntryOf, Items, fsel
  <2>2. QED
    BY <1>1, <2>1, ListsInView
<1>4. QED
  BY <1>2, <1>3

LEMMA LeavesKeep ==
  ASSUME MenuInv, LeavesSelector \/ LeavesText \/ LeavesForm
  PROVE  MenuInv'
<1>1. CASE LeavesSelector
  BY <1>1, GotoInView DEF LeavesSelector, MenuInv, EntryOf
<1>2. CASE LeavesText
  <2>1. form = TEXT /\ Goto(text_parent, text_entry)
    BY <1>2 DEF LeavesText
  <2>2. EntryOf(text_parent, text_entry)
    BY <2>1 DEF MenuInv
  <2>3. QED
    BY <2>1, <2>2, GotoInView DEF EntryOf
<1>3. CASE LeavesForm
  <2> DEFINE p == Forms[form + 1].parent
  <2>1. form \in Form /\ Goto(p, ParentEntry(p, form))
    BY <1>3 DEF LeavesForm
  <2>2. p \in Form
    BY <2>1, FormFacts
  <2>3. Forms[form + 1].back \in 1 .. Len(Items(p))
    BY <2>1, MenuAssumption
  <2> HIDE DEF p
  <2>4. ParentEntry(p, form) \in 1 .. Len(Items(p))
    <3>1. CASE Openers(p, form) = {}
      BY <2>3, <3>1 DEF ParentEntry
    <3>2. CASE Openers(p, form) # {}
      <4>1. \E i \in Openers(p, form) : \A j \in Openers(p, form) : i <= j
        BY <3>2, LeastOpener
      <4>2. ParentEntry(p, form) \in Openers(p, form)
        BY <3>2, <4>1 DEF ParentEntry
      <4>3. QED
        BY <4>2 DEF Openers
    <3>3. QED
      BY <3>1, <3>2
  <2>5. QED
    BY <2>1, <2>2, <2>4, GotoInView DEF EntryOf
<1>4. QED
  BY <1>1, <1>2, <1>3

-----------------------------------------------------------------------------
(* Each view has the entries of what it shows, and the selected one is in  *)
(* view: the inductive form of SelectedShown.                              *)
THEOREM MenuInvariant == MenuSpec => []MenuInv
<1>1. MenuInit => MenuInv
  <2> SUFFICES ASSUME MenuInit PROVE MenuInv
    OBVIOUS
  <2>1. form = 0 /\ entry = 1 /\ entries = EntriesOf(0) /\ offset = 0
    BY DEF MenuInit
  <2>2. EntriesOf(0) \in Nat /\ EntriesOf(0) >= 2 /\ 0 # FSEL /\ 0 # TEXT
    BY MainForm, FormFacts
  <2>3. InView(entries, entry, offset)
    BY <2>1, <2>2 DEF InView, Rows
  <2>4. QED
    BY <2>1, <2>2, <2>3, MainForm DEF MenuInv
<1>2. MenuInv /\ [MenuNext]_menuVars => MenuInv'
  <2> SUFFICES ASSUME MenuInv, [MenuNext]_menuVars PROVE MenuInv'
    OBVIOUS
  <2>1. CASE Moves
    <3>1. ASSUME NEW s \in {-1, 1, -Rows, Rows}, Scrolls(s) PROVE MenuInv'
      <4>1. s \in Int
        BY DEF Rows
      <4>2. QED
        BY <3>1, <4>1, ScrollsKeeps
    <3>2. QED
      BY <2>1, <3>1, StepsKeeps, PagesKeep DEF Moves
  <2>2. CASE OpensForm \/ \E lines \in TextSizes : OpensText(lines)
    BY <2>2, OpensKeep
  <2>3. ASSUME NEW n \in DirSizes, NEW e \in 1 .. n, OpensSelector(n, e) \/ EntersDirectory(n, e)
        PROVE  MenuInv'
    BY <2>3, SelectorKeeps
  <2>4. CASE LeavesSelector \/ LeavesText \/ LeavesForm
    BY <2>4, LeavesKeep
  <2>5. CASE UNCHANGED menuVars
    BY <2>5 DEF menuVars, view, fsel, text, MenuInv, EntryOf, EntriesOf, Items, InView
  <2>6. QED
    BY <2>1, <2>2, <2>3, <2>4, <2>5 DEF MenuNext
<1>3. QED
  BY <1>1, <1>2, PTL DEF MenuSpec

(* The selected entry is always drawn, and nothing is drawn that is not there. *)
THEOREM SelectedShownHolds == MenuSpec => []SelectedShown
<1>1. MenuInv => SelectedShown
  BY DEF MenuInv, InView, SelectedShown
<1>2. QED
  BY <1>1, MenuInvariant, PTL

-----------------------------------------------------------------------------
(* The way back.  The history is a way from the main form: an entry of it *)
(* is on the form that the entry before it opened.                         *)
Opener(f) == <<Forms[f + 1].parent, ParentEntry(Forms[f + 1].parent, f)>>
Leads(way, k, f) == (f = 0 => k = 0) /\ (f # 0 => k >= 1 /\ way[k] = Opener(f))
Linked(way) ==
  /\ way \in Seq(Form \X Nat)
  /\ \A k \in 1 .. Len(way) : Leads(way, k - 1, way[k][1])
Last(way) == way[Len(way)]

(* The history ends where menu_t, the selector or the text view says. *)
PathInv ==
  /\ Linked(openers)
  /\ form \in Form => Leads(openers, Len(openers), form)
  /\ form = FSEL => openers # <<>> /\ Last(openers) = <<parent, fsel_entry>>
  /\ form = TEXT => openers # <<>> /\ Last(openers) = <<text_parent, text_entry>>

LEMMA LeadsSame ==
  ASSUME NEW way, NEW other, NEW k \in Nat, NEW f, Leads(way, k, f), k >= 1 => other[k] = way[k]
  PROVE  Leads(other, k, f)
BY DEF Leads

LEMMA PathGrows ==
  ASSUME NEW way, Linked(way), NEW f \in Form, NEW e \in Nat, Leads(way, Len(way), f)
  PROVE  LET longer == Append(way, <<f, e>>)
         IN  Linked(longer) /\ longer # <<>> /\ Last(longer) = <<f, e>> /\ Len(longer) = Len(way) + 1
<1> DEFINE longer == Append(way, <<f, e>>)
<1>1. /\ way \in Seq(Form \X Nat) /\ Len(way) \in Nat /\ <<f, e>> \in Form \X Nat
  BY LenProperties DEF Linked
<1>2. /\ longer \in Seq(Form \X Nat) /\ Len(longer) = Len(way) + 1
      /\ \A k \in 1 .. Len(way) : longer[k] = way[k]
      /\ longer[Len(way) + 1] = <<f, e>>
  BY <1>1, AppendProperties
<1> HIDE DEF longer
<1>3. ASSUME NEW k \in 1 .. Len(way) + 1 PROVE Leads(longer, k - 1, longer[k][1])
  <2>1. CASE k = Len(way) + 1
    BY <1>1, <1>2, <2>1 DEF Leads
  <2>2. CASE k # Len(way) + 1
    <3>1. k \in 1 .. Len(way) /\ Leads(way, k - 1, way[k][1])
      BY <1>1, <2>2 DEF Linked
    <3>2. longer[k] = way[k]
      BY <1>2, <3>1
    <3>3. k - 1 \in Nat /\ (k - 1 >= 1 => k - 1 \in 1 .. Len(way))
      BY <1>1, <3>1
    <3>4. k - 1 >= 1 => longer[k - 1] = way[k - 1]
      BY <1>2, <3>3
    <3>5. QED
      BY <3>1, <3>2, <3>3, <3>4, LeadsSame
  <2>3. QED
    BY <2>1, <2>2
<1>4. Linked(longer) /\ longer # <<>> /\ Last(longer) = <<f, e>> /\ Len(longer) = Len(way) + 1
  BY <1>1, <1>2, <1>3, EmptySeq DEF Linked, Last
<1>5. QED
  BY <1>4 DEF longer

LEMMA PathShrinks ==
  ASSUME NEW way, Linked(way), way # <<>>
  PROVE  LET shorter == SubSeq(way, 1, Len(way) - 1)
         IN  /\ Linked(shorter) /\ Leads(shorter, Len(shorter), Last(way)[1])
             /\ Last(way)[1] \in Form
<1> DEFINE shorter == SubSeq(way, 1, Len(way) - 1)
<1>1. way \in Seq(Form \X Nat) /\ Len(way) \in Nat /\ Len(way) >= 1
  BY LenProperties, EmptySeq DEF Linked
<1>2. \A k \in 1 .. Len(way) : way[k] \in Form \X Nat
  BY <1>1, ElementOfSeq
<1>3. /\ shorter \in Seq(Form \X Nat) /\ Len(shorter) = Len(way) - 1
      /\ \A k \in 1 .. Len(way) - 1 : shorter[k] = way[k]
  <2> DEFINE n == Len(way) - 1
  <2>1. n \in Int /\ 1 \in Int /\ \A i \in 1 .. n : way[i] \in Form \X Nat
    BY <1>1, <1>2
  <2> HIDE DEF n
  <2>2. /\ SubSeq(way, 1, n) \in Seq(Form \X Nat)
        /\ Len(SubSeq(way, 1, n)) = IF 1 <= n THEN n - 1 + 1 ELSE 0
        /\ \A i \in 1 .. n - 1 + 1 : SubSeq(way, 1, n)[i] = way[1 + i - 1]
    BY <2>1, SubSeqProperties
  <2>3. n \in Nat /\ n - 1 + 1 = n /\ \A i \in 1 .. n : 1 + i - 1 = i
    BY <1>1 DEF n
  <2>4. \A i \in 1 .. n : SubSeq(way, 1, n)[i] = way[i]
    BY <2>2, <2>3
  <2>5. Len(SubSeq(way, 1, n)) = n
    BY <2>2, <2>3
  <2>6. QED
    BY <2>2, <2>4, <2>5 DEF n
<1> HIDE DEF shorter
<1>4. \A k \in 1 .. Len(way) - 1 : Leads(shorter, k - 1, shorter[k][1])
  <2> SUFFICES ASSUME NEW k \in 1 .. Len(way) - 1 PROVE Leads(shorter, k - 1, shorter[k][1])
    OBVIOUS
  <2>1. k \in 1 .. Len(way) /\ Leads(way, k - 1, way[k][1])
    BY <1>1 DEF Linked
  <2>2. shorter[k] = way[k]
    BY <1>3
  <2>3. k - 1 \in Nat /\ (k - 1 >= 1 => k - 1 \in 1 .. Len(way) - 1)
    BY <1>1
  <2>4. k - 1 >= 1 => shorter[k - 1] = way[k - 1]
    BY <1>3, <2>3
  <2>5. QED
    BY <2>1, <2>2, <2>3, <2>4, LeadsSame
<1>5. Leads(shorter, Len(way) - 1, Last(way)[1])
  <2>1. Leads(way, Len(way) - 1, way[Len(way)][1])
    BY <1>1 DEF Linked
  <2>2. QED
    BY <1>1, <1>3, <2>1 DEF Leads, Last
<1>6. QED
  BY <1>1, <1>2, <1>3, <1>4, <1>5 DEF shorter, Linked, Last

(* What is opened is remembered ... *)
LEMMA OpenedRemembers ==
  ASSUME MenuInv, PathInv, EntryOf(form, entry), Opened
  PROVE  /\ Linked(openers') /\ openers' # <<>> /\ Last(openers') = <<form, entry>>
         /\ Len(openers') = Len(openers) + 1 /\ Len(openers) \in Nat
<1>1. Linked(openers) /\ Leads(openers, Len(openers), form) /\ form \in Form
  BY DEF PathInv, EntryOf
<1>2. entry \in Nat
  BY <1>1, FormFacts DEF EntryOf
<1>3. openers' = Append(openers, <<form, entry>>)
  BY DEF Opened
<1>4. Len(openers) \in Nat
  BY <1>1, LenProperties DEF Linked
<1>5. QED
  BY <1>1, <1>2, <1>3, <1>4, PathGrows

LEMMA OpenerOfSelected ==
  ASSUME MenuInv, Selects("S")
  PROVE  Selected.arg \in Form \ {0} /\ Opener(Selected.arg) = <<form, entry>>
<1> DEFINE f == Selected.arg
<1>1. EntryOf(form, entry) /\ Selected = Items(form)[entry] /\ f \in Form \ {0}
  BY SelectedFacts
<1>2. Selected.type = "S"
  BY DEF Selects
<1>3. Forms[f + 1].parent = form
  BY <1>1, <1>2, OneOpener DEF EntryOf
<1>4. Openers(form, f) = {entry}
  <2>1. entry \in Openers(form, f)
    BY <1>1, <1>2 DEF EntryOf, Openers
  <2>2. \A i \in Openers(form, f) : i = entry
    BY <1>1, <1>2, OneOpener DEF EntryOf, Openers
  <2>3. QED
    BY <2>1, <2>2
<1>5. ParentEntry(form, f) = entry
  <2>1. entry \in Nat
    BY <1>1, FormFacts DEF EntryOf
  <2>2. entry <= entry
    BY <2>1
  <2>3. QED
    BY <1>4, <2>2 DEF ParentEntry
<1>6. QED
  BY <1>1, <1>3, <1>5 DEF Opener

(* ... and what is left goes back to it. *)
LEMMA ReturnsThere ==
  ASSUME PathInv, openers # <<>>, Returned, NEW f, NEW e, Last(openers) = <<f, e>>, form' = f
  PROVE  PathInv'
<1>1. openers' = SubSeq(openers, 1, Len(openers) - 1) /\ Linked(openers)
  BY DEF Returned, PathInv
<1>2. Linked(openers') /\ Leads(openers', Len(openers'), f) /\ f \in Form
  BY <1>1, PathShrinks
<1>3. f # FSEL /\ f # TEXT
  BY <1>2, Apart
<1>4. QED
  BY <1>2, <1>3 DEF PathInv, Leads, Opener, ParentEntry, Openers, Items

ReturnsNow == Len(openers') < Len(openers) => <<form', entry'>> = Last(openers)

LEMMA PathKept ==
  ASSUME PathInv, UNCHANGED <<openers, form, fsel, text>>
  PROVE  PathInv' /\ ReturnsNow
<1>1. /\ openers' = openers /\ form' = form
      /\ parent' = parent /\ fsel_entry' = fsel_entry
      /\ text_parent' = text_parent /\ text_entry' = text_entry
  BY DEF fsel, text
<1>2. Linked(openers')
  BY <1>1 DEF PathInv
<1>3. form' \in Form => Leads(openers', Len(openers'), form')
  BY <1>1 DEF PathInv
<1>4. form' = FSEL => openers' # <<>> /\ Last(openers') = <<parent', fsel_entry'>>
  BY <1>1 DEF PathInv
<1>5. form' = TEXT => openers' # <<>> /\ Last(openers') = <<text_parent', text_entry'>>
  BY <1>1 DEF PathInv
<1>6. PathInv'
  BY <1>2, <1>3, <1>4, <1>5 DEF PathInv
<1>7. Len(openers') = Len(openers) /\ Len(openers) \in Nat
  BY <1>1, LenProperties DEF PathInv, Linked
<1>8. QED
  BY <1>6, <1>7 DEF ReturnsNow

LEMMA PathStep ==
  ASSUME MenuInv, PathInv, MenuNext
  PROVE  PathInv' /\ ReturnsNow
<1>1. ASSUME UNCHANGED <<openers, form, fsel, text>> PROVE PathInv' /\ ReturnsNow
  BY <1>1, PathKept
<1>2. CASE Moves
  BY <1>1, <1>2 DEF Moves, Scrolls, Steps, PageDown, PageUp
<1>3. CASE OpensForm
  <2>1. /\ EntryOf(form, entry) /\ Selected.arg \in Form \ {0}
        /\ Opener(Selected.arg) = <<form, entry>> /\ form' = Selected.arg
    BY <1>3, SelectedFacts, OpenerOfSelected DEF OpensForm, Goto
  <2>2. /\ Linked(openers') /\ openers' # <<>> /\ Last(openers') = <<form, entry>>
        /\ Len(openers') = Len(openers) + 1 /\ Len(openers) \in Nat
    BY <1>3, <2>1, OpenedRemembers DEF OpensForm
  <2>3. form' # FSEL /\ form' # TEXT
    BY <2>1, Apart
  <2>4. Leads(openers', Len(openers'), Selected.arg)
    BY <2>1, <2>2 DEF Leads, Last
  <2>5. PathInv'
    BY <2>1, <2>2, <2>3, <2>4 DEF PathInv
  <2>6. QED
    BY <2>2, <2>5 DEF ReturnsNow
<1>4. ASSUME NEW lines \in TextSizes, OpensText(lines) PROVE PathInv' /\ ReturnsNow
  <2>1. EntryOf(form, entry) /\ form' = TEXT /\ text_parent' = form /\ text_entry' = entry
    BY <1>4, SelectedFacts DEF OpensText
  <2>2. /\ Linked(openers') /\ openers' # <<>> /\ Last(openers') = <<form, entry>>
        /\ Len(openers') = Len(openers) + 1 /\ Len(openers) \in Nat
    BY <1>4, <2>1, OpenedRemembers DEF OpensText
  <2>3. PathInv'
    BY <2>1, <2>2, Apart DEF PathInv
  <2>4. QED
    BY <2>2, <2>3 DEF ReturnsNow
<1>5. ASSUME NEW n \in DirSizes, NEW e \in 1 .. n, OpensSelector(n, e) PROVE PathInv' /\ ReturnsNow
  <2>1. EntryOf(form, entry) /\ form' = FSEL /\ parent' = form /\ fsel_entry' = entry
    BY <1>5, SelectedFacts DEF OpensSelector, Lists
  <2>2. /\ Linked(openers') /\ openers' # <<>> /\ Last(openers') = <<form, entry>>
        /\ Len(openers') = Len(openers) + 1 /\ Len(openers) \in Nat
    BY <1>5, <2>1, OpenedRemembers DEF OpensSelector
  <2>3. PathInv'
    BY <2>1, <2>2, Apart DEF PathInv
  <2>4. QED
    BY <2>2, <2>3 DEF ReturnsNow
<1>6. ASSUME NEW n \in DirSizes, NEW e \in 1 .. n, EntersDirectory(n, e) PROVE PathInv' /\ ReturnsNow
  BY <1>1, <1>6 DEF EntersDirectory, OnFile, Lists
<1>7. CASE LeavesSelector
  <2>1. openers # <<>> /\ Last(openers) = <<parent, fsel_entry>> /\ form' = parent /\ entry' = fsel_entry
    BY <1>7 DEF LeavesSelector, Goto, PathInv
  <2>2. PathInv'
    BY <1>7, <2>1, ReturnsThere DEF LeavesSelector
  <2>3. QED
    BY <2>1, <2>2 DEF ReturnsNow
<1>8. CASE LeavesText
  <2>1. openers # <<>> /\ Last(openers) = <<text_parent, text_entry>> /\ form' = text_parent /\ entry' = text_entry
    BY <1>8 DEF LeavesText, Goto, PathInv
  <2>2. PathInv'
    BY <1>8, <2>1, ReturnsThere DEF LeavesText
  <2>3. QED
    BY <2>1, <2>2 DEF ReturnsNow
<1>9. CASE LeavesForm
  <2>1. form \in Form /\ form # 0
    BY <1>9 DEF LeavesForm, MenuInv
  <2>2. Len(openers) >= 1 /\ Last(openers) = Opener(form)
    BY <2>1 DEF PathInv, Leads, Last
  <2>3. openers # <<>>
    BY <2>2, EmptySeq
  <2>4. form' = Forms[form + 1].parent /\ entry' = ParentEntry(Forms[form + 1].parent, form)
    BY <1>9 DEF LeavesForm, Goto
  <2>5. PathInv'
    BY <1>9, <2>2, <2>3, <2>4, ReturnsThere DEF LeavesForm, Opener
  <2>6. QED
    BY <2>2, <2>4, <2>5 DEF ReturnsNow, Opener
<1>10. QED
  BY <1>2, <1>3, <1>4, <1>5, <1>6, <1>7, <1>8, <1>9 DEF MenuNext

(* Whatever is left, the menu comes back to the entry it was opened from.  *)
THEOREM ReturnsToOpenerHolds == MenuSpec => ReturnsToOpener
<1>1. MenuInit => PathInv
  <2> SUFFICES ASSUME MenuInit PROVE PathInv
    OBVIOUS
  <2>1. form = 0 /\ openers = <<>>
    BY DEF MenuInit
  <2>2. <<>> \in Seq(Form \X Nat) /\ Len(<<>>) = 0
    BY EmptySeq
  <2>3. Linked(openers) /\ Leads(openers, Len(openers), form)
    BY <2>1, <2>2 DEF Linked, Leads
  <2>4. QED
    BY <2>1, <2>3, Apart DEF PathInv
<1>2. MenuInv /\ PathInv /\ [MenuNext]_menuVars =>
        PathInv' /\ [Len(openers') < Len(openers) =>
                       <<form', entry'>> = openers[Len(openers)]]_menuVars
  <2> SUFFICES ASSUME MenuInv, PathInv, [MenuNext]_menuVars
               PROVE  PathInv' /\ (ReturnsNow \/ UNCHANGED menuVars)
    BY DEF ReturnsNow, Last
  <2>1. CASE MenuNext
    BY <2>1, PathStep
  <2>2. CASE UNCHANGED menuVars
    BY <2>2, PathKept DEF menuVars, view
  <2>3. QED
    BY <2>1, <2>2
<1>3. QED
  BY <1>1, <1>2, MenuInvariant, PTL DEF MenuSpec, ReturnsToOpener

-----------------------------------------------------------------------------
(* The poke queue. *)

(* The pointers are at most a ring apart. *)
PokeInv == PokeTypeOK /\ Count <= Depth

-----------------------------------------------------------------------------
(* Arithmetic of the pointers: `full` and `empty` are what they say, and   *)
(* the cell written next is the place behind the last pending entry.       *)
LEMMA CountFacts ==
  ASSUME PokeInv
  PROVE  /\ Depth \in Nat /\ Depth >= 1 /\ wp \in Nat /\ rp \in Nat
         /\ Count \in 0 .. Depth
         /\ empty <=> Count = 0
         /\ full <=> Count = Depth
         /\ Cell(wp) \in Cells /\ Cell(rp) \in Cells
         /\ Cell(rp) = Place(rp)
         /\ Cell(wp) = Place(rp + Count)
BY PokeAssumption DEF PokeInv, PokeTypeOK, Pointer, Cells, Count, empty, full, Cell, Place

LEMMA PlaceFacts ==
  ASSUME PokeInv, NEW i \in 0 .. Depth, NEW j \in 0 .. Depth
  PROVE  /\ Place(rp + i) \in Cells
         /\ i < j /\ j - i < Depth => Place(rp + i) # Place(rp + j)
BY PokeAssumption DEF PokeInv, PokeTypeOK, Pointer, Cells, Place

(* One pointer goes on. *)
LEMMA SuccFacts ==
  ASSUME PokeInv
  PROVE  /\ Succ(wp) \in Pointer /\ Succ(rp) \in Pointer
         /\ \A i \in 0 .. Depth - 1 : Place(Succ(rp) + i) = Place(rp + i + 1)
BY PokeAssumption DEF PokeInv, PokeTypeOK, Pointer, Succ, Place

LEMMA PendingIsSequence ==
  PokeInv => Pending \in Seq(Entry) /\ Len(Pending) = Count /\ Count \in 0 .. Depth
<1> SUFFICES ASSUME PokeInv
             PROVE  Pending \in Seq(Entry) /\ Len(Pending) = Count /\ Count \in 0 .. Depth
  OBVIOUS
<1>1. \A i \in 1 .. Count : fifo[Place(rp + i - 1)] \in Entry
  <2> SUFFICES ASSUME NEW i \in 1 .. Count
               PROVE  fifo[Place(rp + i - 1)] \in Entry
    OBVIOUS
  <2>1. i - 1 \in 0 .. Depth /\ rp + i - 1 = rp + (i - 1)
    BY CountFacts
  <2>2. Place(rp + (i - 1)) \in Cells
    BY <2>1, PlaceFacts
  <2>3. QED
    BY <2>1, <2>2 DEF PokeInv, PokeTypeOK
<1>2. Pending \in [1 .. Count -> Entry]
  BY <1>1 DEF Pending
<1>3. QED
  BY <1>2, CountFacts, SeqDef

-----------------------------------------------------------------------------
(* A clock: what it does to the number of pending entries ... *)
LEMMA CountStep ==
  ASSUME PokeInv, NEW stb \in BOOLEAN, NEW e, NEW cpu \in BOOLEAN, NEW hold \in BOOLEAN,
         PokeClock(stb, e, Req(cpu, hold))
  PROVE  Count' = IF stb /\ ~full THEN IF Req(cpu, hold) THEN Count ELSE Count + 1
                                  ELSE IF Req(cpu, hold) THEN Count - 1 ELSE Count
<1>1. /\ wp' = IF stb /\ ~full THEN Succ(wp) ELSE wp
      /\ rp' = IF Req(cpu, hold) THEN Succ(rp) ELSE rp
  BY DEF PokeClock
<1>2. Depth \in Nat /\ Depth >= 1 /\ wp \in 0 .. 2 * Depth - 1 /\ rp \in 0 .. 2 * Depth - 1
  BY CountFacts DEF PokeInv, PokeTypeOK, Pointer
<1>3. (~full => Count < Depth) /\ (Req(cpu, hold) => Count > 0)
  BY CountFacts DEF Req
<1>4. CASE stb /\ ~full /\ Req(cpu, hold)
  BY <1>1, <1>2, <1>3, <1>4, CountFacts DEF Count, Succ
<1>5. CASE stb /\ ~full /\ ~Req(cpu, hold)
  BY <1>1, <1>2, <1>3, <1>5, CountFacts DEF Count, Succ
<1>6. CASE ~(stb /\ ~full) /\ Req(cpu, hold)
  BY <1>1, <1>2, <1>3, <1>6, CountFacts DEF Count, Succ
<1>7. CASE ~(stb /\ ~full) /\ ~Req(cpu, hold)
  BY <1>1, <1>7 DEF Count
<1>8. QED
  BY <1>4, <1>5, <1>6, <1>7

LEMMA PokeInvKept ==
  ASSUME PokeInv, NEW stb \in BOOLEAN, NEW e \in Entry, NEW cpu \in BOOLEAN, NEW hold \in BOOLEAN,
         PokeClock(stb, e, Req(cpu, hold))
  PROVE  PokeInv'
<1>1. fifo' \in [Cells -> Entry]
  BY PokeAssumption DEF PokeClock, PokeInv, PokeTypeOK
<1>2. wp' \in Pointer /\ rp' \in Pointer
  BY SuccFacts DEF PokeClock, PokeInv, PokeTypeOK
<1>3. (~full => Count < Depth) /\ Count \in 0 .. Depth /\ Depth \in Nat
  BY CountFacts
<1>4. Count' <= Depth
  BY <1>3, CountStep
<1>5. QED
  BY <1>1, <1>2, <1>4 DEF PokeInv, PokeTypeOK

(* ... and to the cells: those that stay pending keep their entries, and   *)
(* the one behind them is the entry that arrived.                          *)
LEMMA CellsStep ==
  ASSUME PokeInv, NEW stb \in BOOLEAN, NEW e \in Entry, NEW cpu \in BOOLEAN, NEW hold \in BOOLEAN,
         PokeClock(stb, e, Req(cpu, hold))
  PROVE  /\ \A i \in 0 .. Count - 1 :
              ~Req(cpu, hold) \/ i > 0 => fifo'[Place(rp + i)] = fifo[Place(rp + i)]
         /\ stb /\ ~full => fifo'[Place(rp + Count)] = e
<1>1. fifo' = [c \in Cells |-> IF (stb /\ ~full) /\ c = Cell(wp) THEN e
                               ELSE IF Req(cpu, hold) /\ c = Cell(rp) THEN Blank ELSE fifo[c]]
  BY DEF PokeClock
<1>2. /\ Depth \in Nat /\ rp \in Nat /\ Count \in 0 .. Depth
      /\ full <=> Count = Depth
      /\ Cell(wp) \in Cells /\ Cell(wp) = Place(rp + Count) /\ Cell(rp) = Place(rp + 0)
  BY CountFacts
<1>3. ASSUME NEW i \in 0 .. Count - 1, ~Req(cpu, hold) \/ i > 0
      PROVE  fifo'[Place(rp + i)] = fifo[Place(rp + i)]
  <2>1. Place(rp + i) \in Cells
    BY <1>2, PlaceFacts
  <2>2. CASE stb /\ ~full
    <3>1. Place(rp + i) # Place(rp + Count)
      <4>1. i \in 0 .. Depth /\ Count \in 0 .. Depth /\ i < Count /\ Count - i < Depth
        BY <1>2, <2>2
      <4>2. QED
        BY <4>1, PlaceFacts
    <3>2. i > 0 => Place(rp + i) # Place(rp + 0)
      BY <1>2, <2>2, PlaceFacts
    <3>3. QED
      BY <1>1, <1>2, <1>3, <2>1, <3>1, <3>2
  <2>3. CASE ~(stb /\ ~full)
    <3>1. i > 0 => Place(rp + i) # Place(rp + 0)
      BY <1>2, PlaceFacts
    <3>2. QED
      BY <1>1, <1>2, <1>3, <2>1, <2>3, <3>1
  <2>4. QED
    BY <2>2, <2>3
<1>4. QED
  BY <1>1, <1>2, <1>3

-----------------------------------------------------------------------------
(* A clock is a step of the queue, or none. *)
LEMMA ClockIsQueueStep ==
  ASSUME PokeInv, NEW stb \in BOOLEAN, NEW e \in Entry, NEW cpu \in BOOLEAN, NEW hold \in BOOLEAN,
         PokeClock(stb, e, Req(cpu, hold))
  PROVE  [Queue!Next]_Pending
<1>1. /\ Pending \in Seq(Entry) /\ Len(Pending) = Count
      /\ Count \in 0 .. Depth /\ Depth \in Nat /\ rp \in Nat
      /\ ~full => Count < Depth
      /\ empty <=> Count = 0
  BY PendingIsSequence, CountFacts
<1>2. Pending' \in Seq(Entry) /\ Len(Pending') = Count' /\ Count' \in 0 .. Depth
  <2>1. PokeInv'
    BY PokeInvKept
  <2>2. (Pending \in Seq(Entry) /\ Len(Pending) = Count /\ Count \in 0 .. Depth)'
    BY <2>1, PendingIsSequence, PTL
  <2>3. QED
    BY <2>2
<1>3. \A i \in 1 .. Count : Pending[i] = fifo[Place(rp + (i - 1))]
  BY <1>1 DEF Pending
<1>4. \A i \in 1 .. Count' : Pending'[i] = fifo'[Place(rp' + (i - 1))]
  BY <1>1, <1>2 DEF Pending
<1>5. CASE ~Req(cpu, hold)
  <2>1. rp' = rp
    BY <1>5 DEF PokeClock
  <2>2. \A i \in 1 .. Count : Pending'[i] = Pending[i]
    <3> SUFFICES ASSUME NEW i \in 1 .. Count PROVE Pending'[i] = Pending[i]
      OBVIOUS
    <3>1. i - 1 \in 0 .. Count - 1 /\ i \in 1 .. Count'
      BY <1>1, <1>5, CountStep
    <3>2. QED
      BY <1>3, <1>4, <1>5, <2>1, <3>1, CellsStep
  <2>3. CASE stb /\ ~full
    <3>1. Count' = Count + 1 /\ Count < Depth
      <4>1. Count' = Count + 1
        BY <1>5, <2>3, CountStep
      <4>2. QED
        BY <1>1, <2>3, <4>1
    <3>2. Pending'[Count + 1] = e
      <4>1. rp' + ((Count + 1) - 1) = rp + Count /\ Count + 1 \in 1 .. Count'
        BY <1>1, <2>1, <3>1
      <4>2. Pending'[Count + 1] = fifo'[Place(rp' + ((Count + 1) - 1))]
        BY <1>4, <4>1
      <4>3. QED
        BY <2>3, <4>1, <4>2, CellsStep
    <3>3. Pending' = Append(Pending, e)
      BY <1>1, <1>2, <2>2, <3>1, <3>2, AppendProperties, SeqEqual
    <3>4. QED
      BY <1>1, <3>1, <3>3 DEF Queue!Next, Queue!Put
  <2>4. CASE ~(stb /\ ~full)
    <3>1. Count' = Count
      BY <1>5, <2>4, CountStep
    <3>2. Pending' = Pending
      BY <1>1, <1>2, <2>2, <3>1, SeqEqual
    <3>3. QED
      BY <3>2
  <2>5. QED
    BY <2>3, <2>4
<1>6. CASE Req(cpu, hold)
  <2>1. Count > 0 /\ Pending # <<>>
    BY <1>1, <1>6, EmptySeq DEF Req
  <2>2. /\ Tail(Pending) \in Seq(Entry) /\ Len(Tail(Pending)) = Count - 1
        /\ \A i \in 1 .. Count - 1 : Tail(Pending)[i] = Pending[i + 1]
    BY <1>1, <2>1, HeadTailProperties
  <2>3. \A i \in 0 .. Depth - 1 : Place(rp' + i) = Place(rp + i + 1)
    BY <1>6, SuccFacts DEF PokeClock
  <2>4. \A i \in 1 .. Count - 1 : Pending'[i] = Pending[i + 1]
    <3> SUFFICES ASSUME NEW i \in 1 .. Count - 1 PROVE Pending'[i] = Pending[i + 1]
      OBVIOUS
    <3>1. /\ i \in 1 .. Count' /\ i + 1 \in 1 .. Count /\ i \in 0 .. Count - 1 /\ i > 0
          /\ i - 1 \in 0 .. Depth - 1
          /\ rp + (i - 1) + 1 = rp + i /\ rp + ((i + 1) - 1) = rp + i
      <4>1. Count' \in {Count, Count - 1}
        BY <1>6, CountStep
      <4>2. QED
        BY <1>1, <4>1
    <3>2. Pending'[i] = fifo'[Place(rp + i)]
      BY <1>4, <2>3, <3>1
    <3>3. Pending[i + 1] = fifo[Place(rp + i)]
      BY <1>3, <3>1
    <3>4. QED
      BY <1>6, <3>1, <3>2, <3>3, CellsStep
  <2>5. CASE stb /\ ~full
    <3>1. Count' = Count /\ Count < Depth
      <4>1. Count' = Count
        BY <1>6, <2>5, CountStep
      <4>2. QED
        BY <1>1, <2>5, <4>1
    <3>2. Pending'[Count] = e
      <4>1. rp + (Count - 1) + 1 = rp + Count /\ Count \in 1 .. Count' /\ Count - 1 \in 0 .. Depth - 1
        BY <1>1, <2>1, <3>1
      <4>2. Pending'[Count] = fifo'[Place(rp + Count)]
        BY <1>4, <2>3, <4>1
      <4>3. QED
        BY <2>5, <4>2, CellsStep
    <3>3. Pending' = Append(Tail(Pending), e)
      BY <1>1, <1>2, <2>1, <2>2, <2>4, <3>1, <3>2, AppendProperties, SeqEqual
    <3>4. QED
      BY <1>1, <2>1, <3>1, <3>3 DEF Queue!Next, Queue!PutAndTake
  <2>6. CASE ~(stb /\ ~full)
    <3>1. Count' = Count - 1
      BY <1>6, <2>6, CountStep
    <3>2. Pending' = Tail(Pending)
      BY <1>1, <1>2, <2>2, <2>4, <3>1, SeqEqual
    <3>3. QED
      BY <2>1, <3>2 DEF Queue!Next, Queue!Take
  <2>7. QED
    BY <2>5, <2>6
<1>7. QED
  BY <1>5, <1>6

(* The ring is a queue of Depth entries. *)
THEOREM PokeIsQueueHolds == PokeSpec => PokeIsQueue
<1>1. PokeInit => PokeInv /\ Queue!Init
  <2> SUFFICES ASSUME PokeInit PROVE PokeInv /\ Queue!Init
    OBVIOUS
  <2>1. PokeInv /\ Count = 0
    BY PokeAssumption DEF PokeInit, PokeInv, PokeTypeOK, Cells, Pointer, Count
  <2>2. Pending \in Seq(Entry) /\ Len(Pending) = 0
    BY <2>1, PendingIsSequence
  <2>3. Pending = <<>>
    BY <2>2, EmptySeq
  <2>4. QED
    BY <2>1, <2>3 DEF Queue!Init
<1>2. PokeInv /\ [PokeNext]_pokeVars => PokeInv' /\ [Queue!Next]_Pending
  <2> SUFFICES ASSUME PokeInv, [PokeNext]_pokeVars
               PROVE  PokeInv' /\ [Queue!Next]_Pending
    OBVIOUS
  <2>1. ASSUME NEW stb \in BOOLEAN, NEW cpu \in BOOLEAN, NEW hold \in BOOLEAN, NEW e \in Entry,
               PokeClock(stb, e, Req(cpu, hold))
        PROVE  PokeInv' /\ [Queue!Next]_Pending
    BY <2>1, PokeInvKept, ClockIsQueueStep
  <2>2. CASE UNCHANGED pokeVars
    BY <2>2 DEF pokeVars, PokeInv, PokeTypeOK, Count, Pending
  <2>3. QED
    BY <2>1, <2>2 DEF PokeNext
<1>3. QED
  BY <1>1, <1>2, PTL DEF PokeSpec, PokeIsQueue, Queue!Spec

-----------------------------------------------------------------------------
(* The composition. *)

(* The steps of sdc_readdir that read the card, and those before its end. *)
DirReads == LooksForFolder \/ ListReads \/ ListFails
Listing == DirReads \/ AppendsForever

(* The menu. *)
LEMMA WorksIsMenuStep ==
  ASSUME Works
  PROVE  [MenuNext]_menuVars
<1>1. CASE Listed
  <2>1. PICK n \in DirSizes : \E e \in (IF busy THEN {1} ELSE 1 .. n) :
               OpensSelector(n, e) \/ EntersDirectory(n, e)
    BY <1>1 DEF Listed
  <2>2. n \in Nat /\ n >= 1
    BY MenuAssumption
  <2>3. \E e \in 1 .. n : OpensSelector(n, e) \/ EntersDirectory(n, e)
    BY <2>1, <2>2
  <2>4. QED
    BY <2>3 DEF MenuNext
<1>2. CASE OpenFails \/ Inserts
  BY <1>2 DEF OpenFails, Inserts, MenuNext
<1>3. ASSUME NEW a, NEW b, Locks(a, b) PROVE UNCHANGED menuVars
  BY <1>3 DEF Locks
<1>4. ASSUME NEW a, NEW last, NEW b, Pokes(a, last, b) PROVE UNCHANGED menuVars
  BY <1>4 DEF Pokes
<1>5. CASE Listing \/ Ejects \/ Opens \/ OpenEnds \/ BasOpens \/ Resets \/ ReadsLine
           \/ Closes \/ Delays \/ BasEnds
  BY <1>5 DEF Listing, DirReads, LooksForFolder, ListReads, ListFails, AppendsForever, Ejects,
              Opens, OpenEnds, BasOpens, Resets, ReadsLine, Closes, Delays, BasEnds
<1>6. QED
  BY <1>1, <1>2, <1>3, <1>4, <1>5 DEF Works, Listing, DirReads

(* Every step of the composition is a step of menu.c or leaves the menu as *)
(* it is: what the OSD's task does over many steps shows as one event.     *)
THEOREM LoaderImplementsMenu == Spec => MenuSpec
<1>1. Init => MenuInit
  BY DEF Init
<1>2. [Next]_vars => [MenuNext]_menuVars
  <2> SUFFICES ASSUME [Next]_vars
               PROVE  [MenuNext]_menuVars
    OBVIOUS
  <2>1. CASE Task \/ Fpga \/ TState
    BY <2>1 DEF Task, Fpga, TState
  <2>2. CASE Works
    BY <2>2, WorksIsMenuStep
  <2>3. CASE MenuStep
    BY <2>3 DEF MenuStep, MenuNext
  <2>4. CASE PicksList \/ PicksImage
    BY <2>4 DEF PicksList, PicksImage
  <2>5. CASE PicksNoDisk \/ PicksProgram
    BY <2>5 DEF PicksNoDisk, PicksProgram, MenuNext
  <2>6. CASE UNCHANGED vars
    BY <2>6 DEF vars
  <2>7. QED
    BY <2>1, <2>2, <2>3, <2>4, <2>5, <2>6 DEF Next, User
<1>3. QED
  BY <1>1, <1>2, PTL DEF Spec, MenuSpec

(* While the OSD's task reads, mounts and loads, too, the selected entry is *)
(* one of the rows drawn.                                                  *)
THEOREM SelectedShownInLoader == Spec => []SelectedShown
BY LoaderImplementsMenu, SelectedShownHolds, PTL

(* Whatever was mounted or loaded from it, a view is left for the entry    *)
(* that it was opened from.                                                *)
THEOREM ReturnsToOpenerInLoader == Spec => ReturnsToOpener
BY LoaderImplementsMenu, ReturnsToOpenerHolds

-----------------------------------------------------------------------------
(* The poke queue: what is poked is an entry, for bas_run sends no more    *)
(* bytes than there are, and the loader's hold is a signal.                *)
SentInv ==
  /\ sent \in Nat /\ busy \in BOOLEAN
  /\ osd = "poke" => sent < LineBytes
  /\ osd = "close" => sent = LineBytes
  /\ osd = "tail" => sent < Bytes
  /\ osd \in {"poke", "close", "tail", "delay", "run"} \/ sent = 0

LEMMA BusyIsBoolean ==
  ASSUME busy \in BOOLEAN, [Next]_vars
  PROVE  busy' \in BOOLEAN
<1>1. ASSUME NEW size, RomMount(size) PROVE busy' \in BOOLEAN
  BY <1>1 DEF RomMount
<1>2. ASSUME NEW bytes, RomDone(bytes) PROVE busy' = busy
  BY <1>2 DEF RomDone
<1>3. ASSUME UNCHANGED romVars PROVE busy' = busy
  BY <1>3 DEF romVars
<1>4. ASSUME ReadsCard PROVE busy' = busy
  BY <1>2, <1>3, <1>4 DEF ReadsCard, SameCard
<1>5. CASE Task \/ TState \/ User \/ UNCHANGED vars
  BY <1>3, <1>5 DEF Task, TState, User, MenuStep, PicksList, PicksImage, PicksNoDisk, PicksProgram,
                    SameCard, vars
<1>6. CASE Fpga
  BY <1>2, <1>6 DEF Fpga, Grants, TransferEnds, Loads, RomAcked, RomAsks, RomCopies, RomNextSector
<1>7. CASE Works
  <2>1. ASSUME NEW a, NEW b, Locks(a, b) PROVE busy' = busy
    BY <1>3, <2>1 DEF Locks, SameCard
  <2>2. ASSUME NEW a, NEW last, NEW b, Pokes(a, last, b) PROVE busy' = busy
    BY <1>3, <2>2 DEF Pokes, SameCard
  <2>3. CASE Ejects \/ Inserts
    BY <1>1, <1>3, <2>3 DEF Ejects, Inserts
  <2>4. CASE DirReads \/ Opens \/ OpenFails \/ BasOpens \/ ReadsLine
    BY <1>4, <2>4 DEF DirReads, LooksForFolder, ListReads, ListFails, Opens, OpenFails, BasOpens, ReadsLine
  <2>5. CASE AppendsForever \/ Listed \/ OpenEnds \/ Resets \/ Closes \/ Delays \/ BasEnds
    BY <1>3, <2>5 DEF AppendsForever, Listed, OpenEnds, Resets, Closes, Delays, BasEnds, SameCard
  <2>6. QED
    BY <1>7, <2>1, <2>2, <2>3, <2>4, <2>5 DEF Works, Listing, DirReads
<1>8. QED
  BY <1>5, <1>6, <1>7 DEF Next

LEMMA SentKept ==
  ASSUME SentInv, [Next]_vars
  PROVE  SentInv'
<1> USE DEF SentInv
<1>1. busy' \in BOOLEAN
  BY BusyIsBoolean
<1>2. Bytes \in Nat /\ LineBytes \in Nat /\ 1 <= LineBytes /\ LineBytes <= Bytes
  BY LoaderAssumption
<1>3. ASSUME sent' = sent, osd' = osd \/ (sent = 0 /\ osd' \notin {"poke", "close", "tail"})
      PROVE  SentInv'
  BY <1>1, <1>3
<1>4. CASE Task \/ Fpga \/ TState \/ UNCHANGED vars
  BY <1>3, <1>4 DEF Task, Fpga, TState, vars, cardVars, basVars
<1>5. CASE User
  BY <1>3, <1>5 DEF User, MenuStep, PicksList, PicksImage, PicksNoDisk, PicksProgram,
                    From, To, SameBas, basVars
<1>6. CASE Works
  <2>1. CASE Locks("listLock", "list") \/ Locks("openLock", "open") \/ Locks("basLock", "basOpen")
    BY <1>3, <2>1 DEF Locks, From, To, SameBas, basVars
  <2>2. CASE Listing \/ Listed \/ Ejects \/ Opens \/ OpenFails \/ OpenEnds \/ Inserts
    BY <1>3, <2>2 DEF Listing, DirReads, LooksForFolder, ListReads, ListFails, AppendsForever,
                      Listed, Ejects, Opens, OpenFails, OpenEnds, Inserts, From, To, SameBas,
                      basVars
  <2>3. CASE BasOpens \/ Resets
    BY <1>3, <2>3 DEF BasOpens, Resets, From, To, SameBas, basVars
  <2>4. CASE ReadsLine
    BY <1>1, <1>2, <2>4 DEF ReadsLine, From, To, SameBas, basVars
  <2>5. CASE Pokes("poke", LineBytes, "close")
    BY <1>1, <1>2, <2>5 DEF Pokes, To
  <2>6. CASE Pokes("tail", Bytes, "delay")
    BY <1>1, <1>2, <2>6 DEF Pokes, To
  <2>7. CASE Closes
    BY <1>1, <1>2, <2>7 DEF Closes, From, To, SameBas, basVars
  <2>8. CASE Delays
    BY <1>1, <2>8 DEF Delays, From, To, SameBas, basVars
  <2>9. CASE BasEnds
    BY <1>1, <2>9 DEF BasEnds, From, To
  <2>10. QED
    BY <1>6, <2>1, <2>2, <2>3, <2>4, <2>5, <2>6, <2>7, <2>8, <2>9 DEF Works, Listing, DirReads
<1>7. QED
  BY <1>4, <1>5, <1>6 DEF Next

LEMMA LoaderStepIsPokeStep ==
  ASSUME SentInv, [Next]_vars
  PROVE  [PokeNext]_pokeVars
<1>1. CASE TState
  <2>1. PICK cpu \in BOOLEAN : PokeClock(FALSE, Blank, Req(cpu, busy))
    BY <1>1 DEF TState, Slots
  <2>2. Blank \in Entry /\ busy \in BOOLEAN
    BY PokeAssumption DEF SentInv
  <2>3. QED
    BY <2>1, <2>2 DEF PokeNext
<1>2. CASE Task \/ Fpga \/ User \/ UNCHANGED vars
  BY <1>2 DEF Task, Fpga, User, MenuStep, PicksList, PicksImage, PicksNoDisk, PicksProgram, SameBas, vars
<1>3. CASE Works
  <2>1. ASSUME NEW a, NEW b, Locks(a, b) PROVE UNCHANGED pokeVars
    BY <2>1 DEF Locks, SameBas
  <2>2. CASE Listing \/ Listed \/ Ejects \/ Opens \/ OpenFails \/ OpenEnds \/ Inserts
             \/ BasOpens \/ Resets \/ ReadsLine \/ Closes \/ Delays \/ BasEnds
    BY <2>2 DEF Listing, DirReads, LooksForFolder, ListReads, ListFails, AppendsForever, Listed,
                Ejects, Opens, OpenFails, OpenEnds, Inserts, BasOpens, Resets, ReadsLine, Closes,
                Delays, BasEnds, SameBas
  <2>3. CASE Pokes("poke", LineBytes, "close") \/ Pokes("tail", Bytes, "delay")
    <3>1. PokeClock(TRUE, sent, FALSE)
      BY <2>3 DEF Pokes
    <3>2. sent \in Entry
      <4>1. osd \in {"poke", "tail"}
        BY <2>3 DEF Pokes
      <4>2. sent \in Nat /\ sent < Bytes
        BY <4>1, LoaderAssumption DEF SentInv
      <4>3. Bytes \in Nat /\ Entry = 0 .. Bytes - 1
        BY LoaderAssumption
      <4>4. QED
        BY <4>2, <4>3
    <3>3. Req(FALSE, TRUE) = FALSE
      BY DEF Req
    <3>4. PokeClock(TRUE, sent, Req(FALSE, TRUE))
      BY <3>1, <3>3
    <3>5. QED
      BY <3>2, <3>4 DEF PokeNext
  <2>4. QED
    BY <1>3, <2>1, <2>2, <2>3 DEF Works, Listing, DirReads
<1>4. QED
  BY <1>1, <1>2, <1>3 DEF Next

(* Every step of the composition is a clock of poke.v or leaves the ring   *)
(* alone: bas_run never pushes with the ring full, nor what no entry is.   *)
THEOREM LoaderImplementsPoke == Spec => PokeSpec
<1>1. Init => PokeInit /\ SentInv
  <2> SUFFICES ASSUME Init PROVE PokeInit /\ SentInv
    OBVIOUS
  <2>1. PokeInit /\ RomInit /\ osd = "menu" /\ sent = 0
    BY DEF Init
  <2>2. busy \in BOOLEAN
    BY <2>1 DEF RomInit
  <2>3. QED
    BY <2>1, <2>2 DEF SentInv
<1>2. SentInv /\ [Next]_vars => SentInv' /\ [PokeNext]_pokeVars
  BY SentKept, LoaderStepIsPokeStep
<1>3. QED
  BY <1>1, <1>2, PTL DEF Spec, PokeSpec

(* So the ring is a queue in the composition: what bas_run pokes comes out *)
(* in order and once, held or not.                                         *)
THEOREM PokeIsQueueInLoader == Spec => PokeIsQueue
BY LoaderImplementsPoke, PokeIsQueueHolds

-----------------------------------------------------------------------------
(* Who holds the lock of the file system. *)
OsdLocks == {"list", "listed", "endless", "open", "opened", "basOpen", "reset", "line", "poke", "close"}
OsdOpens == {"openLock", "open", "opened", "insert"}

LockInv ==
  /\ task \in {"sleep", "status", "lock", "lookup", "poll"}
  /\ sdc_sem \in {"free", "osd", "task"}
  /\ sdc_sem = "osd" => osd \in OsdLocks
  /\ sdc_sem = "task" => task \in {"lookup", "poll"}

(* While the ROM disk's image is opened the drive is empty, and from the   *)
(* open on its file is the one that is going to be inserted.               *)
MountInv ==
  /\ osd \in OsdOpens => image \in Images \ {NoImage}
  /\ osd = "eject" => image \in Images \cup {NoImage}
  /\ osd \in OsdOpens /\ drive = RomDrive => ~busy /\ ~pres
  /\ osd \in {"opened", "insert"} /\ drive = RomDrive => fil = image

(* A load is of the open file, and stands before the end of it. *)
LoadInv ==
  /\ sec \in Nat /\ nsect \in Nat /\ idx \in Nat
  /\ busy => ~pres /\ sec < nsect
  /\ busy \/ pres => fil \in Images \ {NoImage} /\ nsect = SectorsOf(Size[fil])
  /\ fetch => busy /\ ~have
  /\ have => busy /\ idx <= Beats
  /\ sd_rd => fetch /\ path = "free"

(* The arbiter's lease is of the present load, and spi_task on its way to  *)
(* it; if no lease of this load was torn, what it read of it is still so.  *)
LeaseInv ==
  /\ path \in {"free", "shown", "moving"}
  /\ path # "free" => fetch /\ ~sd_rd
  /\ path = "shown" => irq \/ task \in {"status", "lock", "lookup"}
  /\ path = "moving" => task = "poll"
  /\ ~torn =>
       /\ path # "free" => psector = sec
       /\ path = "moving" => dsector = <<fil, sec>>
       /\ task \in {"lock", "lookup"} => path = "shown" /\ rsector = psector

(* What of the image is in memory. *)
Copied(s, n) == \A b \in 0 .. n - 1 : rom[s][b] = <<fil, s>>
CopyInv ==
  /\ DOMAIN rom = Sect
  /\ \A s \in Sect : DOMAIN rom[s] = 0 .. Beats - 1
  /\ ~torn =>
       /\ busy => \A s \in 0 .. sec - 1 : Copied(s, Beats)
       /\ have => buf = <<fil, sec>> /\ Copied(sec, idx)
       /\ pres => \A s \in 0 .. nsect - 1 : Copied(s, Beats)

RomInv == LockInv /\ MountInv /\ LoadInv /\ LeaseInv /\ CopyInv

-----------------------------------------------------------------------------
(* The sectors of an image are those that begin before its end and fit.    *)
LEMMA ProductGap ==
  ASSUME NEW m \in Nat, NEW n \in Nat, NEW d \in Nat, m < n
  PROVE  m * d + d <= n * d
<1>1. PICK k \in Nat : n = m + 1 + k
  <2>1. n - m - 1 \in Nat /\ n = m + 1 + (n - m - 1)
    OBVIOUS
  <2> QED BY <2>1
<1>2. n * d = m * d + d + k * d /\ k * d \in Nat
  BY <1>1
<1> QED BY <1>2

LEMMA SectorsFit ==
  ASSUME NEW size \in Nat \ {0}
  PROVE  /\ SectorsOf(size) \in 1 .. MaxSects
         /\ \A s \in Sect : s < SectorsOf(size) <=> s * Beats < size
<1> DEFINE q == size \div Beats
           r == size % Beats
           n == SectorsOf(size)
<1>1. Beats \in Nat /\ Beats > 0 /\ MaxSects \in Nat /\ MaxSects > 0
  BY RomAssumption
<1>2. q \in Nat /\ r \in 0 .. Beats - 1 /\ size = q * Beats + r
  BY <1>1
<1>3. CASE size > MaxSects * Beats
  <2>1. n = MaxSects
    BY <1>3 DEF SectorsOf
  <2>2. ASSUME NEW s \in Sect PROVE s * Beats < size
    <3>1. s \in Nat /\ s < MaxSects
      BY <1>1 DEF Sect
    <3>2. s * Beats + Beats <= MaxSects * Beats /\ s * Beats \in Nat /\ MaxSects * Beats \in Nat
      BY <1>1, <3>1, ProductGap
    <3> QED BY <1>1, <1>3, <3>2
  <2>3. \A s \in Sect : s < n
    BY <1>1, <2>1 DEF Sect
  <2> QED BY <1>1, <2>1, <2>2, <2>3
<1>4. CASE ~(size > MaxSects * Beats)
  <2>1. n = IF r = 0 THEN q ELSE q + 1
    BY <1>2, <1>4 DEF SectorsOf
  <2> HIDE DEF q, r
  <2>2. q * Beats \in Nat /\ MaxSects * Beats \in Nat
    BY <1>1, <1>2
  <2>3. n \in Nat /\ n > 0
    <3>1. q = 0 => q * Beats = 0
      BY <1>1
    <3> QED BY <1>2, <2>1, <3>1
  <2>4. n <= MaxSects
    <3>1. q > MaxSects => MaxSects * Beats + Beats <= q * Beats
      BY <1>1, <1>2, ProductGap
    <3>2. q = MaxSects => q * Beats = MaxSects * Beats
      OBVIOUS
    <3> QED BY <1>1, <1>2, <1>4, <2>1, <2>2, <3>1, <3>2
  <2>5. ASSUME NEW s \in Sect PROVE s < n <=> s * Beats < size
    <3>1. s \in Nat /\ s * Beats \in Nat
      BY <1>1 DEF Sect
    <3>2. s < q => s * Beats + Beats <= q * Beats
      BY <1>1, <1>2, <3>1, ProductGap
    <3>3. q < s => q * Beats + Beats <= s * Beats
      BY <1>1, <1>2, <3>1, ProductGap
    <3>4. s = q => s * Beats = q * Beats
      OBVIOUS
    <3> HIDE DEF n
    <3> QED BY <1>1, <1>2, <2>1, <2>2, <3>1, <3>2, <3>3, <3>4
  <2> QED BY <1>1, <2>3, <2>4, <2>5
<1> QED BY <1>3, <1>4

LEMMA ImageSectors ==
  ASSUME NEW i \in Images
  PROVE  /\ SectorsOf(Size[i]) \in 1 .. MaxSects
         /\ \A s \in Sect : s < SectorsOf(Size[i]) <=> s * Beats < Size[i]
<1>1. Size[i] \in Nat \ {0}
  BY LoaderAssumption
<1> QED BY <1>1, SectorsFit

-----------------------------------------------------------------------------
(* What neither the drive nor its lease takes part in. *)
LEMMA RomKept ==
  ASSUME RomInv, LockInv', MountInv',
         UNCHANGED <<romVars, torn, fil, path, psector, dsector, irq, task, rsector>>
  PROVE  RomInv'
BY DEF RomInv, romVars, LoadInv, LeaseInv, CopyInv, Copied

(* Steps of the OSD's task that leave the ROM disk and its lease alone. *)
LEMMA OsdKeepsRom ==
  ASSUME RomInv,
         UNCHANGED <<romVars, torn, fil, path, psector, dsector, irq, task, rsector>>,
         \/ osd' = "menu" /\ sdc_sem' \in {sdc_sem, "free"} /\ osd \notin OsdLocks
         \/ osd' = "menu" /\ sdc_sem' = "free"
         \/ osd' \notin OsdOpens \cup {"eject"} /\ sdc_sem' = sdc_sem /\ (osd \in OsdLocks => osd' \in OsdLocks)
         \/ osd' \notin OsdOpens \cup {"eject"} /\ sdc_sem' = "osd" /\ osd' \in OsdLocks
         \/ osd' \notin OsdOpens \cup {"eject"} /\ sdc_sem' = "free" 
  PROVE  RomInv'
<1>1. LockInv' 
  BY DEF RomInv, LockInv, LeaseInv
<1> QED BY <1>1, RomKept DEF RomInv, MountInv, OsdOpens, romVars

LEMMA UserKeepsRom == ASSUME RomInv, User PROVE RomInv'
<1> USE DEF From, To, SameCard, SamePath, SameSem
<1>1. CASE MenuStep \/ PicksList \/ PicksProgram
  BY <1>1, OsdKeepsRom DEF MenuStep, PicksList, PicksProgram, SameImage, OsdLocks, OsdOpens
<1>2. CASE PicksImage \/ PicksNoDisk
  <2>1. osd = "menu" /\ osd' = "eject" /\ image' \in Images \cup {NoImage}
    BY <1>2 DEF PicksImage, PicksNoDisk
  <2>2. UNCHANGED <<romVars, torn, fil, path, psector, dsector, irq, task, rsector, sdc_sem>>
    BY <1>2 DEF PicksImage, PicksNoDisk
  <2>3. LockInv' /\ MountInv'
    BY <2>1, <2>2 DEF RomInv, LockInv, MountInv, OsdLocks, OsdOpens
  <2> QED BY <2>2, <2>3, RomKept
<1> QED BY <1>1, <1>2 DEF User

LEMMA BasKeepsRom ==
  ASSUME RomInv,
         \/ AppendsForever \/ Listed \/ Resets \/ Closes \/ Delays \/ BasEnds
         \/ Locks("listLock", "list") \/ Locks("basLock", "basOpen")
         \/ Pokes("poke", LineBytes, "close") \/ Pokes("tail", Bytes, "delay")
  PROVE  RomInv'
<1> USE DEF From, To, SameCard, SamePath, SameSem, SameImage, Unlocks, OsdLocks, OsdOpens
<1>1. CASE Listed \/ Closes
  BY <1>1, OsdKeepsRom DEF Listed, Closes
<1>2. CASE AppendsForever \/ Resets \/ Delays \/ BasEnds
  BY <1>2, OsdKeepsRom DEF AppendsForever, Resets, Delays, BasEnds
<1>3. CASE Locks("listLock", "list") \/ Locks("basLock", "basOpen")
  BY <1>3, OsdKeepsRom DEF Locks
<1>4. CASE Pokes("poke", LineBytes, "close")
  BY <1>4, OsdKeepsRom DEF Pokes
<1>5. CASE Pokes("tail", Bytes, "delay")
  BY <1>5, OsdKeepsRom DEF Pokes
<1> QED BY <1>1, <1>2, <1>3, <1>4, <1>5

(* The file is opened under the lock, and inserted after it. *)
LEMMA OpenKeepsRom == ASSUME RomInv, Locks("openLock", "open") \/ OpenEnds PROVE RomInv'
<1>1. UNCHANGED <<romVars, torn, fil, image, drive, path, psector, dsector, irq, task, rsector>>
  BY DEF Locks, OpenEnds, To, SameCard, SamePath, SameImage, menuVars, fsel
<1>2. \/ osd = "openLock" /\ osd' = "open" /\ sdc_sem' = "osd" /\ sdc_sem = "free"
      \/ osd = "opened" /\ osd' = "insert" /\ sdc_sem' = "free"
  BY DEF Locks, OpenEnds, From, To, Unlocks
<1>3. busy' = busy /\ pres' = pres
  BY <1>1 DEF romVars
<1>4. LockInv' /\ MountInv'
  BY <1>1, <1>2, <1>3 DEF RomInv, LockInv, MountInv, OsdLocks, OsdOpens
<1> QED BY <1>1, <1>4, RomKept

-----------------------------------------------------------------------------
(* A sector read for the firmware itself, of a load or not; a file opened  *)
(* for the ROM disk is so with the drive empty.                            *)
LEMMA NoLeaseWhenEmpty == ASSUME RomInv, ~busy PROVE path = "free" /\ ~fetch /\ ~have /\ ~sd_rd
BY DEF RomInv, LeaseInv, LoadInv

LEMMA CardReadKeepsRom ==
  ASSUME RomInv, ReadsCard, UNCHANGED <<task, rsector, irq, dsector>>,
         fil' = fil \/ (~busy /\ ~pres), LockInv', MountInv'
  PROVE  RomInv'
<1>1. CASE SameCard /\ fil' = fil
  BY <1>1, RomKept DEF SameCard, SamePath
<1>2. CASE SameCard /\ ~busy /\ ~pres
  BY <1>2, NoLeaseWhenEmpty DEF SameCard, SamePath, romVars, RomInv, LoadInv, LeaseInv, CopyInv
<1>3. CASE SvcTearsLease /\ RomDone(buf) /\ torn' = (torn \/ (busy /\ fetch))
  <2>1. busy /\ fetch /\ ~sd_rd /\ path' = "free" /\ fil' = fil
    BY <1>3 DEF SvcTearsLease, RomInv, LeaseInv, LoadInv
  <2>2. torn'
    BY <1>3, <2>1
  <2>3. ~fetch' /\ idx' = 0 /\ UNCHANGED <<sd_rd, sec, nsect, busy, pres, rom>>
    BY <1>3, <2>1 DEF RomDone
  <2>4. Beats >= 0
    BY RomAssumption
  <2>5. LoadInv'
    BY <2>1, <2>3, <2>4 DEF RomInv, LoadInv
  <2>6. LeaseInv' /\ CopyInv'
    BY <2>1, <2>2, <2>3 DEF RomInv, LeaseInv, CopyInv
  <2> QED BY <2>5, <2>6 DEF RomInv
<1> QED BY <1>1, <1>2, <1>3 DEF ReadsCard

LEMMA ReadsKeepRom ==
  ASSUME RomInv, DirReads \/ Opens \/ OpenFails \/ BasOpens \/ ReadsLine
  PROVE  RomInv'
<1>1. ReadsCard /\ UNCHANGED <<task, rsector, irq, dsector>>
  BY DEF DirReads, LooksForFolder, ListReads, ListFails, Opens, OpenFails, BasOpens, ReadsLine, To
<1>2. busy' = busy /\ pres' = pres
  BY <1>1 DEF ReadsCard, SameCard, romVars, RomDone
<1> USE DEF From, To, SameImage, SameSem, Unlocks, OsdLocks, OsdOpens
<1>3. LockInv'
  BY DEF DirReads, LooksForFolder, ListReads, ListFails, Opens, OpenFails, BasOpens, ReadsLine,
         RomInv, LockInv
<1>4. CASE DirReads \/ BasOpens \/ ReadsLine
  <2>1. fil' = fil /\ osd' \notin OsdOpens \cup {"eject"}
    BY <1>4 DEF DirReads, LooksForFolder, ListReads, ListFails, BasOpens, ReadsLine
  <2> QED BY <1>1, <1>3, <2>1, CardReadKeepsRom DEF MountInv
<1>5. CASE Opens \/ OpenFails
  <2>1. osd = "open" /\ (drive = RomDrive \/ fil' = fil)
    BY <1>5 DEF Opens, OpenFails
  <2>2. drive = RomDrive => ~busy /\ ~pres
    BY <2>1 DEF RomInv, MountInv
  <2>3. MountInv'
    <3>1. CASE Opens
      BY <1>2, <3>1 DEF Opens, RomInv, MountInv, menuVars, fsel
    <3>2. CASE OpenFails
      BY <3>2 DEF OpenFails, MountInv
    <3> QED BY <1>5, <3>1, <3>2
  <2> QED BY <1>1, <1>3, <2>1, <2>2, <2>3, CardReadKeepsRom
<1> QED BY <1>4, <1>5

-----------------------------------------------------------------------------
(* A mount comes with no lease up and spi_task asleep: with a lease shown  *)
(* spi_task would run, or wait for a lock that is free.                    *)
LEMMA MountsQuietly ==
  ASSUME RomInv, From("eject") \/ From("insert")
  PROVE  path = "free" /\ task = "sleep"
<1>1. ~TaskReady(FALSE) /\ osd \notin OsdLocks
  <2>1. osd \in {"eject", "insert"} /\ ~TaskReady(KeepsBus)
    BY DEF From
  <2>2. KeepsBus = FALSE
    BY <2>1 DEF KeepsBus
  <2> QED BY <2>1, <2>2 DEF OsdLocks
<1>2. task # "poll"
  BY <1>1 DEF TaskReady
<1>3. BusFree(FALSE)
  BY <1>2 DEF BusFree
<1>4. task \in {"sleep", "lock"} /\ (task = "sleep" => ~irq) /\ (task = "lock" => sdc_sem # "free")
  BY <1>1, <1>2, <1>3 DEF TaskReady, RomInv, LockInv
<1>5. task = "sleep" /\ ~irq
  BY <1>1, <1>4 DEF RomInv, LockInv
<1> QED BY <1>5 DEF RomInv, LeaseInv

LEMMA MountKeepsRom ==
  ASSUME RomInv, NEW n \in Nat, RomMount(n), ~torn', path = "free", task = "sleep",
         UNCHANGED <<path, psector, dsector, irq, task, rsector>>,
         n # 0 => fil' \in Images \ {NoImage} /\ n = Size[fil'],
         LockInv', MountInv'
  PROVE  RomInv'
<1>1. n # 0 => SectorsOf(n) \in 1 .. MaxSects
  BY ImageSectors
<1>2. SectorsOf(n) \in Nat
  BY <1>1, RomAssumption DEF SectorsOf
<1>3. LoadInv'
  <2>1. busy' <=> n # 0
    BY DEF RomMount
  <2>2. sec' = 0 /\ idx' = 0 /\ nsect' = SectorsOf(n) /\ ~pres' /\ ~fetch' /\ ~have' /\ ~sd_rd'
    BY DEF RomMount
  <2>3. n # 0 => SectorsOf(n) > 0
    BY <1>1, RomAssumption
  <2> QED BY <1>2, <2>1, <2>2, <2>3 DEF LoadInv
<1>4. LeaseInv'
  BY DEF LeaseInv, RomMount
<1>5. CopyInv'
  BY DEF RomMount, CopyInv, NothingCopied
<1> QED BY <1>3, <1>4, <1>5 DEF RomInv

LEMMA EjectsKeepRom == ASSUME RomInv, Ejects PROVE RomInv'
<1>1. /\ From("eject") /\ UNCHANGED <<path, psector, dsector, irq, task, rsector, sdc_sem, fil, image, drive>>
      /\ osd' = IF image = NoImage THEN "menu" ELSE "openLock"
  BY DEF Ejects, To, SameImage, SameSem, SamePath, menuVars, fsel
<1>2. path = "free" /\ task = "sleep" /\ osd = "eject"
  BY <1>1, MountsQuietly DEF From
<1>3. LockInv'
  BY <1>1, <1>2 DEF RomInv, LockInv, OsdLocks
<1>4. CASE drive = RomDrive
  <2>1. RomMount(0) /\ torn' = FALSE
    BY <1>4 DEF Ejects
  <2>2. ~busy' /\ ~pres'
    BY <2>1 DEF RomMount
  <2>3. MountInv'
    BY <1>1, <1>2, <2>2 DEF RomInv, MountInv, OsdOpens
  <2> QED BY <1>1, <1>2, <1>3, <2>1, <2>3, MountKeepsRom
<1>5. CASE drive # RomDrive
  <2>1. UNCHANGED <<romVars, torn>>
    BY <1>5 DEF Ejects
  <2>2. MountInv'
    BY <1>1, <1>2, <1>5 DEF RomInv, MountInv, OsdOpens
  <2> QED BY <1>1, <1>3, <2>1, <2>2, RomKept
<1> QED BY <1>4, <1>5

LEMMA InsertsKeepRom == ASSUME RomInv, Inserts PROVE RomInv'
<1>1. /\ From("insert") /\ UNCHANGED <<path, psector, dsector, irq, task, rsector, sdc_sem, fil>>
      /\ osd' = "menu"
  BY DEF Inserts, To, SameSem, SamePath
<1>2. path = "free" /\ task = "sleep" /\ osd = "insert" /\ image \in Images \ {NoImage}
  BY <1>1, MountsQuietly DEF From, RomInv, MountInv, OsdOpens
<1>3. LockInv' /\ MountInv'
  BY <1>1, <1>2 DEF RomInv, LockInv, MountInv, OsdLocks, OsdOpens
<1>4. CASE drive = RomDrive
  <2>1. RomMount(Size[image]) /\ torn' = FALSE
    BY <1>4 DEF Inserts
  <2>2. fil' = image /\ Size[image] \in Nat
    BY <1>1, <1>2, <1>4, LoaderAssumption DEF RomInv, MountInv
  <2> QED BY <1>1, <1>2, <1>3, <2>1, <2>2, MountKeepsRom
<1>5. CASE drive # RomDrive
  <2>1. UNCHANGED <<romVars, torn>>
    BY <1>5 DEF Inserts
  <2> QED BY <1>1, <1>3, <2>1, RomKept
<1> QED BY <1>4, <1>5

-----------------------------------------------------------------------------
(* spi_task. *)
LEMMA TaskKeepsRom == ASSUME RomInv, Task PROVE RomInv'
<1>1. UNCHANGED <<romVars, torn, fil, image, drive, osd, psector>>
  BY DEF Task, SvcTask, menuVars, fsel
<1>2. busy' = busy /\ pres' = pres
  BY <1>1 DEF romVars
<1>3. MountInv'
  BY <1>1, <1>2 DEF RomInv, MountInv
<1>4. LoadInv' /\ CopyInv' /\ LeaseInv' /\ LockInv'
  <2> USE <1>1 DEF romVars
  <2>1. CASE TaskWakes(KeepsBus)
    BY <2>1 DEF TaskWakes, RomInv, LoadInv, CopyInv, Copied, LeaseInv, LockInv
  <2>2. CASE TaskReadsRequest(KeepsBus, fil # NoImage)
    <3>1. path = "shown" => fil # NoImage
      BY DEF RomInv, LeaseInv, LoadInv
    <3> QED BY <2>2, <3>1 DEF TaskReadsRequest, RomInv, LoadInv, CopyInv, Copied, LeaseInv, LockInv
  <2>3. CASE TaskLocks
    BY <2>3 DEF TaskLocks, RomInv, LoadInv, CopyInv, Copied, LeaseInv, LockInv
  <2>4. CASE TaskStarts(KeepsBus, {SectorAt(fil, rsector)})
    <3>1. CASE path = "shown"
      <4>1. fetch /\ busy /\ fil \in Images \ {NoImage} /\ sec < SectorsOf(Size[fil]) /\ sec \in Nat
        BY <3>1 DEF RomInv, LeaseInv, LoadInv
      <4>2. SectorsOf(Size[fil]) \in 1 .. MaxSects /\ MaxSects \in Nat
        BY <4>1, ImageSectors, RomAssumption
      <4>3. sec \in Sect
        BY <4>1, <4>2 DEF Sect
      <4>4. sec * Beats < Size[fil]
        BY <4>1, <4>3, ImageSectors
      <4>5. ~torn => dsector' = <<fil, sec>>
        <5> SUFFICES ASSUME ~torn PROVE dsector' = <<fil, sec>>
          OBVIOUS
        <5>1. rsector = sec
          BY <2>4, <3>1 DEF TaskStarts, RomInv, LeaseInv
        <5>2. dsector' = SectorAt(fil, rsector)
          BY <2>4, <3>1 DEF TaskStarts
        <5> QED BY <4>1, <4>4, <5>1, <5>2 DEF SectorAt
      <4>6. LeaseInv'
        BY <2>4, <3>1, <4>5 DEF TaskStarts, RomInv, LeaseInv
      <4> QED BY <2>4, <4>6 DEF TaskStarts, RomInv, LoadInv, CopyInv, Copied, LockInv, LeaseInv
    <3>2. CASE path # "shown"
      BY <2>4, <3>2 DEF TaskStarts, RomInv, LoadInv, CopyInv, Copied, LeaseInv, LockInv
    <3> QED BY <3>1, <3>2
  <2>5. CASE TaskEnds
    BY <2>5 DEF TaskEnds, RomInv, LoadInv, CopyInv, Copied, LeaseInv, LockInv
  <2> QED BY <2>1, <2>2, <2>3, <2>4, <2>5 DEF Task, SvcTask
<1> QED BY <1>3, <1>4 DEF RomInv

-----------------------------------------------------------------------------
(* The FPGA. *)
LEMMA LeaseMovesKeepRom == ASSUME RomInv, Grants \/ TransferEnds, UNCHANGED <<drive, osd, image, fil, torn>>
                           PROVE RomInv'
<1> USE DEF RomInv
<1>1. UNCHANGED <<task, rsector, sdc_sem, sec, nsect, busy, pres, rom>>
  BY DEF Grants, TransferEnds, SvcGrants, SvcEnds, RomAcked, RomDone
<1>2. LockInv' /\ MountInv'
  BY <1>1 DEF LockInv, MountInv
<1>3. CASE Grants
  <2>1. UNCHANGED <<idx, fetch, have, buf>> /\ ~sd_rd' /\ sd_rd
    BY <1>3 DEF Grants, RomAcked
  <2>2. path = "free" /\ path' = "shown" /\ psector' = sec /\ irq'
    BY <1>3 DEF Grants, SvcGrants
  <2>3. LoadInv' /\ CopyInv'
    BY <1>1, <2>1 DEF LoadInv, CopyInv, Copied
  <2>4. LeaseInv'
    BY <1>1, <2>1, <2>2 DEF LeaseInv, LoadInv
  <2> QED BY <1>2, <2>3, <2>4
<1>4. CASE TransferEnds
  <2>1. path = "moving" /\ path' = "free" /\ RomDone(dsector)
    BY <1>4 DEF TransferEnds, SvcEnds
  <2>2. fetch /\ busy /\ ~sd_rd /\ task = "poll"
    BY <2>1 DEF LeaseInv, LoadInv
  <2>3. ~fetch' /\ have' /\ idx' = 0 /\ sd_rd' = sd_rd /\ buf' = dsector
    BY <2>1, <2>2 DEF RomDone
  <2>4. LoadInv'
    BY <1>1, <2>2, <2>3, RomAssumption DEF LoadInv
  <2>5. LeaseInv'
    BY <1>1, <2>1, <2>2, <2>3 DEF LeaseInv
  <2>6. CopyInv'
    <3>1. ~torn => buf' = <<fil, sec>>
      BY <2>1, <2>3 DEF LeaseInv
    <3>2. Copied(sec, idx)'
      BY <2>3 DEF Copied
    <3> QED BY <1>1, <3>1, <3>2 DEF CopyInv, Copied
  <2> QED BY <1>2, <2>4, <2>5, <2>6
<1> QED BY <1>3, <1>4

LEMMA AskKeepsRom ==
  ASSUME RomInv, RomAsks, UNCHANGED <<svcVars, drive, osd, image, fil, torn>>
  PROVE  RomInv'
<1>1. busy /\ ~have /\ ~fetch /\ fetch' /\ UNCHANGED <<sec, nsect, idx, busy, have, pres, buf, rom>>
  BY DEF RomAsks
<1>2. path = "free"
  BY <1>1 DEF RomInv, LeaseInv
<1> QED BY <1>1, <1>2 DEF RomInv, LockInv, MountInv, LoadInv, LeaseInv, CopyInv, Copied, svcVars

LEMMA CopyKeepsRom ==
  ASSUME RomInv, RomCopies, UNCHANGED <<svcVars, drive, osd, image, fil, torn>>
  PROVE  RomInv'
<1>1. /\ busy /\ have /\ idx < Beats /\ idx' = idx + 1 /\ rom' = [rom EXCEPT ![sec][idx] = buf]
      /\ UNCHANGED <<sd_rd, sec, nsect, busy, fetch, have, pres, buf>>
  BY DEF RomCopies
<1>2. LockInv' /\ MountInv' /\ LeaseInv'
  BY <1>1 DEF RomInv, LockInv, MountInv, LeaseInv, svcVars
<1>3. sec \in Nat /\ idx \in Nat /\ Beats \in Nat /\ ~pres /\ sec < nsect
  BY <1>1, RomAssumption DEF RomInv, LoadInv
<1>4. LoadInv'
  BY <1>1, <1>3 DEF RomInv, LoadInv, svcVars
<1>5. sec \in Sect
  <2>1. nsect \in 1 .. MaxSects /\ MaxSects \in Nat
    BY <1>1, ImageSectors, RomAssumption DEF RomInv, LoadInv
  <2> QED BY <1>3, <2>1 DEF Sect
<1>6. DOMAIN rom' = Sect /\ \A s \in Sect : DOMAIN rom'[s] = 0 .. Beats - 1
  BY <1>1, <1>5 DEF RomInv, CopyInv
<1>7. ASSUME ~torn PROVE (\A s \in 0 .. sec - 1 : Copied(s, Beats)') /\ Copied(sec, idx)'
  <2>1. buf = <<fil, sec>> /\ Copied(sec, idx) /\ \A s \in 0 .. sec - 1 : Copied(s, Beats)
    BY <1>1, <1>7 DEF RomInv, CopyInv
  <2>2. \A s \in 0 .. sec - 1 : s \in Sect /\ rom'[s] = rom[s]
    <3> SUFFICES ASSUME NEW s \in 0 .. sec - 1 PROVE s \in Sect /\ rom'[s] = rom[s]
      OBVIOUS
    <3>1. s \in Sect /\ s # sec
      BY <1>3, <1>5, RomAssumption DEF Sect
    <3> QED BY <1>1, <3>1 DEF RomInv, CopyInv
  <2>3. rom'[sec] = [rom[sec] EXCEPT ![idx] = buf] /\ DOMAIN rom[sec] = 0 .. Beats - 1
    BY <1>1, <1>5 DEF RomInv, CopyInv
  <2>4. rom'[sec][idx] = <<fil, sec>>
    BY <1>1, <1>3, <2>1, <2>3
  <2>5. ASSUME NEW b \in 0 .. (idx + 1) - 1 PROVE rom'[sec][b] = <<fil, sec>>
    <3>1. CASE b = idx
      BY <2>4, <3>1
    <3>2. CASE b # idx
      <4>1. b \in 0 .. idx - 1 /\ b \in 0 .. Beats - 1
        BY <1>1, <1>3, <3>2
      <4> QED BY <2>1, <2>3, <3>2, <4>1 DEF Copied
    <3> QED BY <3>1, <3>2
  <2>6. UNCHANGED <<sec, fil>> /\ idx' = idx + 1
    BY <1>1
  <2>7. (\A s \in 0 .. sec - 1 : Copied(s, Beats))'
    BY <2>1, <2>2, <2>6 DEF Copied
  <2> QED BY <2>5, <2>6, <2>7 DEF Copied
<1>8. CopyInv'
  <2>1. UNCHANGED <<torn, fil, sec, buf>> /\ ~pres'
    BY <1>1, <1>3
  <2>2. ~torn' => buf' = <<fil', sec'>>
    BY <1>1, <2>1 DEF RomInv, CopyInv
  <2> HIDE DEF Copied
  <2> QED BY <1>6, <1>7, <2>1, <2>2 DEF CopyInv
<1> QED BY <1>2, <1>4, <1>8 DEF RomInv

LEMMA NextSectorKeepsRom ==
  ASSUME RomInv, RomNextSector, UNCHANGED <<svcVars, drive, osd, image, fil, torn>>
  PROVE  RomInv'
<1>1. busy /\ have /\ idx = Beats /\ ~have' /\ UNCHANGED <<sd_rd, nsect, idx, fetch, buf, rom>>
  BY DEF RomNextSector
<1>2. ~fetch /\ ~sd_rd /\ path = "free" /\ sec \in Nat /\ nsect \in Nat /\ sec < nsect /\ ~pres
  BY <1>1 DEF RomInv, LoadInv, LeaseInv
<1>3. LeaseInv'
  BY <1>1, <1>2 DEF RomInv, LeaseInv, svcVars
<1>4. ASSUME ~torn, NEW s \in 0 .. sec PROVE Copied(s, Beats)'
  <2>1. Copied(sec, Beats) /\ \A t \in 0 .. sec - 1 : Copied(t, Beats)
    BY <1>1, <1>4 DEF RomInv, CopyInv
  <2>2. s = sec \/ s \in 0 .. sec - 1
    BY <1>2
  <2> QED BY <1>1, <2>1, <2>2 DEF Copied
<1>5. LockInv'
  BY DEF RomInv, LockInv, svcVars
<1>6. ~(osd \in OsdOpens /\ drive = RomDrive)
  BY <1>1 DEF RomInv, MountInv
<1>7. MountInv'
  BY <1>6 DEF RomInv, MountInv, OsdOpens
<1>8. CASE sec + 1 = nsect
  <2>1. ~busy' /\ pres'
    BY <1>8 DEF RomNextSector
  <2>2. sec' = sec
    BY <1>8 DEF RomNextSector
  <2>3. LoadInv'
    BY <1>1, <1>2, <2>1, <2>2 DEF RomInv, LoadInv
  <2>4. CopyInv'
    <3>1. \A s \in 0 .. nsect - 1 : s \in 0 .. sec
      BY <1>2, <1>8
    <3> QED BY <1>1, <1>4, <2>1, <3>1 DEF RomInv, CopyInv
  <2> QED BY <1>3, <1>5, <1>7, <2>3, <2>4 DEF RomInv
<1>9. CASE sec + 1 # nsect
  <2>1. busy' /\ ~pres' /\ sec' = sec + 1
    BY <1>1, <1>2, <1>9 DEF RomNextSector
  <2>2. LoadInv'
    BY <1>1, <1>2, <1>9, <2>1 DEF RomInv, LoadInv
  <2>3. CopyInv'
    <3>1. \A s \in 0 .. (sec + 1) - 1 : s \in 0 .. sec
      BY <1>2
    <3> QED BY <1>1, <1>4, <2>1, <3>1 DEF RomInv, CopyInv
  <2> QED BY <1>3, <1>5, <1>7, <2>2, <2>3 DEF RomInv
<1> QED BY <1>8, <1>9

LEMMA RomInvKept == ASSUME RomInv, [Next]_vars PROVE RomInv'
<1>1. CASE Fpga
  <2>1. UNCHANGED <<drive, osd, image, fil, torn>>
    BY <1>1 DEF Fpga, menuVars, fsel
  <2> QED BY <1>1, <2>1, LeaseMovesKeepRom, AskKeepsRom, CopyKeepsRom, NextSectorKeepsRom DEF Fpga, Loads
<1>2. CASE TState \/ UNCHANGED vars
  <2>1. UNCHANGED <<romVars, torn, osd, image, fil, drive, svcVars>>
    BY <1>2 DEF TState, vars, cardVars, menuVars, fsel
  <2>2. UNCHANGED <<busy, pres, sdc_sem, path, psector, dsector, irq, task, rsector>>
    BY <2>1 DEF romVars, svcVars
  <2>3. LockInv' /\ MountInv'
    BY <2>1, <2>2 DEF RomInv, LockInv, MountInv
  <2> QED BY <2>1, <2>2, <2>3, RomKept
<1>3. CASE Works
  BY <1>3, BasKeepsRom, OpenKeepsRom, ReadsKeepRom, EjectsKeepRom, InsertsKeepRom DEF Works, Listing, DirReads
<1> QED BY <1>1, <1>2, <1>3, TaskKeepsRom, UserKeepsRom DEF Next

(* However often and whenever the image was replaced, a ROM disk that is   *)
(* present holds the whole of the open file, each sector in its place, for *)
(* images of any size, beats of a sector and sectors that fit.             *)
THEOREM RomCopyWholeHolds == Spec => []RomCopyWhole
<1>1. Init => RomInv
  <2> SUFFICES ASSUME Init PROVE RomInv
    OBVIOUS
  <2>1. RomInit /\ SvcInit(Garbage) /\ osd = "menu"
    BY DEF Init
  <2>2. LockInv /\ MountInv
    BY <2>1 DEF SvcInit, LockInv, MountInv, OsdLocks, OsdOpens
  <2>3. LoadInv /\ LeaseInv
    BY <2>1 DEF RomInit, SvcInit, LoadInv, LeaseInv
  <2>4. CopyInv
    BY <2>1 DEF RomInit, CopyInv, NothingCopied
  <2> QED BY <2>2, <2>3, <2>4 DEF RomInv
<1>2. RomInv => RomCopyWhole
  <2> SUFFICES ASSUME RomInv, pres, ~torn PROVE
        /\ fil # NoImage
        /\ \A s \in Sect : s * Beats < Size[fil] => \A b \in 0 .. Beats - 1 : rom[s][b] = <<fil, s>>
    BY DEF RomCopyWhole
  <2>1. fil \in Images \ {NoImage} /\ nsect = SectorsOf(Size[fil]) /\ nsect \in Nat
    BY DEF RomInv, LoadInv
  <2>2. \A s \in Sect : s * Beats < Size[fil] => s \in 0 .. nsect - 1
    BY <2>1, ImageSectors DEF Sect
  <2> QED BY <2>1, <2>2 DEF RomInv, CopyInv, Copied
<1> QED BY <1>1, <1>2, RomInvKept, PTL DEF Spec

-----------------------------------------------------------------------------
(* A program's byte is out of the ring before the next one comes: in the   *)
(* two T-states after it the CPU takes one slot at most.                   *)
OnePending ==
  /\ wp = Succ(rp) /\ fifo[Cell(rp)] = sent - 1
  /\ landed = 0 .. sent - 2
  /\ byte_gap = 0 \/ (byte_gap = 1 /\ cpu_gap < CpuCycle)

NonePending == wp = rp /\ landed = 0 .. sent - 1

LandInv ==
  /\ SentInv
  /\ wp \in Pointer /\ rp \in Pointer
  /\ osd \in {"delay", "run"} => sent = Bytes
  /\ osd = "run" => byte_gap = ByteTime
  /\ sent = 0 => landed = {} /\ ~held
  /\ sent > 0 /\ busy => held
  /\ sent > 0 /\ ~held => NonePending \/ OnePending

(* The ROM disk is mounted from the menu, not while a program is sent. *)
LEMMA SteadyBusy ==
  ASSUME SentInv, [Next]_vars, busy'
  PROVE  busy \/ sent = 0
<1>1. ASSUME NEW bytes, RomDone(bytes) PROVE busy' = busy
  BY <1>1 DEF RomDone
<1>2. ASSUME UNCHANGED romVars PROVE busy' = busy
  BY <1>2 DEF romVars
<1>3. ASSUME ReadsCard PROVE busy' = busy
  BY <1>1, <1>2, <1>3 DEF ReadsCard, SameCard
<1>4. CASE Task \/ TState \/ User \/ UNCHANGED vars
  BY <1>2, <1>4 DEF Task, TState, User, MenuStep, PicksList, PicksImage, PicksNoDisk, PicksProgram,
                    SameCard, vars
<1>5. CASE Fpga
  BY <1>1, <1>5 DEF Fpga, Grants, TransferEnds, Loads, RomAcked, RomAsks, RomCopies, RomNextSector
<1>6. CASE Works
  <2>1. ASSUME NEW a, NEW b, Locks(a, b) PROVE busy' = busy
    BY <1>2, <2>1 DEF Locks, SameCard
  <2>2. ASSUME NEW a, NEW last, NEW b, Pokes(a, last, b) PROVE busy' = busy
    BY <1>2, <2>2 DEF Pokes, SameCard
  <2>3. CASE Ejects \/ Inserts
    BY <2>3 DEF Ejects, Inserts, From, SentInv
  <2>4. CASE DirReads \/ Opens \/ OpenFails \/ BasOpens \/ ReadsLine
    BY <1>3, <2>4 DEF DirReads, LooksForFolder, ListReads, ListFails, Opens, OpenFails, BasOpens, ReadsLine
  <2>5. CASE AppendsForever \/ Listed \/ OpenEnds \/ Resets \/ Closes \/ Delays \/ BasEnds
    BY <1>2, <2>5 DEF AppendsForever, Listed, OpenEnds, Resets, Closes, Delays, BasEnds, SameCard
  <2> QED BY <1>6, <2>1, <2>2, <2>3, <2>4, <2>5 DEF Works, Listing, DirReads
<1> QED BY <1>4, <1>5, <1>6 DEF Next

(* Where bas_run is, but for the bytes it sends. *)
LEMMA LandSame ==
  ASSUME LandInv, SentInv', UNCHANGED <<pokeVars, basVars>>, busy' => busy \/ sent = 0,
         \/ osd' = osd \/ osd' \notin {"delay", "run"}
         \/ osd' = "delay" /\ sent = Bytes
         \/ osd' = "run" /\ osd = "delay" /\ byte_gap = ByteTime
  PROVE  LandInv'
<1>1. UNCHANGED <<wp, rp, fifo, sent, byte_gap, cpu_gap, landed, held>>
  BY DEF pokeVars, basVars
<1>2. NonePending' = NonePending /\ OnePending' = OnePending
  BY <1>1 DEF NonePending, OnePending
<1>3. (osd' \in {"delay", "run"} => sent' = Bytes) /\ (osd' = "run" => byte_gap' = ByteTime)
  BY <1>1 DEF LandInv
<1>4. sent \in Nat
  BY DEF LandInv, SentInv
<1> QED BY <1>1, <1>2, <1>3, <1>4 DEF LandInv

(* A byte comes when the one before has gone. *)
LEMMA PokesLand ==
  ASSUME LandInv, SentInv', NEW a, NEW last, NEW b, Pokes(a, last, b),
         osd' \in {"delay", "run"} => sent' = Bytes /\ osd' = "delay"
  PROVE  LandInv'
<1>1. /\ sent \in Nat /\ sent' = sent + 1 /\ busy' = busy /\ landed' = landed
      /\ byte_gap = ByteTime /\ byte_gap' = 0
      /\ held' = (held \/ busy \/ (sent = 0 /\ ~empty))
  BY DEF Pokes, LandInv, SentInv, SameCard, romVars
<1>2. ByteTime \in Nat /\ ByteTime >= 2
  BY LoaderAssumption
<1>3. /\ fifo' = [c \in Cells |-> IF ~full /\ c = Cell(wp) THEN sent ELSE fifo[c]]
      /\ wp' = (IF ~full THEN Succ(wp) ELSE wp) /\ rp' = rp
  <2>1. PokeClock(TRUE, sent, FALSE)
    BY DEF Pokes
  <2> QED BY <2>1 DEF PokeClock
<1>4. wp' \in Pointer /\ rp' \in Pointer
  BY <1>3, PokeAssumption DEF LandInv, Pointer, Succ
<1>5. ASSUME ~held' PROVE OnePending'
  <2>1. ~held /\ (sent = 0 => wp = rp)
    BY <1>1, <1>5 DEF empty
  <2>2. wp = rp /\ landed = 0 .. sent - 1
    <3>1. CASE sent = 0
      <4>1. 0 .. sent - 1 = {}
        BY <3>1
      <4> QED BY <2>1, <3>1, <4>1 DEF LandInv
    <3>2. CASE sent # 0
      <4>1. sent > 0
        BY <1>1, <3>2
      <4>2. ~OnePending
        BY <1>1, <1>2 DEF OnePending
      <4> QED BY <2>1, <4>1, <4>2 DEF LandInv, NonePending
    <3> QED BY <3>1, <3>2
  <2>3. ~full /\ Cell(wp) \in Cells
    BY <2>2, PokeAssumption DEF full, LandInv, Pointer, Cell, Cells
  <2>4. wp' = Succ(rp') /\ fifo'[Cell(rp')] = sent
    BY <1>3, <2>2, <2>3
  <2>5. sent' - 1 = sent /\ sent' - 2 = sent - 1
    BY <1>1
  <2> QED BY <1>1, <2>2, <2>4, <2>5 DEF OnePending
<1>6. sent' # 0
  BY <1>1
<1>7. busy' => held'
  BY <1>1, Zenon
<1>8. osd' # "run"
  OBVIOUS
<1> QED BY <1>4, <1>5, <1>6, <1>7, <1>8 DEF LandInv

(* A T-state: the CPU takes the slot, and not the next one too, or the     *)
(* byte goes to memory.                                                    *)
LEMMA TStateLands == ASSUME LandInv, SentInv', TState PROVE LandInv'
<1>1. UNCHANGED <<osd, sent, busy>>
  BY DEF TState, cardVars, romVars
<1>2. PICK cpu \in {c \in BOOLEAN : c => cpu_gap = CpuCycle /\ ~busy} :
        LET req == Slots(cpu) IN
        /\ PokeClock(FALSE, Blank, req)
        /\ landed' = IF req /\ sent # 0 THEN landed \cup {req_entry} ELSE landed
        /\ cpu_gap' = IF cpu THEN 1 ELSE IF wp' = rp' THEN CpuCycle ELSE Later(cpu_gap, CpuCycle)
  BY DEF TState
<1>3. /\ fifo' = [c \in Cells |-> IF Slots(cpu) /\ c = Cell(rp) THEN Blank ELSE fifo[c]]
      /\ wp' = wp /\ rp' = IF Slots(cpu) THEN Succ(rp) ELSE rp
  BY <1>2 DEF PokeClock
<1>4. /\ byte_gap' = Later(byte_gap, ByteTime) /\ held' = (held \/ (busy /\ sent > 0))
      /\ sent \in Nat /\ ByteTime \in Nat /\ ByteTime >= 2 /\ CpuCycle \in Nat /\ CpuCycle >= 2
  BY LoaderAssumption DEF TState, LandInv, SentInv
<1>5. wp' \in Pointer /\ rp' \in Pointer
  BY <1>3, PokeAssumption DEF LandInv, Pointer, Succ
<1>6. osd' = "run" => byte_gap' = ByteTime
  BY <1>1, <1>4 DEF LandInv, Later
<1>7. sent = 0 => landed' = {} /\ ~held'
  BY <1>2, <1>4 DEF LandInv
<1>8. ASSUME sent > 0, ~held' PROVE NonePending' \/ OnePending'
  <2>1. ~held /\ ~busy
    BY <1>4, <1>8
  <2>2. CASE NonePending
    <3>1. ~Slots(cpu)
      BY <2>2 DEF NonePending, Slots, Req, empty
    <3> QED BY <1>1, <1>2, <1>3, <2>2, <3>1 DEF NonePending
  <2>3. CASE OnePending
    <3>1. wp # rp
      BY <2>3, PokeAssumption DEF OnePending, LandInv, Pointer, Succ
    <3>2. CASE cpu
      <4>1. ~Slots(cpu) /\ cpu_gap = CpuCycle /\ cpu_gap' = 1
        BY <1>2, <3>2 DEF Slots, Req
      <4>2. byte_gap = 0
        BY <1>4, <2>3, <4>1 DEF OnePending
      <4>3. byte_gap' = 1
        BY <1>4, <4>2 DEF Later
      <4>4. Cell(rp) \in Cells
        BY PokeAssumption DEF LandInv, Pointer, Cell, Cells
      <4>5. landed' = landed /\ rp' = rp /\ fifo'[Cell(rp)] = fifo[Cell(rp)]
        BY <1>2, <1>3, <4>1, <4>4
      <4> QED BY <1>1, <1>3, <1>4, <2>3, <4>1, <4>3, <4>5 DEF OnePending
    <3>3. CASE ~cpu
      <4>1. Slots(cpu)
        BY <2>1, <3>1, <3>3 DEF Slots, Req, empty
      <4>2. rp' = wp' /\ landed' = landed \cup {sent - 1}
        BY <1>2, <1>3, <1>8, <2>3, <4>1 DEF OnePending, req_entry
      <4>3. landed' = 0 .. sent - 1
        <5>1. landed = 0 .. sent - 2
          BY <2>3 DEF OnePending
        <5> QED BY <1>4, <1>8, <4>2, <5>1
      <4> QED BY <1>1, <4>2, <4>3 DEF NonePending
    <3> QED BY <3>2, <3>3
  <2> QED BY <1>8, <2>1, <2>2, <2>3 DEF LandInv
<1>9. sent > 0 /\ busy => held'
  BY <1>4
<1> QED BY <1>1, <1>5, <1>6, <1>7, <1>8, <1>9 DEF LandInv

LEMMA LandKept == ASSUME LandInv, [Next]_vars PROVE LandInv'
<1>1. SentInv' /\ (busy' => busy \/ sent = 0)
  BY SentKept, SteadyBusy DEF LandInv
<1>2. CASE Task \/ Fpga \/ UNCHANGED vars
  <2>1. UNCHANGED <<pokeVars, basVars, osd>>
    BY <1>2 DEF Task, Fpga, vars, cardVars
  <2> QED BY <1>1, <2>1, LandSame
<1>3. CASE User
  <2>1. UNCHANGED <<pokeVars, basVars>> /\ osd' \notin {"delay", "run"}
    BY <1>3 DEF User, MenuStep, PicksList, PicksImage, PicksNoDisk, PicksProgram, To, SameBas
  <2> QED BY <1>1, <2>1, LandSame
<1>4. CASE Works
  <2>1. CASE Locks("listLock", "list") \/ Locks("openLock", "open") \/ Locks("basLock", "basOpen")
    <3>1. UNCHANGED <<pokeVars, basVars>> /\ osd' \notin {"delay", "run"}
      BY <2>1 DEF Locks, To, SameBas
    <3> QED BY <1>1, <3>1, LandSame
  <2>2. CASE Listing \/ Listed \/ Ejects \/ Opens \/ OpenFails \/ OpenEnds \/ Inserts
             \/ BasOpens \/ Resets \/ ReadsLine
    <3>1. UNCHANGED <<pokeVars, basVars>> /\ osd' \notin {"delay", "run"}
      BY <2>2 DEF Listing, DirReads, LooksForFolder, ListReads, ListFails, AppendsForever, Listed,
                  Ejects, Opens, OpenFails, OpenEnds, Inserts, BasOpens, Resets, ReadsLine, To,
                  SameBas
    <3> QED BY <1>1, <3>1, LandSame
  <2>3. CASE Pokes("poke", LineBytes, "close")
    <3>1. osd' \notin {"delay", "run"}
      BY <2>3 DEF Pokes, To
    <3> QED BY <1>1, <2>3, <3>1, PokesLand
  <2>4. CASE Pokes("tail", Bytes, "delay")
    <3>1. osd' \in {"delay", "run"} => sent' = Bytes /\ osd' = "delay"
      BY <2>4 DEF Pokes, To
    <3> QED BY <1>1, <2>4, <3>1, PokesLand
  <2>5. CASE Closes
    <3>1. UNCHANGED <<pokeVars, basVars>> /\ sent = LineBytes
          /\ osd' = IF LineBytes = Bytes THEN "delay" ELSE "tail"
      BY <2>5 DEF Closes, From, To, SameBas, LandInv, SentInv
    <3> QED BY <1>1, <3>1, LandSame
  <2>6. CASE Delays
    <3>1. UNCHANGED <<pokeVars, basVars>> /\ osd = "delay" /\ osd' = "run" /\ byte_gap = ByteTime
      BY <2>6 DEF Delays, From, To, SameBas
    <3> QED BY <1>1, <3>1, LandSame
  <2>7. CASE BasEnds
    <3>1. osd' = "menu" /\ sent' = 0 /\ landed' = {} /\ held' = FALSE /\ UNCHANGED <<wp, rp>>
      BY <2>7 DEF BasEnds, To, pokeVars
    <3> QED BY <1>1, <3>1 DEF LandInv
  <2> QED BY <1>4, <2>1, <2>2, <2>3, <2>4, <2>5, <2>6, <2>7 DEF Works, Listing, DirReads
<1>5. CASE TState
  BY <1>1, <1>5, TStateLands
<1> QED BY <1>2, <1>3, <1>4, <1>5 DEF Next

(* All of a program is in memory when it is run, for programs of any       *)
(* length and a ring of any depth: the CPU leaves poke.v a slot in two     *)
(* T-states, and an SPI byte takes no less.                                *)
THEOREM ProgramWholeHolds == Spec => []ProgramWhole
<1>1. Init => LandInv
  <2> SUFFICES ASSUME Init PROVE LandInv
    OBVIOUS
  <2>1. PokeInit /\ RomInit /\ osd = "menu" /\ sent = 0 /\ landed = {} /\ held = FALSE
    BY DEF Init
  <2>2. SentInv
    BY <2>1 DEF RomInit, SentInv
  <2>3. wp \in Pointer /\ rp \in Pointer
    BY <2>1, PokeAssumption DEF PokeInit, Pointer
  <2> QED BY <2>1, <2>2, <2>3 DEF LandInv
<1>2. LandInv => ProgramWhole
  <2> SUFFICES ASSUME LandInv, osd = "run", ~held PROVE landed = Entry
    BY DEF ProgramWhole
  <2>1. sent = Bytes /\ byte_gap = ByteTime
    BY DEF LandInv
  <2>2. ByteTime >= 2 /\ ByteTime \in Nat /\ Bytes \in Nat /\ Bytes >= 1 /\ Entry = 0 .. Bytes - 1
    BY LoaderAssumption
  <2>3. ~OnePending
    BY <2>1, <2>2 DEF OnePending
  <2> QED BY <2>1, <2>2, <2>3 DEF LandInv, NonePending
<1> QED BY <1>1, <1>2, LandKept, PTL DEF Spec
=============================================================================
