------------------------------- MODULE Keyboard -------------------------------
(***************************************************************************)
(* The way of a key: from a report of a device of Usb.tla, through         *)
(* kbd_parse of usb_host.c, either into the machine's matrix (hid.v,       *)
(* ports.v) or, while the OSD is visible, into the queue of the OSD's task,*)
(* which may hide the OSD or show it between any two steps of the parser.  *)
(*                                                                         *)
(* kbd_parse looks at osd_is_visible() anew for every key, and sends a key *)
(* over SPI some time after it looked; each look and each sending is a     *)
(* step.  Of the eight modifiers one is modelled, of the six key slots     *)
(* KeySlots.  A joystick's byte of buttons is a report that has only the   *)
(* modifiers' byte: that is the byte it shares with the keyboard in the    *)
(* union of hid_info.                                                      *)
(***************************************************************************)
EXTENDS Usb, Sequences

CONSTANTS
  KeySlots,    \* how many keys a report holds
  KeyReports,  \* the reports keyboards send
  JoyBytes,    \* the buttons joysticks send, as the modifier's bit
  F12, ESC,    \* the two keys the OSD takes
  MenuKeys,    \* the keys that mean something to the menu
  Mod,         \* the modifier
  NoKey,
  QueueLength  \* of xQueue

Keys == UNION {{r.keys[i] : i \in 1 .. KeySlots} : r \in KeyReports} \ {NoKey}
NoKeys == [i \in 1 .. KeySlots |-> NoKey]
Buttons == [mod : JoyBytes, keys : {NoKeys}]
Parser == {"mods", "sendMod", "release", "sendRelease", "press", "escape", "typed", "sendPress"}

ASSUME KeyboardAssumption ==
  /\ KeySlots \in Nat \ {0} /\ QueueLength \in Nat \ {0} /\ JoyBytes \subseteq BOOLEAN
  /\ \A r \in KeyReports : r \in [mod : BOOLEAN, keys : [1 .. KeySlots -> Keys \cup {NoKey}]]

VARIABLES
  buffer,       \* the report the thread is at
  last_report,  \* the one before, of the union: a joystick's last_state too
  at, key_i,    \* where in kbd_parse the thread is
  matrix,       \* the keys that are down in the machine (keys of ports.v)
  visible,      \* osd->state
  xQueue,       \* events for the OSD's task
  excused       \* history: keys that were down while the OSD was visible

kbdVars == <<buffer, last_report, at, key_i, matrix, visible, xQueue, excused>>
vars == <<usbVars, kbdVars>>

NoReport == [mod |-> FALSE, keys |-> NoKeys]

Init ==
  /\ UsbInit
  /\ buffer = [s \in Slot |-> NoReport]
  /\ last_report = [s \in Slot |-> NoReport]
  /\ at = [s \in Slot |-> "mods"]
  /\ key_i = [s \in Slot |-> 1]
  /\ matrix = {} /\ excused = {}
  /\ visible = FALSE
  /\ xQueue = <<>>

-----------------------------------------------------------------------------
(* The machine's matrix and the history of the keys that the OSD keeps     *)
(* down, for every step: a key stays excused until it is released.         *)
Keeps(m, shown, more) ==
  /\ matrix' = m
  /\ visible' = shown
  /\ excused' = (IF visible \/ shown THEN m ELSE excused \cup more) \cap m

Same == Keeps(matrix, visible, {})

(* xQueueSendToBack with no time to wait: an event that finds no room is lost. *)
Posted(e) == IF Len(xQueue) < QueueLength THEN Append(xQueue, e) ELSE xQueue

(* The parser of slot s goes on at w, with the key at hand or the next. *)
ParserAt(s, w) ==
  /\ at' = [at EXCEPT ![s] = w]
  /\ UNCHANGED <<usbVars, buffer, last_report, key_i>>

NextKey(s) ==
  IF key_i[s] < KeySlots
    THEN /\ key_i' = [key_i EXCEPT ![s] = @ + 1]
         /\ at' = [at EXCEPT ![s] = "release"]
         /\ UNCHANGED <<usbVars, buffer, last_report>>
    ELSE /\ Parsed(s)
         /\ key_i' = [key_i EXCEPT ![s] = 1]
         /\ at' = [at EXCEPT ![s] = "mods"]
         /\ last_report' = [last_report EXCEPT ![s] = buffer[s]]
         /\ buffer' = [buffer EXCEPT ![s] = NoReport]

Key(s)  == buffer[s].keys[key_i[s]]
Was(s)  == last_report[s].keys[key_i[s]]
Parses(s, w) == pc[s] = "parse" /\ kind[s] = "keyboard" /\ at[s] = w
Toggle == IF visible THEN "HIDE" ELSE "SHOW"

(* The modifiers. *)
Mods(s) ==
  /\ Parses(s, "mods")
  /\ ParserAt(s, IF buffer[s].mod # last_report[s].mod /\ ~visible THEN "sendMod"
                                                                   ELSE "release")
  /\ Same /\ UNCHANGED xQueue

SendMod(s) ==
  /\ Parses(s, "sendMod")
  /\ ParserAt(s, "release")
  /\ Keeps(IF buffer[s].mod THEN matrix \cup {Mod} ELSE matrix \ {Mod}, visible, {})
  /\ UNCHANGED xQueue

(* A slot of the report whose key changed: its old key is released ... *)
Unchanged(s) ==
  /\ Parses(s, "release") /\ Key(s) = Was(s)
  /\ NextKey(s)
  /\ Same /\ UNCHANGED xQueue

AfterLookOnlyUp(s) ==
  IF Was(s) # NoKey /\ Key(s) = NoKey /\ ~visible THEN "sendRelease" ELSE "press"
AfterLook(s) == IF Was(s) # NoKey /\ ~visible THEN "sendRelease" ELSE "press"

Release(s) ==
  /\ Parses(s, "release") /\ Key(s) # Was(s)
  /\ ParserAt(s, AfterLook(s))
  /\ Same /\ UNCHANGED xQueue

SendRelease(s) ==
  /\ Parses(s, "sendRelease")
  /\ ParserAt(s, "press")
  /\ Keeps(matrix \ {Was(s)}, visible, {})
  /\ UNCHANGED xQueue

(* ... and its new one pressed: for the OSD, for the menu, or for the core. *)
PressNone(s) ==
  /\ Parses(s, "press") /\ Key(s) = NoKey
  /\ NextKey(s)
  /\ Same /\ UNCHANGED xQueue

PressF12(s) ==
  /\ Parses(s, "press") /\ Key(s) = F12
  /\ NextKey(s)
  /\ xQueue' = Posted(Toggle)
  /\ Same

PressKey(s) ==
  /\ Parses(s, "press") /\ Key(s) \notin {NoKey, F12}
  /\ ParserAt(s, IF visible /\ Key(s) = ESC THEN "escape" ELSE "typed")
  /\ Same /\ UNCHANGED xQueue

Escape(s) ==
  /\ Parses(s, "escape")
  /\ NextKey(s)
  /\ xQueue' = Posted(Toggle)
  /\ Same

TypedForMenu(s) ==
  /\ Parses(s, "typed") /\ visible
  /\ NextKey(s)
  /\ xQueue' = IF Key(s) \in MenuKeys THEN Posted("menu") ELSE xQueue
  /\ Same

TypedForCore(s) ==
  /\ Parses(s, "typed") /\ ~visible
  /\ ParserAt(s, "sendPress")
  /\ Same /\ UNCHANGED xQueue

SendPress(s) ==
  /\ Parses(s, "sendPress")
  /\ NextKey(s)
  /\ Keeps(matrix \cup {Key(s)}, visible, {})
  /\ UNCHANGED xQueue

(* joystick_parse: last_state lies over the modifiers of last_report. *)
JoystickParse(s) ==
  /\ pc[s] = "parse" /\ kind[s] = "joystick"
  /\ Parsed(s)
  /\ last_report' = [last_report EXCEPT ![s].mod = buffer[s].mod]
  /\ buffer' = [buffer EXCEPT ![s] = NoReport]
  /\ Keeps(matrix, visible, {Mod})
  /\ UNCHANGED <<at, key_i, xQueue>>

Parse(s) ==
  \/ Mods(s) \/ SendMod(s) \/ Unchanged(s) \/ Release(s) \/ SendRelease(s)
  \/ PressNone(s) \/ PressF12(s) \/ PressKey(s) \/ Escape(s)
  \/ TypedForMenu(s) \/ TypedForCore(s) \/ SendPress(s) \/ JoystickParse(s)

-----------------------------------------------------------------------------
(* A report of the device arrives. *)
Arrives(s) ==
  /\ Reports(s)
  /\ \E r \in IF kind[s] = "keyboard" THEN KeyReports ELSE Buttons :
       buffer' = [buffer EXCEPT ![s] = IF stop[s] THEN NoReport ELSE r]
  /\ Same /\ UNCHANGED <<last_report, at, key_i, xQueue>>

(* The other steps of the devices. *)
Device(s) ==
  /\ HubTask(s) \/ Unplug(s) \/ Runs(s) \/ Fails(s)
  /\ UNCHANGED kbdVars

Passes == Tick /\ UNCHANGED kbdVars

(* The OSD's task takes an event.  What the menu does with one is          *)
(* Menu.tla's; here it may be a button that resets the machine, and with   *)
(* it the matrix, and hides the OSD.                                       *)
OsdShows == xQueue # <<>> /\ Head(xQueue) = "SHOW" /\ Keeps(matrix, TRUE, {})
OsdHides == xQueue # <<>> /\ Head(xQueue) = "HIDE" /\ Keeps(matrix, FALSE, {})
OsdActs  == xQueue # <<>> /\ Head(xQueue) = "menu" /\ Same
OsdResets == xQueue # <<>> /\ Head(xQueue) = "menu" /\ Keeps({}, FALSE, {})

OsdTask ==
  /\ OsdShows \/ OsdHides \/ OsdActs \/ OsdResets
  /\ xQueue' = Tail(xQueue)
  /\ UNCHANGED <<usbVars, buffer, last_report, at, key_i>>

Next ==
  \/ \E s \in Slot : Device(s) \/ Arrives(s) \/ Parse(s)
  \/ Passes
  \/ OsdTask

Spec == Init /\ [][Next]_vars

(* Tasks that can run do, waits come to their end, and time passes. *)
ThreadRuns(s) == (Runs(s) /\ UNCHANGED kbdVars) \/ Parse(s)

HubStops == (\E s \in Slot : StopBegins(s) \/ StopEnds(s)) /\ UNCHANGED kbdVars

FairSpec ==
  /\ Spec
  /\ \A s \in Slot : WF_vars(ThreadRuns(s))
  /\ WF_vars(HubStops) /\ WF_vars(Passes)

-----------------------------------------------------------------------------
Holds(r, k) == (k = Mod /\ r.mod) \/ \E i \in 1 .. KeySlots : r.keys[i] = k

(* A key that is down in the machine is one the last report of some slot   *)
(* holds, so that the next report without it releases it: through reports  *)
(* that reorder or replace keys, through devices that come and go, with    *)
(* the OSD shown or hidden at any moment.  Excused are the keys that were  *)
(* down while the OSD was visible (kbd_parse does not release them then,   *)
(* and remembers the report), and a modifier whose memory a joystick in    *)
(* the same slot overwrote.                                                *)
NoGhostKey ==
  (\A s \in Slot : pc[s] # "parse") =>
     \A k \in matrix \ excused : \E s \in Slot : Holds(last_report[s], k)

(* A device that runs is listened to again, however often it was silent    *)
(* for a second, failed or halted its endpoint: "the first idle second is  *)
(* the last" (usb_host.c) is what must not be.                             *)
ListensAgain ==
  \A s \in Slot : (state[s] = "RUNNING" /\ s \in connected) ~> (pc[s] = "urb" \/ s \notin connected)

=============================================================================
