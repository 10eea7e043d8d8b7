--------------------------------- MODULE Usb ---------------------------------
(***************************************************************************)
(* The HID devices of usb_host.c: the USB stack's hub task attaches and    *)
(* detaches them, and each has a client thread of its own that submits a   *)
(* URB, waits for it, and parses what it brought.                          *)
(*                                                                         *)
(* The stack frees a device's class the moment usbh_hid_stop() returns, so *)
(* that function waits for the thread, but not for ever.  Time passes in   *)
(* ticks, and only when no task has a step to take: on this scale only the *)
(* waits for a URB, for a control transfer and for the thread take time.   *)
(* What a report does is Keyboard.tla's.                                   *)
(***************************************************************************)
EXTENDS Naturals, FiniteSets

CONSTANTS
  Slot,       \* the entries of hid_info, which the stack numbers devices by
  URB_TIME,   \* HID_URB_MS, in ticks
  CTRL_TIME,  \* a control transfer's timeout and the 10 ms after it
  STOP_TIME,  \* how long usbh_hid_stop waits
  Plugged     \* the devices, <<slot, kind>>, that are there at once: a bound

ASSUME UsbAssumption ==
  /\ IsFiniteSet(Slot) /\ Slot \subseteq Nat
  /\ URB_TIME \in Nat /\ CTRL_TIME \in Nat /\ STOP_TIME \in Nat
  /\ URB_TIME < STOP_TIME /\ CTRL_TIME < STOP_TIME

VARIABLES
  class,      \* the slots whose class the stack has allocated
  connected,  \* the slots whose device is plugged in (hport->connected)
  kind,       \* what the parser made of the report descriptor
  state,      \* NONE, RUNNING or FAILED
  js_index, js_map,
  stop,       \* hid->stop
  urb_busy,   \* the URB's errorcode is -USB_ERR_BUSY
  pc,         \* where the client thread is; "out": task_handle is NULL
  left,       \* what is left of the wait it is in
  hub         \* the hub task: the slot it stops, and what is left of its wait

usbVars == <<class, connected, kind, state, js_index, js_map, stop, urb_busy,
             pc, left, hub>>
deviceVars == <<class, connected, kind, state, js_index, js_map>>

Kinds == {"keyboard", "joystick", "unusable"}
States == {"NONE", "RUNNING", "FAILED"}
Places == {"out", "top", "urb", "recover", "parse"}
JsIndex == 0 .. Cardinality(Slot)
Idle == [slot |-> 0, left |-> 0, stops |-> FALSE]

UsbInit ==
  /\ class = {} /\ connected = {} /\ js_map = {}
  /\ kind = [s \in Slot |-> "unusable"]
  /\ state = [s \in Slot |-> "NONE"]
  /\ js_index = [s \in Slot |-> 0]
  /\ stop = [s \in Slot |-> FALSE]
  /\ urb_busy = [s \in Slot |-> FALSE]
  /\ pc = [s \in Slot |-> "out"]
  /\ left = [s \in Slot |-> 0]
  /\ hub = Idle

-----------------------------------------------------------------------------
(* The hub task. *)

(* The stack gives a new device the lowest number that is free. *)
Minor(s) == s \notin class /\ \A t \in Slot : t < s => t \in class

CountedJs(map) == Cardinality(map)
FreeJs(map) ==
  CHOOSE j \in JsIndex : j \notin map /\ \A i \in JsIndex : i < j => i \in map

(* usbh_hid_run.  Its first branch, for a slot that is not NONE, is never *)
(* taken: the slot's class is freed only after usbh_hid_stop.             *)
Attach(s, k) ==
  /\ ~hub.stops /\ Minor(s)
  /\ {<<t, kind[t]>> : t \in class} \cup {<<s, k>>} \in Plugged
  /\ class' = class \cup {s}
  /\ connected' = connected \cup {s}
  /\ kind' = [kind EXCEPT ![s] = k]
  /\ stop' = [stop EXCEPT ![s] = FALSE]
  /\ urb_busy' = [urb_busy EXCEPT ![s] = FALSE]
  /\ state' = [state EXCEPT ![s] = IF k = "unusable" THEN "FAILED" ELSE "RUNNING"]
  /\ IF k = "joystick"
       THEN /\ js_index' = [js_index EXCEPT ![s] = FreeJs(js_map)]
            /\ js_map' = js_map \cup {FreeJs(js_map)}
       ELSE UNCHANGED <<js_index, js_map>>
  /\ pc' = [pc EXCEPT ![s] = IF k = "unusable" THEN "out" ELSE "top"]
  /\ UNCHANGED <<left, hub>>

(* The device goes; its URB is killed without a callback. *)
Unplug(s) ==
  /\ s \in connected
  /\ connected' = connected \ {s}
  /\ UNCHANGED <<class, kind, state, js_index, js_map, stop, urb_busy, pc, left, hub>>

(* usbh_hid_stop: the flag, the wait, and what is left to do after it. *)
StopBegins(s) ==
  /\ ~hub.stops /\ s \in class \ connected
  /\ stop' = [stop EXCEPT ![s] = TRUE]
  /\ hub' = [slot |-> s, left |-> STOP_TIME, stops |-> TRUE]
  /\ UNCHANGED <<deviceVars, urb_busy, pc, left>>

WithoutJs(s) ==
  IF state[s] = "RUNNING" /\ kind[s] = "joystick" THEN js_map \ {js_index[s]} ELSE js_map

(* What stays behind in the slot and means nothing until the next attach   *)
(* sets it anew is cleared here: the kind, the number and the flag.        *)
StopEnds(s) ==
  /\ hub.stops /\ hub.slot = s
  /\ pc[s] = "out" \/ hub.left = 0
  /\ js_map' = WithoutJs(s)
  /\ state' = [state EXCEPT ![s] = "NONE"]
  /\ class' = class \ {s}
  /\ hub' = Idle
  /\ kind' = [kind EXCEPT ![s] = "unusable"]
  /\ js_index' = [js_index EXCEPT ![s] = 0]
  /\ stop' = [stop EXCEPT ![s] = FALSE]
  /\ UNCHANGED <<connected, urb_busy, pc, left>>

-----------------------------------------------------------------------------
(* The client thread. *)

Goes(s, from, to, time) ==
  /\ pc[s] = from
  /\ pc' = [pc EXCEPT ![s] = to]
  /\ left' = [left EXCEPT ![s] = time]
  /\ UNCHANGED <<deviceVars, stop, hub>>

(* What follows the end of a URB, unless the thread is to stop. *)
UrbEndsUnasked(s, to, time) == Goes(s, "urb", to, time)
UrbEnds(s, to, time) ==
  IF stop[s] THEN Goes(s, "urb", "out", 0) ELSE Goes(s, "urb", to, time)

(* The errorcode the URB is submitted with: cleared, since a URB that is *)
(* busy is refused.                                                      *)
ErrorcodeKept(busy) == busy
Errorcode(busy) == FALSE

Leaves(s) ==
  /\ stop[s] \/ s \notin connected
  /\ Goes(s, "top", "out", 0)
  /\ UNCHANGED urb_busy

Submits(s) ==
  /\ ~stop[s] /\ s \in connected
  /\ IF Errorcode(urb_busy[s]) THEN Goes(s, "top", "recover", CTRL_TIME)
                               ELSE Goes(s, "top", "urb", URB_TIME)
  /\ urb_busy' = [urb_busy EXCEPT ![s] = Errorcode(urb_busy[s])]

TimesOut(s) ==
  /\ left[s] = 0
  /\ UrbEnds(s, "top", 0)
  /\ urb_busy' = [urb_busy EXCEPT ![s] = TRUE]

NoDevice(s) ==
  /\ s \notin connected
  /\ Goes(s, "urb", "out", 0)
  /\ UNCHANGED urb_busy

(* A report, whose callback gave the semaphore before the URB's end.     *)
Reports(s) == s \in connected /\ UrbEnds(s, "parse", 0) /\ UNCHANGED urb_busy

(* An error, of a device that is there or one that is going.  A halted   *)
(* endpoint is cleared by a control transfer, and after every error the  *)
(* thread waits for 10 ms.                                               *)
Fails(s) == UrbEnds(s, "recover", CTRL_TIME) /\ UNCHANGED urb_busy
Recovers(s) == Goes(s, "recover", "top", 0) /\ UNCHANGED urb_busy

Parsed(s) == Goes(s, "parse", "top", 0) /\ UNCHANGED urb_busy

-----------------------------------------------------------------------------
Waits(s) == pc[s] \in {"urb", "recover"}

Tick ==
  /\ \A s \in Slot : pc[s] = "out" \/ (Waits(s) /\ left[s] > 0)
  /\ hub.stops => pc[hub.slot] # "out" /\ hub.left > 0
  /\ \E s \in Slot : Waits(s)
  /\ left' = [s \in Slot |-> IF Waits(s) THEN left[s] - 1 ELSE left[s]]
  /\ hub' = [hub EXCEPT !.left = IF hub.stops THEN hub.left - 1 ELSE 0]
  /\ UNCHANGED <<deviceVars, stop, urb_busy, pc>>

HubTask(s) == (\E k \in Kinds : Attach(s, k)) \/ StopBegins(s) \/ StopEnds(s)
Runs(s) == Leaves(s) \/ Submits(s) \/ TimesOut(s) \/ NoDevice(s) \/ Recovers(s)

UsbNext ==
  \/ \E s \in Slot : \/ HubTask(s) \/ Unplug(s)
                     \/ Runs(s) \/ Reports(s) \/ Fails(s) \/ Parsed(s)
  \/ Tick

UsbSpec == UsbInit /\ [][UsbNext]_usbVars

-----------------------------------------------------------------------------
(* A client thread is out of its class before the stack frees the class:   *)
(* usbh_hid_stop outlasts every wait the thread can be in (usb_host.c:     *)
(* "the thread must be out of it by then").                                *)
OutBeforeFree == \A s \in Slot : pc[s] # "out" => s \in class

(* The map of joysticks holds the numbers of those that run, and no two    *)
(* have the same number.                                                   *)
Joysticks == {s \in Slot : state[s] = "RUNNING" /\ kind[s] = "joystick"}
JsMapExact ==
  /\ js_map = {js_index[s] : s \in Joysticks}
  /\ \A s, t \in Joysticks : js_index[s] = js_index[t] => s = t
=============================================================================
