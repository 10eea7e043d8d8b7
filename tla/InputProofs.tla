----------------------------- MODULE InputProofs -----------------------------
(***************************************************************************)
(* What usb_host.c and hidparser.c guarantee for any number of slots, any  *)
(* set of devices and any times of which usbh_hid_stop's is the longest: a *)
(* client thread is out of its class before the stack frees the class, and *)
(* the map of joysticks is exact; and, for any reports and any length of   *)
(* the OSD's queue, no key stays down that nothing will release.           *)
(* All are proved of Keyboard.tla's specification, whose every step is one *)
(* of Usb.tla's or leaves its variables alone.                             *)
(***************************************************************************)
EXTENDS Keyboard, FiniteSetTheorems, WellFoundedInduction, TLAPS

(* The part of the types that the threads and the hub task need. *)
ThreadTypes ==
  /\ class \subseteq Slot
  /\ stop \in [Slot -> BOOLEAN]
  /\ pc \in [Slot -> Places]
  /\ left \in [Slot -> Nat]
  /\ hub \in [slot : Slot \cup {0}, left : Nat, stops : BOOLEAN]
  /\ hub.stops => hub.slot \in class

(* A wait is never longer than it began, and the wait of usbh_hid_stop is  *)
(* longer than what is left of the wait of the thread that it stops.       *)
Wait(s) == IF Waits(s) THEN left[s] ELSE 0
WaitsInTime ==
  \A s \in Slot : /\ pc[s] = "urb" => left[s] <= URB_TIME
                  /\ pc[s] = "recover" => left[s] <= CTRL_TIME
StopOutlasts ==
  hub.stops /\ pc[hub.slot] # "out" => stop[hub.slot] /\ Wait(hub.slot) < hub.left

ThreadInv == ThreadTypes /\ WaitsInTime /\ StopOutlasts /\ OutBeforeFree

-----------------------------------------------------------------------------
(* A thread's step: one that is to stop goes to no further wait. *)
LEMMA GoesKeeps ==
  ASSUME ThreadInv, NEW s \in Slot, NEW from, NEW to, NEW time, Goes(s, from, to, time),
         from # "out", to \in Places, time \in Nat,
         to = "urb" => time <= URB_TIME,
         to = "recover" => time <= CTRL_TIME,
         stop[s] => to \in {"out", "top"}
  PROVE  ThreadInv'
<1> USE DEF ThreadInv
<1>1. /\ pc' = [pc EXCEPT ![s] = to] /\ left' = [left EXCEPT ![s] = time]
      /\ UNCHANGED <<class, stop, hub>> /\ pc[s] # "out"
  BY DEF Goes, deviceVars
<1>2. ThreadTypes'
  BY <1>1 DEF ThreadTypes
<1>3. /\ pc'[s] = to /\ left'[s] = time
      /\ \A t \in Slot \ {s} : pc'[t] = pc[t] /\ left'[t] = left[t]
  BY <1>1 DEF ThreadTypes
<1>4. WaitsInTime'
  BY <1>3 DEF WaitsInTime
<1>5. OutBeforeFree'
  BY <1>1, <1>3 DEF OutBeforeFree
<1>6. StopOutlasts'
  <2> SUFFICES ASSUME hub.stops, pc'[hub.slot] # "out"
               PROVE  stop[hub.slot] /\ Wait(hub.slot)' < hub.left
    BY <1>1 DEF StopOutlasts
  <2>1. hub.slot \in Slot
    BY DEF ThreadTypes
  <2>2. CASE hub.slot = s
    <3>1. stop[s] /\ Wait(s) < hub.left
      BY <1>1, <2>2 DEF StopOutlasts
    <3>2. to = "top"
      BY <1>3, <2>2, <3>1
    <3>3. Wait(hub.slot)' = 0
      BY <1>1, <1>3, <2>2, <3>2 DEF Wait, Waits
    <3>4. hub.left \in Nat /\ Wait(s) \in Nat
      BY DEF ThreadTypes, Wait
    <3>5. QED
      BY <2>2, <3>1, <3>3, <3>4
  <2>3. CASE hub.slot # s
    BY <1>1, <1>3, <2>1, <2>3 DEF StopOutlasts, Wait, Waits
  <2>4. QED
    BY <2>2, <2>3
<1>7. QED
  BY <1>2, <1>4, <1>5, <1>6

LEMMA ThreadStep ==
  ASSUME ThreadInv, NEW s \in Slot, Runs(s) \/ Reports(s) \/ Fails(s) \/ Parsed(s)
  PROVE  ThreadInv'
<1> USE UsbAssumption
<1> {"out", "top", "urb", "recover", "parse"} \subseteq Places /\ 0 <= URB_TIME
  BY DEF Places
<1>1. CASE Leaves(s)
  <2>1. Goes(s, "top", "out", 0)
    BY <1>1 DEF Leaves
  <2>2. QED
    BY <2>1, GoesKeeps
<1>2. CASE Submits(s)
  <2>1. ~stop[s] /\ (Goes(s, "top", "recover", CTRL_TIME) \/ Goes(s, "top", "urb", URB_TIME))
    BY <1>2 DEF Submits
  <2>2. CASE Goes(s, "top", "recover", CTRL_TIME)
    BY <2>1, <2>2, GoesKeeps
  <2>3. CASE Goes(s, "top", "urb", URB_TIME)
    BY <2>1, <2>3, GoesKeeps
  <2>4. QED
    BY <2>1, <2>2, <2>3
<1>3. CASE TimesOut(s)
  <2>1. Goes(s, "urb", "out", 0) \/ Goes(s, "urb", "top", 0)
    BY <1>3 DEF TimesOut, UrbEnds
  <2>2. QED
    BY <2>1, GoesKeeps
<1>4. CASE NoDevice(s)
  <2>1. Goes(s, "urb", "out", 0)
    BY <1>4 DEF NoDevice
  <2>2. QED
    BY <2>1, GoesKeeps
<1>5. CASE Recovers(s)
  <2>1. Goes(s, "recover", "top", 0)
    BY <1>5 DEF Recovers
  <2>2. QED
    BY <2>1, GoesKeeps
<1>6. CASE Reports(s)
  <2>1. CASE stop[s]
    <3>1. Goes(s, "urb", "out", 0)
      BY <1>6, <2>1 DEF Reports, UrbEnds
    <3>2. QED
      BY <3>1, GoesKeeps
  <2>2. CASE ~stop[s]
    <3>1. Goes(s, "urb", "parse", 0)
      BY <1>6, <2>2 DEF Reports, UrbEnds
    <3>2. QED
      BY <3>1, <2>2, GoesKeeps
  <2>3. QED
    BY <2>1, <2>2
<1>7. CASE Fails(s)
  <2>1. CASE stop[s]
    <3>1. Goes(s, "urb", "out", 0)
      BY <1>7, <2>1 DEF Fails, UrbEnds
    <3>2. QED
      BY <3>1, GoesKeeps
  <2>2. CASE ~stop[s]
    <3>1. Goes(s, "urb", "recover", CTRL_TIME)
      BY <1>7, <2>2 DEF Fails, UrbEnds
    <3>2. QED
      BY <3>1, <2>2, GoesKeeps
  <2>3. QED
    BY <2>1, <2>2
<1>8. CASE Parsed(s)
  <2>1. Goes(s, "parse", "top", 0)
    BY <1>8 DEF Parsed
  <2>2. QED
    BY <2>1, GoesKeeps
<1>9. QED
  BY <1>1, <1>2, <1>3, <1>4, <1>5, <1>6, <1>7, <1>8 DEF Runs

-----------------------------------------------------------------------------
(* The hub task's steps, a device that goes, and time. *)
LEMMA AttachKeeps ==
  ASSUME ThreadInv, NEW s \in Slot, NEW k, Attach(s, k)
  PROVE  ThreadInv'
<1> USE DEF ThreadInv
<1>1. /\ ~hub.stops /\ hub' = hub /\ left' = left
      /\ class' = class \cup {s}
      /\ stop' = [stop EXCEPT ![s] = FALSE]
      /\ \E p \in {"out", "top"} : pc' = [pc EXCEPT ![s] = p]
  BY DEF Attach
<1>2. ThreadTypes'
  BY <1>1 DEF ThreadTypes, Places
<1>3. /\ pc'[s] \in {"out", "top"}
      /\ \A t \in Slot \ {s} : pc'[t] = pc[t]
  BY <1>1 DEF ThreadTypes
<1>4. WaitsInTime'
  BY <1>1, <1>3 DEF WaitsInTime
<1>5. StopOutlasts'
  BY <1>1 DEF StopOutlasts
<1>6. OutBeforeFree'
  BY <1>1, <1>3 DEF OutBeforeFree
<1>7. QED
  BY <1>2, <1>4, <1>5, <1>6

LEMMA StopBeginsKeeps ==
  ASSUME ThreadInv, NEW s \in Slot, StopBegins(s)
  PROVE  ThreadInv'
<1> USE DEF ThreadInv
<1>1. /\ s \in class /\ stop' = [stop EXCEPT ![s] = TRUE]
      /\ hub' = [slot |-> s, left |-> STOP_TIME, stops |-> TRUE]
      /\ UNCHANGED <<class, pc, left>>
  BY DEF StopBegins, deviceVars
<1>2. hub'.slot = s /\ hub'.left = STOP_TIME /\ hub'.stops = TRUE
  BY <1>1
<1>3. ThreadTypes'
  BY <1>1, <1>2, UsbAssumption DEF ThreadTypes
<1>4. StopOutlasts'
  <2>1. stop'[s] /\ pc' = pc
    BY <1>1 DEF ThreadTypes
  <2>2. Wait(s)' < STOP_TIME
    <3>1. CASE pc[s] = "urb"
      BY <1>1, <3>1, UsbAssumption DEF Wait, Waits, WaitsInTime, ThreadTypes
    <3>2. CASE pc[s] = "recover"
      BY <1>1, <3>2, UsbAssumption DEF Wait, Waits, WaitsInTime, ThreadTypes
    <3>3. CASE pc[s] \notin {"urb", "recover"}
      BY <1>1, <3>3, UsbAssumption DEF Wait, Waits
    <3>4. QED
      BY <3>1, <3>2, <3>3
  <2>3. QED
    BY <1>2, <2>1, <2>2 DEF StopOutlasts, Wait, Waits
<1>5. WaitsInTime' /\ OutBeforeFree'
  BY <1>1 DEF WaitsInTime, OutBeforeFree
<1>6. QED
  BY <1>3, <1>4, <1>5

(* Here it counts: the wait is over with the thread still in its class only *)
(* if the thread's own wait has outlasted it, which it has not.            *)
LEMMA StopEndsKeeps ==
  ASSUME ThreadInv, NEW s \in Slot, StopEnds(s)
  PROVE  ThreadInv'
<1> USE DEF ThreadInv
<1>1. /\ hub.stops /\ hub.slot = s /\ (pc[s] = "out" \/ hub.left = 0)
      /\ class' = class \ {s} /\ hub' = Idle
      /\ stop' = [stop EXCEPT ![s] = FALSE]
      /\ UNCHANGED <<pc, left>>
  BY DEF StopEnds
<1>2. hub'.left = 0 /\ hub'.stops = FALSE
  BY <1>1 DEF Idle
<1>3. pc[s] = "out"
  <2> SUFFICES ASSUME pc[s] # "out", hub.left = 0
               PROVE  FALSE
    BY <1>1
  <2>1. Wait(hub.slot) < hub.left
    BY <1>1 DEF StopOutlasts
  <2>2. Wait(hub.slot) \in Nat
    BY <1>1 DEF Wait, ThreadTypes
  <2>3. QED
    BY <2>1, <2>2
<1>4. ThreadTypes'
  <2>1. hub' \in [slot : Slot \cup {0}, left : Nat, stops : BOOLEAN]
    BY <1>1 DEF Idle
  <2>2. QED
    BY <1>1, <1>2, <2>1 DEF ThreadTypes
<1>5. WaitsInTime' /\ StopOutlasts'
  BY <1>1, <1>2 DEF WaitsInTime, StopOutlasts
<1>6. OutBeforeFree'
  BY <1>1, <1>3 DEF OutBeforeFree
<1>7. QED
  BY <1>4, <1>5, <1>6

LEMMA TickKeeps ==
  ASSUME ThreadInv, Tick
  PROVE  ThreadInv'
<1> USE DEF ThreadInv
<1>1. /\ \A s \in Slot : pc[s] = "out" \/ (Waits(s) /\ left[s] > 0)
      /\ hub.stops => pc[hub.slot] # "out" /\ hub.left > 0
      /\ left' = [s \in Slot |-> IF Waits(s) THEN left[s] - 1 ELSE left[s]]
      /\ hub' = [hub EXCEPT !.left = IF hub.stops THEN hub.left - 1 ELSE 0]
      /\ UNCHANGED <<class, stop, pc>>
  BY DEF Tick, deviceVars
<1>2. /\ hub'.stops = hub.stops /\ hub'.slot = hub.slot
      /\ hub'.left = IF hub.stops THEN hub.left - 1 ELSE 0
  BY <1>1 DEF ThreadTypes
<1>3. /\ left \in [Slot -> Nat] /\ left' \in [Slot -> Nat]
      /\ \A s \in Slot : left'[s] <= left[s]
      /\ \A s \in Slot : pc[s] \in {"urb", "recover"} => left'[s] = left[s] - 1
  BY <1>1 DEF ThreadTypes, Waits
<1>4. ThreadTypes'
  <2>1. left' \in [Slot -> Nat]
    BY <1>3
  <2>2. hub'.left \in Nat
    BY <1>1, <1>2 DEF ThreadTypes
  <2>3. QED
    BY <1>1, <1>2, <2>1, <2>2 DEF ThreadTypes
<1>5. WaitsInTime'
  <2> SUFFICES ASSUME NEW s \in Slot
               PROVE  /\ pc[s] = "urb" => left'[s] <= URB_TIME
                      /\ pc[s] = "recover" => left'[s] <= CTRL_TIME
    BY <1>1 DEF WaitsInTime
  <2>1. left[s] \in Nat /\ left'[s] \in Nat /\ left'[s] <= left[s]
    BY <1>3
  <2>2. URB_TIME \in Nat /\ CTRL_TIME \in Nat
    BY UsbAssumption
  <2>3. QED
    BY <2>1, <2>2 DEF WaitsInTime
<1>6. StopOutlasts'
  <2> SUFFICES ASSUME hub.stops
               PROVE  stop[hub.slot] /\ Wait(hub.slot)' < hub'.left
    BY <1>1, <1>2 DEF StopOutlasts, Wait, Waits
  <2>1. hub.slot \in Slot
    BY DEF ThreadTypes
  <2>2. stop[hub.slot] /\ Wait(hub.slot) < hub.left
    BY <1>1 DEF StopOutlasts
  <2>3. Wait(hub.slot) = left[hub.slot] /\ Wait(hub.slot)' = left[hub.slot] - 1
    BY <1>1, <1>2, <1>3, <2>1 DEF Wait, Waits
  <2>4. QED
    BY <1>2, <1>3, <2>1, <2>2, <2>3 DEF ThreadTypes
<1>7. OutBeforeFree'
  BY <1>1 DEF OutBeforeFree
<1>8. QED
  BY <1>4, <1>5, <1>6, <1>7

LEMMA UsbStepKeeps ==
  ASSUME ThreadInv, [UsbNext]_usbVars
  PROVE  ThreadInv'
<1>1. ASSUME NEW s \in Slot, NEW k \in Kinds, Attach(s, k) PROVE ThreadInv'
  BY <1>1, AttachKeeps
<1>2. ASSUME NEW s \in Slot, StopBegins(s) PROVE ThreadInv'
  BY <1>2, StopBeginsKeeps
<1>3. ASSUME NEW s \in Slot, StopEnds(s) PROVE ThreadInv'
  BY <1>3, StopEndsKeeps
<1>4. ASSUME NEW s \in Slot, Unplug(s) PROVE ThreadInv'
  BY <1>4 DEF Unplug, ThreadInv, ThreadTypes, WaitsInTime, StopOutlasts, OutBeforeFree, Wait, Waits
<1>5. ASSUME NEW s \in Slot, Runs(s) \/ Reports(s) \/ Fails(s) \/ Parsed(s) PROVE ThreadInv'
  BY <1>5, ThreadStep
<1>6. CASE Tick
  BY <1>6, TickKeeps
<1>7. CASE UNCHANGED usbVars
  BY <1>7 DEF usbVars, ThreadInv, ThreadTypes, WaitsInTime, StopOutlasts, OutBeforeFree, Wait, Waits
<1>8. QED
  BY <1>1, <1>2, <1>3, <1>4, <1>5, <1>6, <1>7 DEF UsbNext, HubTask

-----------------------------------------------------------------------------
(* The keyboard is a refinement of the devices: a step of the parser or of *)
(* the OSD's task is a step of Usb.tla or none.                            *)
LEMMA ParseIsUsbStep ==
  ASSUME NEW s \in Slot, Parse(s)
  PROVE  [UsbNext]_usbVars
<1>1. ASSUME NextKey(s) PROVE [UsbNext]_usbVars
  BY <1>1 DEF NextKey, UsbNext
<1>2. ASSUME NEW w, ParserAt(s, w) PROVE UNCHANGED usbVars
  BY <1>2 DEF ParserAt
<1>3. CASE Mods(s) \/ SendMod(s) \/ Release(s) \/ SendRelease(s) \/ PressKey(s) \/ TypedForCore(s)
  BY <1>2, <1>3 DEF Mods, SendMod, Release, SendRelease, PressKey, TypedForCore
<1>4. CASE Unchanged(s) \/ PressNone(s) \/ PressF12(s) \/ Escape(s) \/ TypedForMenu(s) \/ SendPress(s)
  BY <1>1, <1>4 DEF Unchanged, PressNone, PressF12, Escape, TypedForMenu, SendPress
<1>5. CASE JoystickParse(s)
  BY <1>5 DEF JoystickParse, UsbNext
<1>6. QED
  BY <1>3, <1>4, <1>5 DEF Parse

(* Whatever the parser, the OSD's task and the queue do, the devices and   *)
(* their threads take a step of Usb.tla or none.                           *)
THEOREM KeyboardImplementsUsb == Spec => UsbSpec
<1>1. Init => UsbInit
  BY DEF Init
<1>2. [Next]_vars => [UsbNext]_usbVars
  <2> SUFFICES ASSUME [Next]_vars
               PROVE  [UsbNext]_usbVars
    OBVIOUS
  <2>1. ASSUME NEW s \in Slot, Device(s) PROVE [UsbNext]_usbVars
    BY <2>1 DEF Device, UsbNext
  <2>2. ASSUME NEW s \in Slot, Arrives(s) PROVE [UsbNext]_usbVars
    BY <2>2 DEF Arrives, UsbNext
  <2>3. ASSUME NEW s \in Slot, Parse(s) PROVE [UsbNext]_usbVars
    BY <2>3, ParseIsUsbStep
  <2>4. CASE Passes
    BY <2>4 DEF Passes, UsbNext
  <2>5. CASE OsdTask
    BY <2>5 DEF OsdTask
  <2>6. CASE UNCHANGED vars
    BY <2>6 DEF vars
  <2>7. QED
    BY <2>1, <2>2, <2>3, <2>4, <2>5, <2>6 DEF Next
<1>3. QED
  BY <1>1, <1>2, PTL DEF Spec, UsbSpec

(* What the waits of the threads and of usbh_hid_stop amount to, always. *)
LEMMA ThreadInvHolds == Spec => []ThreadInv
<1>1. UsbInit => ThreadInv
  <2>1. UsbInit => ThreadTypes
    <3> SUFFICES ASSUME UsbInit PROVE ThreadTypes
      OBVIOUS
    <3>1. hub \in [slot : Slot \cup {0}, left : Nat, stops : BOOLEAN] /\ hub.stops = FALSE
      BY DEF UsbInit, Idle
    <3>2. QED
      BY <3>1 DEF UsbInit, ThreadTypes, Places
  <2>2. UsbInit => WaitsInTime /\ StopOutlasts /\ OutBeforeFree
    BY DEF UsbInit, WaitsInTime, StopOutlasts, OutBeforeFree, Idle
  <2>3. QED
    BY <2>1, <2>2 DEF ThreadInv
<1>2. ThreadInv /\ [UsbNext]_usbVars => ThreadInv'
  BY UsbStepKeeps
<1>3. QED
  BY <1>1, <1>2, KeyboardImplementsUsb, PTL DEF UsbSpec

(* usbh_hid_stop never gives a class back that the thread is still in.     *)
THEOREM OutBeforeFreeHolds == Spec => []OutBeforeFree
<1>1. ThreadInv => OutBeforeFree
  BY DEF ThreadInv
<1>2. QED
  BY <1>1, ThreadInvHolds, PTL

-----------------------------------------------------------------------------
(* The map of the joysticks.  A slot that runs has a class. *)
JsTypes ==
  /\ class \subseteq Slot
  /\ kind \in [Slot -> Kinds]
  /\ state \in [Slot -> States]
  /\ js_index \in [Slot -> JsIndex]
JsInv == JsTypes /\ JsMapExact /\ \A s \in Joysticks : s \in class

(* usbh_hid_run finds a number: there is one more than there are slots. *)
LEMMA FreeJsIsFree ==
  ASSUME JsInv
  PROVE  FreeJs(js_map) \in JsIndex /\ FreeJs(js_map) \notin js_map
<1>1. IsFiniteSet(Slot) /\ Cardinality(Slot) \in Nat
  BY UsbAssumption, FS_CardinalityType
<1>2. IsFiniteSet(Joysticks) /\ Cardinality(Joysticks) <= Cardinality(Slot)
  <2>1. Joysticks \in SUBSET Slot
    BY DEF Joysticks
  <2>2. QED
    BY <1>1, <2>1, FS_Subset
<1>3. IsFiniteSet(js_map) /\ Cardinality(js_map) <= Cardinality(Joysticks)
  <2> DEFINE f == [s \in Joysticks |-> js_index[s]]
  <2>1. js_map = {js_index[s] : s \in Joysticks}
    BY DEF JsInv, JsMapExact
  <2>2. f \in Surjection(Joysticks, js_map)
    BY <2>1 DEF Surjection
  <2>3. QED
    BY <1>2, <2>2, FS_Surjection
<1>4. Cardinality(JsIndex) = Cardinality(Slot) + 1
  BY <1>1, FS_Interval DEF JsIndex
<1>5. Cardinality(js_map) \in Nat /\ Cardinality(Joysticks) \in Nat
  BY <1>2, <1>3, FS_CardinalityType
<1>6. ~(JsIndex \subseteq js_map)
  <2> SUFFICES ASSUME JsIndex \subseteq js_map
               PROVE  FALSE
    OBVIOUS
  <2>1. Cardinality(JsIndex) <= Cardinality(js_map)
    BY <1>3, FS_Subset
  <2>2. QED
    BY <1>1, <1>2, <1>3, <1>4, <1>5, <2>1
<1>7. \E j \in JsIndex \ js_map : \A i \in JsIndex \ js_map : ~(i < j)
  <2>1. JsIndex \ js_map \subseteq Nat /\ JsIndex \ js_map # {}
    BY <1>1, <1>6 DEF JsIndex
  <2>2. PICK j \in JsIndex \ js_map :
              \A i \in JsIndex \ js_map : <<i, j>> \notin OpToRel(<, Nat)
    BY <2>1, NatLessThanWellFounded, WFMin, Zenon
  <2>3. QED
    BY <2>1, <2>2 DEF OpToRel
<1>8. \E j \in JsIndex : j \notin js_map /\ \A i \in JsIndex : i < j => i \in js_map
  BY <1>7
<1>9. QED
  BY <1>8 DEF FreeJs

LEMMA JsStepKeeps ==
  ASSUME JsInv, [UsbNext]_usbVars
  PROVE  JsInv'
<1> USE DEF JsInv
<1>1. ASSUME NEW s \in Slot, NEW k \in Kinds, Attach(s, k) PROVE JsInv'
  <2>1. /\ s \notin class /\ class' = class \cup {s}
        /\ kind' = [kind EXCEPT ![s] = k]
        /\ state' = [state EXCEPT ![s] = IF k = "unusable" THEN "FAILED" ELSE "RUNNING"]
    BY <1>1 DEF Attach, Minor
  <2>2. s \notin Joysticks
    BY <2>1
  <2>3. CASE k # "joystick"
    <3>1. js_index' = js_index /\ js_map' = js_map
      BY <1>1, <2>3 DEF Attach
    <3>2. Joysticks' = Joysticks
      BY <2>1, <2>2, <2>3 DEF Joysticks, JsTypes
    <3>3. JsTypes'
      BY <2>1, <3>1 DEF JsTypes, States
    <3>4. QED
      BY <2>1, <3>1, <3>2, <3>3 DEF JsMapExact
  <2>4. CASE k = "joystick"
    <3> DEFINE j == FreeJs(js_map)
    <3>1. js_index' = [js_index EXCEPT ![s] = j] /\ js_map' = js_map \cup {j}
      BY <1>1, <2>4 DEF Attach
    <3>2. j \in JsIndex /\ j \notin js_map
      BY FreeJsIsFree
    <3> HIDE DEF j
    <3>3. Joysticks' = Joysticks \cup {s}
      BY <2>1, <2>2, <2>4 DEF Joysticks, JsTypes
    <3>4. JsTypes'
      BY <2>1, <3>1, <3>2 DEF JsTypes, States
    <3>5. js_index'[s] = j /\ \A t \in Joysticks : js_index'[t] = js_index[t] /\ js_index[t] # j
      BY <2>2, <3>1, <3>2 DEF JsTypes, JsMapExact, Joysticks
    <3>6. js_map' = {js_index'[t] : t \in Joysticks \cup {s}}
      BY <3>1, <3>5 DEF JsMapExact
    <3>7. \A t, u \in Joysticks \cup {s} : js_index'[t] = js_index'[u] => t = u
      BY <3>5 DEF JsMapExact
    <3>8. QED
      BY <2>1, <3>3, <3>4, <3>6, <3>7 DEF JsMapExact
  <2>5. QED
    BY <2>3, <2>4
<1>2. ASSUME NEW s \in Slot, StopEnds(s) PROVE JsInv'
  <2>1. /\ js_map' = WithoutJs(s)
        /\ state' = [state EXCEPT ![s] = "NONE"]
        /\ class' = class \ {s}
        /\ kind' = [kind EXCEPT ![s] = "unusable"]
        /\ js_index' = [js_index EXCEPT ![s] = 0]
    BY <1>2 DEF StopEnds
  <2>2. JsTypes'
    <3>1. 0 \in JsIndex
      BY UsbAssumption, FS_CardinalityType DEF JsIndex
    <3>2. QED
      BY <2>1, <3>1 DEF JsTypes, States, Kinds
  <2>3. Joysticks' = Joysticks \ {s}
    BY <2>1 DEF Joysticks, JsTypes
  <2>4. \A t \in Joysticks \ {s} : js_index'[t] = js_index[t]
    BY <2>1 DEF Joysticks, JsTypes
  <2>5. js_map' = {js_index[t] : t \in Joysticks \ {s}}
    <3>1. CASE s \in Joysticks
      <4>1. js_map' = js_map \ {js_index[s]}
        BY <2>1, <3>1 DEF WithoutJs, Joysticks
      <4>2. QED
        BY <3>1, <4>1 DEF JsMapExact
    <3>2. CASE s \notin Joysticks
      <4>1. js_map' = js_map
        BY <2>1, <3>2 DEF WithoutJs, Joysticks
      <4>2. QED
        BY <3>2, <4>1 DEF JsMapExact
    <3>3. QED
      BY <3>1, <3>2
  <2>6. js_map' = {js_index'[t] : t \in Joysticks \ {s}}
    BY <2>4, <2>5
  <2>7. QED
    BY <2>1, <2>2, <2>3, <2>4, <2>6 DEF JsMapExact
<1>3. ASSUME UNCHANGED <<class, kind, state, js_index, js_map>> PROVE JsInv'
  BY <1>3 DEF JsTypes, JsMapExact, Joysticks
<1>4. ASSUME NEW s \in Slot, StopBegins(s) \/ Unplug(s) PROVE JsInv'
  BY <1>3, <1>4 DEF StopBegins, Unplug, deviceVars
<1>5. ASSUME NEW s \in Slot, Runs(s) \/ Reports(s) \/ Fails(s) \/ Parsed(s) PROVE JsInv'
  BY <1>3, <1>5 DEF Runs, Leaves, Submits, TimesOut, NoDevice, Recovers, Reports, Fails, Parsed,
                    UrbEnds, Goes, deviceVars
<1>6. CASE Tick
  BY <1>3, <1>6 DEF Tick, deviceVars
<1>7. CASE UNCHANGED usbVars
  BY <1>3, <1>7 DEF usbVars
<1>8. QED
  BY <1>1, <1>2, <1>4, <1>5, <1>6, <1>7 DEF UsbNext, HubTask

(* No joystick's number is lost or given twice. *)
THEOREM JsMapExactHolds == Spec => []JsMapExact
<1>1. UsbInit => JsInv
  BY UsbAssumption, FS_CardinalityType
     DEF UsbInit, JsInv, JsTypes, JsMapExact, Joysticks, JsIndex, States, Kinds
<1>2. JsInv /\ [UsbNext]_usbVars => JsInv'
  BY JsStepKeeps
<1>3. JsInv => JsMapExact
  BY DEF JsInv
<1>4. QED
  BY <1>1, <1>2, <1>3, KeyboardImplementsUsb, PTL DEF UsbSpec

-----------------------------------------------------------------------------
(* The keys.  While a report is parsed, the key that keeps a bit of the    *)
(* matrix down is partly in the old report and partly in the new one: the  *)
(* slots that the parser has done with count as the new report has them,   *)
(* those still ahead as the old one had them.  A look at osd_is_visible()  *)
(* between two of its steps changes nothing of that, but excuses what is   *)
(* down.                                                                   *)

(* Where the parser has the key at hand behind it, as far as its release goes. *)
PressPlaces == {"press", "escape", "typed", "sendPress"}

KeyOf(s, j) ==
  IF j < key_i[s] \/ (j = key_i[s] /\ at[s] \in PressPlaces)
    THEN buffer[s].keys[j] ELSE last_report[s].keys[j]
ModOf(s) == IF at[s] \in {"mods", "sendMod"} THEN last_report[s].mod ELSE buffer[s].mod

(* Slot s will release k: with a report that does not hold it any more. *)
Accounts(s, k) ==
  \/ k = Mod /\ ModOf(s)
  \/ k # NoKey /\ \E j \in 1 .. KeySlots : KeyOf(s, j) = k

Accounted == \A k \in matrix \ excused : \E s \in Slot : Accounts(s, k)

(* A slot whose keyboard is not being parsed is at the parser's beginning. *)
InParse(s) == pc[s] = "parse" /\ kind[s] = "keyboard"
Resting == \A s \in Slot : ~InParse(s) => at[s] = "mods" /\ key_i[s] = 1

(* A key is taken for the core only if there is one. *)
KeyKnown == \A s \in Slot : at[s] \in {"typed", "sendPress"} => Key(s) # NoKey

AnyReport == [mod : BOOLEAN, keys : [1 .. KeySlots -> Keys \cup {NoKey}]]
ParserTypes ==
  /\ pc \in [Slot -> Places]
  /\ kind \in [Slot -> Kinds]
  /\ buffer \in [Slot -> AnyReport]
  /\ last_report \in [Slot -> AnyReport]
  /\ at \in [Slot -> Parser]
  /\ key_i \in [Slot -> 1 .. KeySlots]

GhostInv == ParserTypes /\ Resting /\ KeyKnown /\ Accounted

-----------------------------------------------------------------------------
LEMMA NoReportType == NoReport \in AnyReport /\ Buttons \subseteq AnyReport /\ KeyReports \subseteq AnyReport
<1>1. NoKeys \in [1 .. KeySlots -> Keys \cup {NoKey}]
  BY DEF NoKeys
<1>2. NoReport \in AnyReport
  BY <1>1 DEF NoReport, AnyReport
<1>3. Buttons \subseteq AnyReport
  BY <1>1, KeyboardAssumption DEF Buttons, AnyReport
<1>4. KeyReports \subseteq AnyReport
  BY KeyboardAssumption DEF AnyReport
<1>5. QED
  BY <1>2, <1>3, <1>4

(* What is down and not excused after a step was not excused before it,    *)
(* and the OSD was hidden all through the step.                            *)
LEMMA KeepsHidden ==
  ASSUME NEW m, NEW shown, NEW more, Keeps(m, shown, more),
         NEW k \in matrix' \ excused'
  PROVE  k \in m /\ ~visible /\ ~shown /\ k \notin excused /\ k \notin more
<1>1. matrix' = m /\ excused' = (IF visible \/ shown THEN m ELSE excused \cup more) \cap m
  BY DEF Keeps
<1>2. k \in m /\ ~(visible \/ shown)
  BY <1>1
<1>3. QED
  BY <1>1, <1>2

(* A step that changes neither what the parsers have at hand nor the *)
(* matrix, but for keys that it takes from it.                       *)
LEMMA FrameKeeps ==
  ASSUME Accounted, NEW m, NEW shown, NEW more, Keeps(m, shown, more), m \subseteq matrix,
         \A t \in Slot : \A k : Accounts(t, k) /\ k \in m \ more /\ ~visible => Accounts(t, k)'
  PROVE  Accounted'
<1> SUFFICES ASSUME NEW k \in matrix' \ excused'
             PROVE  \E s \in Slot : Accounts(s, k)'
  BY DEF Accounted
<1>1. k \in m \ more /\ ~visible /\ k \in matrix \ excused
  BY KeepsHidden
<1>2. PICK s \in Slot : Accounts(s, k)
  BY <1>1 DEF Accounted
<1>3. QED
  BY <1>1, <1>2

LEMMA SameFrame ==
  ASSUME UNCHANGED <<buffer, last_report, at, key_i>>, NEW t, NEW k
  PROVE  Accounts(t, k)' <=> Accounts(t, k)
BY DEF Accounts, ModOf, KeyOf

-----------------------------------------------------------------------------
(* The parser moves: what it does to the key at hand. *)
LEMMA ParserAtTypes ==
  ASSUME GhostInv, NEW s \in Slot, NEW w \in Parser, ParserAt(s, w), InParse(s),
         w \in {"typed", "sendPress"} => Key(s) # NoKey
  PROVE  ParserTypes' /\ Resting' /\ KeyKnown'
<1>1. /\ at' = [at EXCEPT ![s] = w]
      /\ UNCHANGED <<pc, kind, buffer, last_report, key_i>>
  BY DEF ParserAt, usbVars
<1>2. QED
  BY <1>1 DEF GhostInv, ParserTypes, Resting, InParse, KeyKnown, Key

LEMMA NextKeyTypes ==
  ASSUME GhostInv, NEW s \in Slot, NextKey(s), InParse(s)
  PROVE  ParserTypes' /\ Resting' /\ KeyKnown'
<1> USE KeyboardAssumption DEF GhostInv
<1>1. CASE key_i[s] < KeySlots
  <2>1. /\ key_i' = [key_i EXCEPT ![s] = @ + 1] /\ at' = [at EXCEPT ![s] = "release"]
        /\ UNCHANGED <<pc, kind, buffer, last_report>>
    BY <1>1 DEF NextKey, usbVars
  <2>2. key_i[s] + 1 \in 1 .. KeySlots
    BY <1>1 DEF ParserTypes
  <2>3. ParserTypes'
    BY <2>1, <2>2 DEF ParserTypes, Parser
  <2>4. Resting' /\ KeyKnown'
    BY <2>1 DEF ParserTypes, Resting, InParse, KeyKnown, Key
  <2>5. QED
    BY <2>3, <2>4
<1>2. CASE ~(key_i[s] < KeySlots)
  <2>1. /\ key_i' = [key_i EXCEPT ![s] = 1] /\ at' = [at EXCEPT ![s] = "mods"]
        /\ last_report' = [last_report EXCEPT ![s] = buffer[s]]
        /\ buffer' = [buffer EXCEPT ![s] = NoReport]
        /\ pc' = [pc EXCEPT ![s] = "top"] /\ kind' = kind
    BY <1>2 DEF NextKey, Parsed, Goes, deviceVars
  <2>2. ParserTypes'
    BY <2>1, NoReportType DEF ParserTypes, Parser, Places
  <2>3. Resting' /\ KeyKnown'
    BY <2>1 DEF ParserTypes, Resting, InParse, KeyKnown, Key
  <2>4. QED
    BY <2>2, <2>3
<1>3. QED
  BY <1>1, <1>2

(* The next key: from one of the places behind the release, or past a key  *)
(* that did not change, everything counts as it did, and the key at hand   *)
(* as the new report has it.                                               *)
LEMMA NextKeyAccounts ==
  ASSUME GhostInv, NEW s \in Slot, NextKey(s), at[s] \notin {"mods", "sendMod"},
         at[s] \in PressPlaces \/ Key(s) = Was(s), NEW t \in Slot, NEW k
  PROVE  /\ Accounts(t, k) => Accounts(t, k)'
         /\ k # NoKey /\ k = Key(s) => Accounts(s, k)'
<1> USE DEF GhostInv
<1>0. KeySlots \in Nat \ {0} /\ key_i[s] \in 1 .. KeySlots
  BY KeyboardAssumption DEF ParserTypes
<1>1. CASE key_i[s] < KeySlots
  <2>1. /\ key_i' = [key_i EXCEPT ![s] = @ + 1] /\ at' = [at EXCEPT ![s] = "release"]
        /\ UNCHANGED <<buffer, last_report>>
    BY <1>1 DEF NextKey
  <2>2. /\ key_i'[s] = key_i[s] + 1 /\ at'[s] = "release"
        /\ \A u \in Slot \ {s} : key_i'[u] = key_i[u] /\ at'[u] = at[u]
    BY <2>1 DEF ParserTypes
  <2>3. ModOf(t)' <=> ModOf(t)
    BY <2>1, <2>2 DEF ModOf
  <2>4. ASSUME NEW j \in 1 .. KeySlots PROVE KeyOf(t, j)' = KeyOf(t, j)
    <3>1. CASE t # s
      BY <2>1, <2>2, <3>1 DEF KeyOf
    <3>2. CASE t = s /\ j < key_i[s]
      BY <1>0, <2>1, <2>2, <3>2 DEF KeyOf, PressPlaces
    <3>3. CASE t = s /\ j > key_i[s]
      BY <1>0, <2>1, <2>2, <3>3 DEF KeyOf, PressPlaces
    <3>4. CASE t = s /\ j = key_i[s]
      <4>1. KeyOf(s, j)' = Key(s)
        BY <1>0, <2>1, <2>2, <3>4 DEF KeyOf, Key
      <4>2. KeyOf(s, j) = Key(s)
        BY <1>0, <3>4 DEF KeyOf, Key, Was
      <4>3. QED
        BY <3>4, <4>1, <4>2
    <3>5. QED
      BY <1>0, <3>1, <3>2, <3>3, <3>4
  <2>5. ASSUME NEW j \in 1 .. KeySlots, j = key_i[s] PROVE KeyOf(s, j)' = Key(s)
    BY <1>0, <2>1, <2>2, <2>5 DEF KeyOf, Key
  <2>6. Accounts(t, k) => Accounts(t, k)'
    BY <2>3, <2>4 DEF Accounts
  <2>7. k # NoKey /\ k = Key(s) => Accounts(s, k)'
    BY <1>0, <2>5 DEF Accounts
  <2>8. QED
    BY <2>6, <2>7
<1>2. CASE ~(key_i[s] < KeySlots)
  <2>1. /\ key_i' = [key_i EXCEPT ![s] = 1] /\ at' = [at EXCEPT ![s] = "mods"]
        /\ last_report' = [last_report EXCEPT ![s] = buffer[s]]
        /\ buffer' = [buffer EXCEPT ![s] = NoReport]
    BY <1>2 DEF NextKey
  <2>2. /\ key_i'[s] = 1 /\ at'[s] = "mods" /\ last_report'[s] = buffer[s]
        /\ \A u \in Slot \ {s} : /\ key_i'[u] = key_i[u] /\ at'[u] = at[u]
                                 /\ last_report'[u] = last_report[u] /\ buffer'[u] = buffer[u]
    BY <2>1 DEF ParserTypes
  <2>3. ModOf(t)' <=> ModOf(t)
    BY <2>2 DEF ModOf
  <2>4. key_i[s] = KeySlots
    BY <1>0, <1>2
  <2>5. ASSUME NEW j \in 1 .. KeySlots PROVE KeyOf(s, j)' = buffer[s].keys[j]
    BY <2>2, <2>5 DEF KeyOf, PressPlaces
  <2>6. ASSUME NEW j \in 1 .. KeySlots PROVE KeyOf(s, j) = buffer[s].keys[j]
    <3>1. CASE j < key_i[s]
      BY <3>1 DEF KeyOf
    <3>2. CASE j = key_i[s]
      BY <3>2 DEF KeyOf, Key, Was
    <3>3. QED
      BY <1>0, <2>4, <3>1, <3>2
  <2>7. ASSUME NEW j \in 1 .. KeySlots PROVE KeyOf(t, j)' = KeyOf(t, j)
    BY <2>2, <2>5, <2>6 DEF KeyOf
  <2>8. QED
    BY <1>0, <2>3, <2>5, <2>7 DEF Accounts, Key
<1>3. QED
  BY <1>1, <1>2

(* The parser goes on with the key at hand: only what it has taken from   *)
(* the matrix, or what was not in it, stops counting.                     *)
LEMMA ParserAtAccounts ==
  ASSUME GhostInv, NEW s \in Slot, NEW w \in Parser, ParserAt(s, w), NEW t \in Slot, NEW k,
         Accounts(t, k), t # s \/ ModOf(s)' = ModOf(s),
         at[s] \in PressPlaces <=> w \in PressPlaces
  PROVE  Accounts(t, k)'
<1>1. /\ at' = [at EXCEPT ![s] = w] /\ UNCHANGED <<buffer, last_report, key_i>>
  BY DEF ParserAt
<1>2. at'[s] = w /\ \A u \in Slot \ {s} : at'[u] = at[u]
  BY <1>1 DEF GhostInv, ParserTypes
<1>3. ModOf(t)' = ModOf(t)
  BY <1>1, <1>2 DEF ModOf
<1>4. ASSUME NEW j \in 1 .. KeySlots PROVE KeyOf(t, j)' = KeyOf(t, j)
  BY <1>1, <1>2 DEF KeyOf
<1>5. QED
  BY <1>3, <1>4 DEF Accounts

(* The step to the press: the old key of the slot at hand counts no more. *)
LEMMA ToPressAccounts ==
  ASSUME GhostInv, NEW s \in Slot, ParserAt(s, "press"), at[s] \in {"release", "sendRelease"},
         NEW t \in Slot, NEW k, Accounts(t, k), k # Was(s) \/ k = NoKey
  PROVE  Accounts(t, k)'
<1>1. /\ at' = [at EXCEPT ![s] = "press"] /\ UNCHANGED <<buffer, last_report, key_i>>
  BY DEF ParserAt
<1>2. at'[s] = "press" /\ \A u \in Slot \ {s} : at'[u] = at[u]
  BY <1>1 DEF GhostInv, ParserTypes
<1>3. ModOf(t)' = ModOf(t)
  BY <1>1, <1>2 DEF ModOf
<1>4. ASSUME NEW j \in 1 .. KeySlots, KeyOf(t, j) = k, k # NoKey
      PROVE  KeyOf(t, j)' = k
  <2>1. CASE t = s /\ j = key_i[s]
    <3>1. KeyOf(s, j) = Was(s)
      BY <2>1 DEF KeyOf, Was, PressPlaces, GhostInv, ParserTypes
    <3>2. QED
      BY <1>4, <2>1, <3>1
  <2>2. CASE ~(t = s /\ j = key_i[s])
    BY <1>1, <1>2, <1>4, <2>2 DEF KeyOf
  <2>3. QED
    BY <2>1, <2>2
<1>5. QED
  BY <1>3, <1>4 DEF Accounts

-----------------------------------------------------------------------------
(* A step of the parser, or of a joystick's. *)
LEMMA ParseTypes ==
  ASSUME GhostInv, NEW s \in Slot, Parse(s)
  PROVE  ParserTypes' /\ Resting' /\ KeyKnown'
<1>1. ASSUME NEW w \in Parser, Parses(s, w) PROVE InParse(s)
  BY <1>1 DEF Parses, InParse
<1>2. ASSUME NEW w \in Parser, ParserAt(s, w), InParse(s),
             w \in {"typed", "sendPress"} => Key(s) # NoKey
      PROVE  ParserTypes' /\ Resting' /\ KeyKnown'
  BY <1>2, ParserAtTypes
<1>3. {"mods", "sendMod", "release", "sendRelease", "press", "escape", "typed", "sendPress"} \subseteq Parser
  BY DEF Parser
<1>4. CASE Mods(s) \/ SendMod(s) \/ Release(s) \/ SendRelease(s) \/ PressKey(s) \/ TypedForCore(s)
  <2>1. InParse(s)
    BY <1>1, <1>3, <1>4 DEF Mods, SendMod, Release, SendRelease, PressKey, TypedForCore
  <2>2. PICK w \in Parser : ParserAt(s, w) /\ (w \in {"typed", "sendPress"} => Key(s) # NoKey)
    <3>1. CASE Mods(s) \/ SendMod(s) \/ Release(s) \/ SendRelease(s)
      BY <1>3, <3>1 DEF Mods, SendMod, Release, SendRelease, AfterLook
    <3>2. CASE PressKey(s)
      BY <1>3, <3>2 DEF PressKey
    <3>3. CASE TypedForCore(s)
      BY <1>3, <3>3 DEF TypedForCore, Parses, GhostInv, KeyKnown
    <3>4. QED
      BY <1>4, <3>1, <3>2, <3>3
  <2>3. QED
    BY <1>2, <2>1, <2>2
<1>5. CASE Unchanged(s) \/ PressNone(s) \/ PressF12(s) \/ Escape(s) \/ TypedForMenu(s) \/ SendPress(s)
  BY <1>1, <1>3, <1>5, NextKeyTypes
     DEF Unchanged, PressNone, PressF12, Escape, TypedForMenu, SendPress
<1>6. CASE JoystickParse(s)
  <2>1. /\ last_report' = [last_report EXCEPT ![s].mod = buffer[s].mod]
        /\ buffer' = [buffer EXCEPT ![s] = NoReport]
        /\ pc' = [pc EXCEPT ![s] = "top"]
        /\ kind[s] = "joystick" /\ UNCHANGED <<kind, at, key_i>>
    BY <1>6 DEF JoystickParse, Parsed, Goes, deviceVars
  <2>2. buffer[s] \in AnyReport /\ last_report[s] \in AnyReport
    BY DEF GhostInv, ParserTypes
  <2>3. last_report' \in [Slot -> AnyReport]
    BY <2>1, <2>2 DEF GhostInv, ParserTypes, AnyReport
  <2>4. ParserTypes'
    BY <2>1, <2>3, NoReportType DEF GhostInv, ParserTypes, Places
  <2>5. Resting' /\ KeyKnown'
    BY <2>1 DEF GhostInv, ParserTypes, Resting, InParse, KeyKnown, Key
  <2>6. QED
    BY <2>4, <2>5
<1>7. QED
  BY <1>4, <1>5, <1>6 DEF Parse

LEMMA ParseAccounts ==
  ASSUME GhostInv, NEW s \in Slot, Parse(s)
  PROVE  Accounted'
<1> USE DEF GhostInv
<1>0. {"mods", "sendMod", "release", "sendRelease", "press", "escape", "typed", "sendPress"} \subseteq Parser
  BY DEF Parser
<1> SUFFICES ASSUME NEW k \in matrix' \ excused'
             PROVE  \E t \in Slot : Accounts(t, k)'
  BY DEF Accounted
<1>1. ASSUME NEW more, Keeps(matrix, visible, more)
      PROVE  /\ ~visible /\ k \notin more
             /\ \E t \in Slot : Accounts(t, k)
  BY <1>1, KeepsHidden DEF Accounted
<1>2. ASSUME Same PROVE ~visible /\ \E t \in Slot : Accounts(t, k)
  BY <1>1, <1>2 DEF Same
<1>3. CASE Mods(s)
  <2>1. PICK t \in Slot : Accounts(t, k)
    BY <1>2, <1>3 DEF Mods
  <2>2. /\ at[s] = "mods" /\ ~visible
        /\ ParserAt(s, IF buffer[s].mod # last_report[s].mod THEN "sendMod" ELSE "release")
    BY <1>2, <1>3 DEF Mods, Parses
  <2>3. at'[s] = (IF buffer[s].mod # last_report[s].mod THEN "sendMod" ELSE "release")
        /\ UNCHANGED <<buffer, last_report>>
    BY <2>2 DEF ParserAt, ParserTypes
  <2>4. ModOf(s)' = ModOf(s)
    BY <2>2, <2>3 DEF ModOf
  <2>5. QED
    BY <1>0, <2>1, <2>2, <2>4, ParserAtAccounts DEF PressPlaces
<1>4. CASE SendMod(s)
  <2>1. /\ at[s] = "sendMod" /\ ParserAt(s, "release")
        /\ Keeps(IF buffer[s].mod THEN matrix \cup {Mod} ELSE matrix \ {Mod}, visible, {})
    BY <1>4 DEF SendMod, Parses
  <2>2. at'[s] = "release" /\ UNCHANGED <<buffer, last_report, key_i>>
    BY <2>1 DEF ParserAt, ParserTypes
  <2>3. CASE k = Mod
    <3>1. buffer[s].mod
      BY <2>1, <2>3, KeepsHidden
    <3>2. Accounts(s, k)'
      BY <2>2, <2>3, <3>1 DEF Accounts, ModOf
    <3>3. QED
      BY <3>2
  <2>4. CASE k # Mod
    <3>1. k \in matrix \ excused
      BY <2>1, <2>4, KeepsHidden
    <3>2. PICK t \in Slot : Accounts(t, k)
      BY <3>1 DEF Accounted
    <3>3. PICK j \in 1 .. KeySlots : k # NoKey /\ KeyOf(t, j) = k
      BY <2>4, <3>2 DEF Accounts
    <3>4. at' = [at EXCEPT ![s] = "release"]
      BY <2>1 DEF ParserAt
    <3>5. KeyOf(t, j)' = KeyOf(t, j)
      BY <2>1, <2>2, <3>4 DEF KeyOf, PressPlaces, ParserTypes
    <3>6. Accounts(t, k)'
      BY <3>3, <3>5 DEF Accounts
    <3>7. QED
      BY <3>6
  <2>5. QED
    BY <2>3, <2>4
<1>5. CASE Release(s)
  <2>1. PICK t \in Slot : Accounts(t, k)
    BY <1>2, <1>5 DEF Release
  <2>2. at[s] = "release" /\ ~visible /\ ParserAt(s, AfterLook(s))
    BY <1>2, <1>5 DEF Release, Parses
  <2>3. CASE Was(s) # NoKey
    <3>1. ParserAt(s, "sendRelease")
      BY <2>2, <2>3 DEF AfterLook
    <3>2. ModOf(s)' = ModOf(s)
      BY <2>2, <3>1 DEF ParserAt, ModOf, ParserTypes
    <3>3. QED
      BY <1>0, <2>1, <2>2, <3>1, <3>2, ParserAtAccounts DEF PressPlaces
  <2>4. CASE Was(s) = NoKey
    BY <2>1, <2>2, <2>4, ToPressAccounts DEF AfterLook
  <2>5. QED
    BY <2>3, <2>4
<1>6. CASE SendRelease(s)
  <2>1. /\ at[s] = "sendRelease" /\ ParserAt(s, "press")
        /\ Keeps(matrix \ {Was(s)}, visible, {})
    BY <1>6 DEF SendRelease, Parses
  <2>2. k \in matrix \ excused /\ k # Was(s)
    BY <2>1, KeepsHidden
  <2>3. PICK t \in Slot : Accounts(t, k)
    BY <2>2 DEF Accounted
  <2>4. QED
    BY <2>1, <2>2, <2>3, ToPressAccounts
<1>7. CASE PressKey(s)
  <2>1. PICK t \in Slot : Accounts(t, k)
    BY <1>2, <1>7 DEF PressKey
  <2>2. PICK w \in {"escape", "typed"} : ParserAt(s, w) /\ at[s] = "press"
    BY <1>7 DEF PressKey, Parses
  <2>3. ModOf(s)' = ModOf(s)
    BY <2>2 DEF ParserAt, ModOf, ParserTypes
  <2>4. QED
    BY <1>0, <2>1, <2>2, <2>3, ParserAtAccounts DEF PressPlaces
<1>8. CASE TypedForCore(s)
  <2>1. PICK t \in Slot : Accounts(t, k)
    BY <1>2, <1>8 DEF TypedForCore
  <2>2. ParserAt(s, "sendPress") /\ at[s] = "typed"
    BY <1>8 DEF TypedForCore, Parses
  <2>3. ModOf(s)' = ModOf(s)
    BY <2>2 DEF ParserAt, ModOf, ParserTypes
  <2>4. QED
    BY <1>0, <2>1, <2>2, <2>3, ParserAtAccounts DEF PressPlaces
<1>9. CASE Unchanged(s) \/ PressNone(s) \/ PressF12(s) \/ Escape(s) \/ TypedForMenu(s)
  <2>1. Same /\ NextKey(s) /\ at[s] \notin {"mods", "sendMod"}
        /\ (at[s] \in PressPlaces \/ Key(s) = Was(s))
    BY <1>9 DEF Unchanged, PressNone, PressF12, Escape, TypedForMenu, Parses, PressPlaces
  <2>2. PICK t \in Slot : Accounts(t, k)
    BY <1>2, <2>1
  <2>3. QED
    BY <2>1, <2>2, NextKeyAccounts
<1>10. CASE SendPress(s)
  <2>1. /\ at[s] = "sendPress" /\ NextKey(s)
        /\ Keeps(matrix \cup {Key(s)}, visible, {})
    BY <1>10 DEF SendPress, Parses
  <2>2. at[s] \notin {"mods", "sendMod"} /\ at[s] \in PressPlaces
    BY <2>1 DEF PressPlaces
  <2>3. CASE k \in matrix
    <3>1. PICK t \in Slot : Accounts(t, k)
      BY <2>1, <2>3, KeepsHidden DEF Accounted
    <3>2. QED
      BY <2>1, <2>2, <3>1, NextKeyAccounts
  <2>4. CASE k \notin matrix
    <3>1. k = Key(s) /\ k # NoKey
      BY <2>1, <2>4, KeepsHidden DEF KeyKnown
    <3>2. QED
      BY <2>1, <2>2, <3>1, NextKeyAccounts
  <2>5. QED
    BY <2>3, <2>4
<1>11. CASE JoystickParse(s)
  <2>1. k # Mod /\ \E t \in Slot : Accounts(t, k)
    BY <1>1, <1>11 DEF JoystickParse
  <2>2. PICK t \in Slot : \E j \in 1 .. KeySlots : k # NoKey /\ KeyOf(t, j) = k
    BY <2>1 DEF Accounts
  <2>3. at[s] = "mods" /\ key_i[s] = 1
    BY <1>11 DEF JoystickParse, Resting, InParse
  <2>4. /\ last_report' = [last_report EXCEPT ![s].mod = buffer[s].mod]
        /\ buffer' = [buffer EXCEPT ![s] = NoReport]
        /\ UNCHANGED <<at, key_i>>
    BY <1>11 DEF JoystickParse
  <2>5. /\ last_report'[s].keys = last_report[s].keys
        /\ \A u \in Slot \ {s} : last_report'[u] = last_report[u] /\ buffer'[u] = buffer[u]
    BY <2>4 DEF ParserTypes, AnyReport
  <2>6. ASSUME NEW j \in 1 .. KeySlots PROVE KeyOf(t, j)' = KeyOf(t, j)
    BY <2>3, <2>4, <2>5 DEF KeyOf, PressPlaces
  <2>7. QED
    BY <2>2, <2>6 DEF Accounts
<1>12. QED
  BY <1>3, <1>4, <1>5, <1>6, <1>7, <1>8, <1>9, <1>10, <1>11 DEF Parse

-----------------------------------------------------------------------------
(* The devices: a report comes only to a parser at its beginning, and no   *)
(* slot changes its kind while it is parsed.                               *)
LEMMA ArrivesKeeps ==
  ASSUME GhostInv, NEW s \in Slot, Arrives(s)
  PROVE  GhostInv'
<1> USE DEF GhostInv
<1>1. PICK to \in {"out", "parse"} : pc[s] = "urb" /\ pc' = [pc EXCEPT ![s] = to]
  BY DEF Arrives, Reports, UrbEnds, Goes
<1>2. UNCHANGED <<kind, last_report, at, key_i>> /\ Same
  BY DEF Arrives, Reports, UrbEnds, Goes, deviceVars
<1>3. PICK r \in AnyReport : buffer' = [buffer EXCEPT ![s] = r]
  BY NoReportType DEF Arrives
<1>4. at[s] = "mods" /\ key_i[s] = 1
  BY <1>1 DEF Resting, InParse
<1>5. ParserTypes'
  BY <1>1, <1>2, <1>3 DEF ParserTypes, Places
<1>6. Resting'
  BY <1>1, <1>2, <1>4 DEF ParserTypes, Resting, InParse
<1>7. KeyKnown'
  BY <1>2, <1>3, <1>4 DEF KeyKnown, Key, ParserTypes
<1>8. Accounted'
  <2>1. \A t \in Slot \ {s} : buffer'[t] = buffer[t]
    BY <1>3 DEF ParserTypes
  <2>2. ASSUME NEW t \in Slot, NEW k, Accounts(t, k) PROVE Accounts(t, k)'
    <3>1. ModOf(t)' = ModOf(t)
      BY <1>2, <1>4, <2>1 DEF ModOf
    <3>2. ASSUME NEW j \in 1 .. KeySlots PROVE KeyOf(t, j)' = KeyOf(t, j)
      BY <1>2, <1>4, <2>1 DEF KeyOf, PressPlaces
    <3>3. QED
      BY <2>2, <3>1, <3>2 DEF Accounts
  <2>3. Keeps(matrix, visible, {})
    BY <1>2 DEF Same
  <2>4. QED
    BY <2>2, <2>3, FrameKeeps
<1>9. QED
  BY <1>5, <1>6, <1>7, <1>8

LEMMA DeviceKeeps ==
  ASSUME GhostInv, ThreadInv, NEW s \in Slot, Device(s)
  PROVE  GhostInv'
<1> USE DEF GhostInv
<1>1. UNCHANGED kbdVars
  BY DEF Device
<1>2. /\ pc' \in [Slot -> Places] /\ kind' \in [Slot -> Kinds]
      /\ \A t \in Slot : InParse(t)' <=> InParse(t)
  <2>1. CASE \E k \in Kinds : Attach(s, k)
    <3>1. PICK k \in Kinds : Attach(s, k)
      BY <2>1
    <3>2. pc[s] = "out"
      BY <3>1 DEF Attach, Minor, ThreadInv, OutBeforeFree
    <3>3. kind' = [kind EXCEPT ![s] = k]
      BY <3>1 DEF Attach
    <3>4. PICK p \in {"out", "top"} : pc' = [pc EXCEPT ![s] = p]
      BY <3>1 DEF Attach
    <3>5. QED
      BY <3>2, <3>3, <3>4 DEF ParserTypes, InParse, Places
  <2>2. CASE StopEnds(s)
    <3>1. pc[s] = "out"
      <4> SUFFICES ASSUME pc[s] # "out", hub.left = 0
                   PROVE  FALSE
        BY <2>2 DEF StopEnds
      <4>1. Wait(hub.slot) < hub.left
        BY <2>2 DEF StopEnds, ThreadInv, StopOutlasts
      <4>2. Wait(hub.slot) \in Nat
        BY <2>2 DEF StopEnds, Wait, ThreadInv, ThreadTypes
      <4>3. QED
        BY <4>1, <4>2
    <3>2. kind' = [kind EXCEPT ![s] = "unusable"] /\ pc' = pc
      BY <2>2 DEF StopEnds
    <3>3. QED
      BY <3>1, <3>2 DEF ParserTypes, InParse, Kinds
  <2>3. CASE StopBegins(s) \/ Unplug(s)
    BY <2>3 DEF StopBegins, Unplug, deviceVars, ParserTypes, InParse
  <2>4. CASE Runs(s) \/ Fails(s)
    <3>1. PICK to \in {"out", "top", "urb", "recover"} :
             pc[s] # "parse" /\ pc' = [pc EXCEPT ![s] = to] /\ kind' = kind
      BY <2>4 DEF Runs, Leaves, Submits, TimesOut, NoDevice, Recovers, Fails, UrbEnds, Goes, deviceVars
    <3>2. QED
      BY <3>1 DEF ParserTypes, InParse, Places
  <2>5. QED
    BY <2>1, <2>2, <2>3, <2>4 DEF Device, HubTask
<1>3. ParserTypes' /\ Resting' /\ KeyKnown'
  BY <1>1, <1>2 DEF kbdVars, ParserTypes, Resting, KeyKnown, Key
<1>4. Accounted'
  BY <1>1, SameFrame DEF kbdVars, Accounted
<1>5. QED
  BY <1>3, <1>4

(* The OSD's task: it excuses what is down, or clears the matrix. *)
LEMMA OsdKeeps ==
  ASSUME GhostInv, OsdTask
  PROVE  GhostInv'
<1> USE DEF GhostInv
<1>1. UNCHANGED <<pc, kind, buffer, last_report, at, key_i>>
  BY DEF OsdTask, usbVars
<1>2. ParserTypes' /\ Resting' /\ KeyKnown'
  BY <1>1 DEF ParserTypes, Resting, InParse, KeyKnown, Key
<1>3. PICK m \in SUBSET matrix, shown \in BOOLEAN : Keeps(m, shown, {}) \/ Same
  BY DEF OsdTask, OsdShows, OsdHides, OsdActs, OsdResets
<1>4. Accounted'
  <2>1. CASE Keeps(m, shown, {})
    BY <1>1, <2>1, SameFrame, FrameKeeps
  <2>2. CASE Same
    <3>1. Keeps(matrix, visible, {})
      BY <2>2 DEF Same
    <3>2. QED
      BY <1>1, <3>1, SameFrame, FrameKeeps
  <2>3. QED
    BY <1>3, <2>1, <2>2
<1>5. QED
  BY <1>2, <1>4

LEMMA KeyboardStepKeeps ==
  ASSUME GhostInv, ThreadInv, [Next]_vars
  PROVE  GhostInv'
<1>1. ASSUME NEW s \in Slot, Device(s) PROVE GhostInv'
  BY <1>1, DeviceKeeps
<1>2. ASSUME NEW s \in Slot, Arrives(s) PROVE GhostInv'
  BY <1>2, ArrivesKeeps
<1>3. ASSUME NEW s \in Slot, Parse(s) PROVE GhostInv'
  BY <1>3, ParseTypes, ParseAccounts DEF GhostInv
<1>4. CASE Passes \/ UNCHANGED vars
  <2>1. UNCHANGED <<pc, kind, kbdVars>>
    BY <1>4 DEF Passes, Tick, deviceVars, vars, usbVars
  <2>2. ParserTypes' /\ Resting' /\ KeyKnown'
    BY <2>1 DEF kbdVars, GhostInv, ParserTypes, Resting, InParse, KeyKnown, Key
  <2>3. Accounted'
    BY <2>1, SameFrame DEF kbdVars, GhostInv, Accounted
  <2>4. QED
    BY <2>2, <2>3 DEF GhostInv
<1>5. CASE OsdTask
  BY <1>5, OsdKeeps
<1>6. QED
  BY <1>1, <1>2, <1>3, <1>4, <1>5 DEF Next

(* A key that is down in the machine is one that the last report of some   *)
(* slot holds, so that kbd_parse releases it with the next report without  *)
(* it, however the OSD is shown and hidden between the parser's looks at   *)
(* osd_is_visible(), for any slots, reports and queue.                     *)
THEOREM NoGhostKeyHolds == Spec => []NoGhostKey
<1>1. Init => GhostInv
  <2> SUFFICES ASSUME Init PROVE GhostInv
    OBVIOUS
  <2>1. ParserTypes
    BY NoReportType, KeyboardAssumption DEF Init, UsbInit, ParserTypes, Places, Kinds, Parser
  <2>2. Resting /\ KeyKnown /\ Accounted
    BY DEF Init, Resting, KeyKnown, Accounted
  <2>3. QED
    BY <2>1, <2>2 DEF GhostInv
<1>2. GhostInv /\ ThreadInv /\ [Next]_vars => GhostInv'
  BY KeyboardStepKeeps
<1>3. GhostInv => NoGhostKey
  <2> SUFFICES ASSUME GhostInv, \A s \in Slot : pc[s] # "parse", NEW k \in matrix \ excused
               PROVE  \E s \in Slot : Holds(last_report[s], k)
    BY DEF NoGhostKey
  <2>1. PICK s \in Slot : Accounts(s, k)
    BY DEF GhostInv, Accounted
  <2>2. at[s] = "mods" /\ key_i[s] = 1
    BY DEF GhostInv, Resting, InParse
  <2>3. ModOf(s) = last_report[s].mod
    BY <2>2 DEF ModOf
  <2>4. \A j \in 1 .. KeySlots : KeyOf(s, j) = last_report[s].keys[j]
    BY <2>2 DEF KeyOf, PressPlaces
  <2>5. QED
    BY <2>1, <2>3, <2>4 DEF Accounts, Holds
<1>4. QED
  BY <1>1, <1>2, <1>3, ThreadInvHolds, PTL DEF Spec
=============================================================================
