--------------------------- MODULE ThermalNotify ---------------------------
(***************************************************************************)
(* How mi_thermal_interface.c tells user space about the screen and the    *)
(* USB supply: a notifier callback queues a work item, the work item reads *)
(* the new state, stores it and notifies the sysfs node; and the order in  *)
(* which loading and unloading the module set these parts up and take them *)
(* down.  Callbacks, workers and (un)loading run concurrently and take no  *)
(* lock.                                                                   *)
(***************************************************************************)
EXTENDS Naturals

VARIABLES
  phase,      \* how far loading or unloading is
  panelReg,   \* the panel notifier is registered
  usbReg,     \* the power supply notifier is registered
  \* the screen
  light,      \* screen_light
  screen,     \* screen_state, what the sysfs node shows
  told,       \* what user space read when it was last notified
  cb,         \* the panel callback: "idle" or about to "queue"
  pending,    \* screen_state_dw is queued
  wk, new,    \* its worker: position and local new_state
  \* the USB supply
  plugged,    \* the ONLINE property of the supply
  online,     \* usb_online
  ucb, upending, uwk, unew,
  missed,     \* history: plugged changed, or was set, before registration
  readFailed, \* history: the last read of the property failed
  late        \* history: a callback used what unloading had taken down

life   == <<phase, panelReg, usbReg>>
scr    == <<light, screen, told, cb, pending, wk, new>>
usb    == <<plugged, online, ucb, upending, uwk, unew, missed, readFailed>>
vars   == <<life, scr, usb, late>>

Init ==
  /\ phase = "boot" /\ panelReg = FALSE /\ usbReg = FALSE
  /\ light = FALSE /\ screen = FALSE /\ told = FALSE
  /\ cb = "idle" /\ pending = FALSE /\ wk = "idle" /\ new = FALSE
  /\ plugged \in BOOLEAN /\ online = FALSE
  /\ ucb = "idle" /\ upending = FALSE /\ uwk = "idle" /\ unew = FALSE
  /\ missed = plugged /\ readFailed = FALSE /\ late = FALSE

-----------------------------------------------------------------------------
(***************************************************************************)
(* mi_thermal_interface_init: the workqueue, the sysfs nodes, the USB      *)
(* notifier, the panel notifier.  Only the first two can make it fail; a   *)
(* notifier that cannot be registered is logged.                           *)
(***************************************************************************)
Go(from, to) == phase = from /\ phase' = to

AllocWq ==
  /\ Go("boot", "wq") \/ Go("boot", "failed")
  /\ UNCHANGED <<panelReg, usbReg, scr, usb, late>>

CreateNodes ==
  /\ Go("wq", "nodes") \/ Go("wq", "failed")
  /\ UNCHANGED <<panelReg, usbReg, scr, usb, late>>

RegisterUsb(ok) ==
  /\ Go("nodes", "usb")
  /\ usbReg' = ok
  /\ UNCHANGED <<panelReg, scr, usb, late>>

RegisterPanel(ok) ==
  /\ Go("usb", "live")
  /\ panelReg' = ok
  /\ UNCHANGED <<usbReg, scr, usb, late>>

(***************************************************************************)
(* mi_thermal_interface_exit.  Cancelling waits for a running worker;      *)
(* destroying the workqueue runs what is still queued on it.  The panel    *)
(* notifier goes after the workqueue it queues on, the USB notifier stays. *)
(***************************************************************************)
CancelScreen ==
  /\ Go("live", "x_screen")
  /\ wk = "idle"
  /\ pending' = FALSE
  /\ UNCHANGED <<panelReg, usbReg, light, screen, told, cb, wk, new, usb, late>>

\* Mutant: the work item is cancelled without waiting for its worker.
CancelUsbAsync ==
  /\ Go("x_screen", "x_usb")
  /\ upending' = FALSE
  /\ UNCHANGED <<panelReg, usbReg, scr, plugged, online, ucb, uwk, unew, missed,
                 readFailed, late>>

CancelUsb ==
  /\ Go("x_screen", "x_usb")
  /\ uwk = "idle"
  /\ upending' = FALSE
  /\ UNCHANGED <<panelReg, usbReg, scr, plugged, online, ucb, uwk, unew, missed,
                 readFailed, late>>

DestroyWq ==
  /\ Go("x_usb", "x_wq")
  /\ ~pending /\ wk = "idle"
  /\ UNCHANGED <<panelReg, usbReg, scr, usb, late>>

\* Assumed of panel_event_notifier_unregister, which is not in this repository:
\* it waits for a callback that is running.
UnregisterPanel ==
  /\ Go("x_wq", "x_panel")
  /\ cb = "idle"
  /\ panelReg' = FALSE
  /\ UNCHANGED <<usbReg, scr, usb, late>>

DestroyNodes ==
  /\ Go("x_panel", "gone")
  /\ UNCHANGED <<panelReg, usbReg, scr, usb, late>>

WqGone == phase \in {"x_wq", "x_panel", "gone"}

-----------------------------------------------------------------------------
(***************************************************************************)
(* The screen.  screen_state_for_thermal_callback stores the new state and *)
(* queues the work item, which does nothing when it is queued already.     *)
(* Notifications of another kind are ignored.                              *)
(***************************************************************************)
PanelEvent(on) ==
  /\ panelReg /\ cb = "idle"
  /\ light' = on
  /\ cb' = "queue"
  /\ UNCHANGED <<life, screen, told, pending, wk, new, usb, late>>

\* Mutant: nothing is queued while the worker runs.
PanelQueueIfIdle ==
  /\ cb = "queue"
  /\ cb' = "idle"
  /\ pending' = (pending \/ (~WqGone /\ wk = "idle"))
  /\ late' = (late \/ WqGone)
  /\ UNCHANGED <<life, light, screen, told, wk, new, usb>>

PanelQueue ==
  /\ cb = "queue"
  /\ cb' = "idle"
  /\ pending' = (pending \/ ~WqGone)
  /\ late' = (late \/ WqGone)
  /\ UNCHANGED <<life, light, screen, told, wk, new, usb>>

\* A worker takes the item off the queue before it runs it, and never two do.
ScreenStart ==
  /\ pending /\ wk = "idle"
  /\ pending' = FALSE
  /\ wk' = "read"
  /\ UNCHANGED <<life, light, screen, told, cb, new, usb, late>>

\* screen_state_check: read, compare, store, notify.
ScreenRead ==
  /\ wk = "read"
  /\ new' = light
  /\ wk' = IF screen = light THEN "idle" ELSE "write"
  /\ UNCHANGED <<life, light, screen, told, cb, pending, usb, late>>

ScreenWrite ==
  /\ wk = "write"
  /\ screen' = new
  /\ wk' = "notify"
  /\ UNCHANGED <<life, light, told, cb, pending, new, usb, late>>

ScreenNotify ==
  /\ wk = "notify"
  /\ told' = screen
  /\ wk' = "idle"
  /\ UNCHANGED <<life, light, screen, cb, pending, new, usb, late>>

-----------------------------------------------------------------------------
(***************************************************************************)
(* The USB supply.  A change of the property reaches usb_online_callback   *)
(* while it is registered; after unloading it still is.                    *)
(***************************************************************************)
UsbChange ==
  /\ ucb = "idle"
  /\ plugged' = ~plugged
  /\ ucb' = IF usbReg THEN "queue" ELSE "idle"
  /\ missed' = ~usbReg
  /\ readFailed' = FALSE
  /\ UNCHANGED <<life, scr, online, upending, uwk, unew, late>>

UsbGone == phase \in {"x_usb", "x_wq", "x_panel", "gone"}

\* Mutant: nothing is read when the state looks the same as before.
UsbQueueSame ==
  /\ ucb = "queue"
  /\ ucb' = "idle"
  /\ upending' = (upending \/ online # plugged)
  /\ late' = (late \/ UsbGone)
  /\ UNCHANGED <<life, scr, plugged, online, uwk, unew, missed, readFailed>>

UsbQueue ==
  /\ ucb = "queue"
  /\ ucb' = "idle"
  /\ upending' = TRUE
  /\ late' = (late \/ UsbGone)
  /\ UNCHANGED <<life, scr, plugged, online, uwk, unew, missed, readFailed>>

UsbStart ==
  /\ upending /\ uwk = "idle"
  /\ upending' = FALSE
  /\ uwk' = "read"
  /\ UNCHANGED <<life, scr, plugged, online, ucb, unew, missed, readFailed, late>>

\* usb_online_work: without a supply, or when the read fails, it gives up.
UsbRead(ok) ==
  /\ uwk = "read"
  /\ unew' = IF ok THEN plugged ELSE unew
  /\ readFailed' = ~ok
  /\ uwk' = IF ok THEN "write" ELSE "idle"
  /\ UNCHANGED <<life, scr, plugged, online, ucb, upending, missed, late>>

UsbWrite ==
  /\ uwk = "write"
  /\ online' = unew
  /\ uwk' = "idle"
  /\ UNCHANGED <<life, scr, plugged, ucb, upending, unew, missed, readFailed, late>>

-----------------------------------------------------------------------------
Load == \/ AllocWq \/ CreateNodes
        \/ \E ok \in BOOLEAN : RegisterUsb(ok) \/ RegisterPanel(ok)
Unload == \/ CancelScreen \/ CancelUsb \/ DestroyWq \/ UnregisterPanel
          \/ DestroyNodes
ScreenWork == PanelQueue \/ ScreenStart \/ ScreenRead \/ ScreenWrite \/ ScreenNotify
UsbReadAny == \E ok \in BOOLEAN : UsbRead(ok)
UsbWork == UsbQueue \/ UsbStart \/ UsbReadAny \/ UsbWrite

Next ==
  \/ Load \/ Unload \/ ScreenWork \/ UsbWork \/ UsbChange
  \/ \E on \in BOOLEAN : PanelEvent(on)

Spec == Init /\ [][Next]_vars

\* Callbacks and workqueues make progress; loading, unloading and the hardware
\* do what they like.
Fairness ==
  /\ WF_vars(PanelQueue) /\ WF_vars(ScreenStart) /\ WF_vars(ScreenRead)
  /\ WF_vars(ScreenWrite) /\ WF_vars(ScreenNotify)
  /\ WF_vars(UsbQueue) /\ WF_vars(UsbStart) /\ WF_vars(UsbReadAny) /\ WF_vars(UsbWrite)

FairSpec == Spec /\ Fairness

-----------------------------------------------------------------------------
LifeType ==
  /\ phase \in {"boot", "wq", "nodes", "usb", "live", "failed", "x_screen",
                "x_usb", "x_wq", "x_panel", "gone"}
  /\ panelReg \in BOOLEAN /\ usbReg \in BOOLEAN /\ late \in BOOLEAN

ScreenType ==
  /\ light \in BOOLEAN /\ screen \in BOOLEAN /\ told \in BOOLEAN
  /\ cb \in {"idle", "queue"} /\ pending \in BOOLEAN
  /\ wk \in {"idle", "read", "write", "notify"} /\ new \in BOOLEAN

UsbType ==
  /\ plugged \in BOOLEAN /\ online \in BOOLEAN
  /\ ucb \in {"idle", "queue"} /\ upending \in BOOLEAN
  /\ uwk \in {"idle", "read", "write"} /\ unew \in BOOLEAN
  /\ missed \in BOOLEAN /\ readFailed \in BOOLEAN

\* The types of the variables.
TypeOK == LifeType /\ ScreenType /\ UsbType

Loaded == phase \in {"boot", "wq", "nodes", "usb", "live"}

(***************************************************************************)
(* Until the module is unloaded, no screen change is ever lost: when user  *)
(* space last saw another state than the panel's, a callback is about to   *)
(* queue the work item, it is queued, or its worker will still read the    *)
(* new state or notify it.  There is no lock, and queueing an item that is *)
(* queued does nothing, so this rests on the order of the steps.           *)
(***************************************************************************)
ScreenChangeOwed ==
  Loaded /\ told # light =>
    \/ cb = "queue" \/ pending \/ wk = "read"
    \/ wk = "write" /\ new = light
    \/ wk = "notify" /\ screen = light

(***************************************************************************)
(* The same for the USB supply, with the two gaps the code leaves: a state *)
(* from before the notifier was registered is never read, and a read that  *)
(* fails is not repeated.                                                  *)
(***************************************************************************)
UsbChangeOwed ==
  Loaded /\ online # plugged =>
    \/ ucb = "queue" \/ upending \/ uwk = "read"
    \/ uwk = "write" /\ unew = plugged
    \/ missed \/ readFailed

(***************************************************************************)
(* An unloaded module has nothing queued and nothing running, unless a     *)
(* callback came between the cancelling of its work item and the end (the  *)
(* panel's after destroy_workqueue; the USB one at any later time).        *)
(***************************************************************************)
QuietWhenGone ==
  phase = "gone" /\ ~late =>
    ~pending /\ wk = "idle" /\ cb = "idle" /\ ~upending /\ uwk = "idle"

(***************************************************************************)
(* User space hears of the last panel state once the panel keeps it.       *)
(***************************************************************************)
ScreenEventuallyTold ==
  \A on \in BOOLEAN :
    phase = "live" /\ light = on ~> told = on \/ light # on \/ phase # "live"
=============================================================================
