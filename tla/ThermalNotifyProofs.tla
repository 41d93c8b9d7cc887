------------------------ MODULE ThermalNotifyProofs ------------------------
(***************************************************************************)
(* Proofs about ThermalNotify: the order of the unlocked steps alone keeps *)
(* every screen and charger change on its way to user space.               *)
(***************************************************************************)
EXTENDS ThermalNotify, TLAPS

(***************************************************************************)
(* User space knows what the sysfs node shows except between the store of  *)
(* the worker and its notification.  Without it a worker that finds the    *)
(* node up to date could not be told from one that has yet to notify.      *)
(***************************************************************************)
ToldWhatIsShown == wk # "notify" => told = screen

(***************************************************************************)
(* A worker that carries a state the panel has left by now will run again. *)
(* The property alone does not say so while user space happens to know the *)
(* panel's state, which the worker is about to replace by the old one.     *)
(***************************************************************************)
StaleRunsAgain ==
  Loaded =>
    /\ wk = "write" /\ new # light => cb = "queue" \/ pending
    /\ wk = "notify" /\ screen # light => cb = "queue" \/ pending

ScreenInv == ToldWhatIsShown /\ StaleRunsAgain /\ ScreenChangeOwed

\* The same for the USB supply.
UsbStaleRunsAgain ==
  Loaded /\ uwk = "write" /\ unew # plugged => ucb = "queue" \/ upending \/ missed

UsbInv == UsbStaleRunsAgain /\ UsbChangeOwed

(***************************************************************************)
(* What each step of unloading leaves behind: nothing of the screen work   *)
(* once its workqueue is destroyed, no panel callback once the notifier is *)
(* unregistered, and nothing of the USB work once it is cancelled, but for *)
(* callbacks that come late.                                               *)
(***************************************************************************)
TakenDown ==
  /\ WqGone => ~pending /\ wk = "idle"
  /\ phase \in {"x_panel", "gone"} => ~panelReg /\ cb = "idle"
  /\ UsbGone /\ ~late => ~upending /\ uwk = "idle"

-----------------------------------------------------------------------------
\* Every step keeps the types.
LEMMA NextTypeOK == TypeOK /\ [Next]_vars => TypeOK'
<1> SUFFICES ASSUME TypeOK, [Next]_vars PROVE TypeOK'
  OBVIOUS
<1> USE DEF TypeOK, life, scr, usb
<1>1. CASE Load
  <2>1. LifeType'
    BY <1>1 DEF Load, AllocWq, CreateNodes, RegisterUsb, RegisterPanel, Go, LifeType
  <2>2. UNCHANGED <<scr, usb>>
    BY <1>1 DEF Load, AllocWq, CreateNodes, RegisterUsb, RegisterPanel
  <2>3. QED
    BY <2>1, <2>2 DEF ScreenType, UsbType
<1>2. CASE Unload
  <2>1. LifeType'
    BY <1>2 DEF Unload, CancelScreen, CancelUsb, DestroyWq, UnregisterPanel,
                DestroyNodes, Go, LifeType
  <2>2. ScreenType'
    BY <1>2 DEF Unload, CancelScreen, CancelUsb, DestroyWq, UnregisterPanel,
                DestroyNodes, ScreenType
  <2>3. UsbType'
    BY <1>2 DEF Unload, CancelScreen, CancelUsb, DestroyWq, UnregisterPanel,
                DestroyNodes, UsbType
  <2>4. QED
    BY <2>1, <2>2, <2>3
<1>3. CASE ScreenWork \/ \E on \in BOOLEAN : PanelEvent(on)
  <2>1. LifeType'
    BY <1>3 DEF ScreenWork, PanelEvent, PanelQueue, ScreenStart, ScreenRead,
                ScreenWrite, ScreenNotify, WqGone, LifeType
  <2>2. ScreenType'
    BY <1>3 DEF ScreenWork, PanelEvent, PanelQueue, ScreenStart, ScreenRead,
                ScreenWrite, ScreenNotify, WqGone, ScreenType
  <2>3. UsbType'
    BY <1>3 DEF ScreenWork, PanelEvent, PanelQueue, ScreenStart, ScreenRead,
                ScreenWrite, ScreenNotify, UsbType
  <2>4. QED
    BY <2>1, <2>2, <2>3
<1>4. CASE UsbWork \/ UsbChange
  <2>1. LifeType'
    BY <1>4 DEF UsbWork, UsbReadAny, UsbQueue, UsbStart, UsbRead, UsbWrite,
                UsbChange, UsbGone, LifeType
  <2>2. ScreenType'
    BY <1>4 DEF UsbWork, UsbReadAny, UsbQueue, UsbStart, UsbRead, UsbWrite,
                UsbChange, ScreenType
  <2>3. UsbType'
    BY <1>4 DEF UsbWork, UsbReadAny, UsbQueue, UsbStart, UsbRead, UsbWrite,
                UsbChange, UsbType
  <2>4. QED
    BY <2>1, <2>2, <2>3
<1>5. CASE UNCHANGED vars
  BY <1>5 DEF vars, LifeType, ScreenType, UsbType
<1>6. QED
  BY <1>1, <1>2, <1>3, <1>4, <1>5 DEF Next

\* The variables keep their types.
THEOREM TypeCorrect == Spec => []TypeOK
<1>1. Init => TypeOK
  BY DEF Init, TypeOK, LifeType, ScreenType, UsbType
<1>2. QED
  BY <1>1, NextTypeOK, PTL DEF Spec

-----------------------------------------------------------------------------
\* No screen change is lost: the order of store, queue, read, store, notify
\* is enough, without a lock.
THEOREM ScreenChangeKept == Spec => []ScreenChangeOwed
<1>1. Init => ScreenInv
  BY DEF Init, ScreenInv, ToldWhatIsShown, StaleRunsAgain, ScreenChangeOwed
<1>2. TypeOK /\ ScreenInv /\ [Next]_vars => ScreenInv'
  <2> SUFFICES ASSUME TypeOK, ScreenInv, [Next]_vars PROVE ScreenInv'
    OBVIOUS
  <2> USE DEF TypeOK, LifeType, ScreenType, ScreenInv, ToldWhatIsShown,
              StaleRunsAgain, ScreenChangeOwed, Loaded, life, scr, usb
  <2>1. CASE Load
    BY <2>1 DEF Load, AllocWq, CreateNodes, RegisterUsb, RegisterPanel, Go
  <2>2. CASE Unload
    BY <2>2 DEF Unload, CancelScreen, CancelUsb, DestroyWq, UnregisterPanel,
                DestroyNodes, Go
  <2>3. CASE \E on \in BOOLEAN : PanelEvent(on)
    BY <2>3 DEF PanelEvent
  <2>4. CASE PanelQueue
    BY <2>4 DEF PanelQueue, WqGone
  <2>5. CASE ScreenStart
    BY <2>5 DEF ScreenStart
  <2>6. CASE ScreenRead
    BY <2>6 DEF ScreenRead
  <2>7. CASE ScreenWrite
    <3>1. /\ screen' = new /\ wk = "write" /\ wk' = "notify"
          /\ UNCHANGED <<phase, light, told, cb, pending, new>>
      BY <2>7 DEF ScreenWrite
    <3>2. CASE new = light
      BY <3>1, <3>2
    <3>3. CASE new # light
      BY <3>1, <3>3
    <3>4. QED
      BY <3>2, <3>3
  <2>8. CASE ScreenNotify
    <3>1. /\ told' = screen /\ wk = "notify" /\ wk' = "idle"
          /\ UNCHANGED <<phase, light, screen, cb, pending, new>>
      BY <2>8 DEF ScreenNotify
    <3>2. CASE screen = light
      BY <3>1, <3>2
    <3>3. CASE screen # light
      BY <3>1, <3>3
    <3>4. QED
      BY <3>2, <3>3
  <2>9. CASE UsbWork \/ UsbChange
    BY <2>9 DEF UsbWork, UsbReadAny, UsbQueue, UsbStart, UsbRead, UsbWrite,
                UsbChange
  <2>10. CASE UNCHANGED vars
    BY <2>10 DEF vars
  <2>11. QED
    BY <2>1, <2>2, <2>3, <2>4, <2>5, <2>6, <2>7, <2>8, <2>9, <2>10
       DEF Next, ScreenWork
<1>3. QED
  BY <1>1, <1>2, TypeCorrect, PTL DEF Spec, ScreenInv

\* No charger change is lost but for the two gaps the code leaves.
THEOREM UsbChangeKept == Spec => []UsbChangeOwed
<1>1. Init => UsbInv
  <2> SUFFICES ASSUME Init PROVE UsbInv
    OBVIOUS
  <2>1. online # plugged => missed
    BY DEF Init
  <2>2. QED
    BY <2>1 DEF Init, UsbInv, UsbChangeOwed, UsbStaleRunsAgain
<1>2. TypeOK /\ UsbInv /\ [Next]_vars => UsbInv'
  <2> SUFFICES ASSUME TypeOK, UsbInv, [Next]_vars PROVE UsbInv'
    OBVIOUS
  <2> USE DEF TypeOK, LifeType, UsbType, UsbInv, UsbStaleRunsAgain,
              UsbChangeOwed, Loaded, life, scr, usb
  <2>1. CASE Load
    BY <2>1 DEF Load, AllocWq, CreateNodes, RegisterUsb, RegisterPanel, Go
  <2>2. CASE Unload
    BY <2>2 DEF Unload, CancelScreen, CancelUsb, DestroyWq, UnregisterPanel,
                DestroyNodes, Go
  <2>3. CASE ScreenWork \/ \E on \in BOOLEAN : PanelEvent(on)
    BY <2>3 DEF ScreenWork, PanelQueue, ScreenStart, ScreenRead, ScreenWrite,
                ScreenNotify, PanelEvent
  <2>4. CASE UsbChange
    BY <2>4 DEF UsbChange
  <2>5. CASE UsbQueue
    BY <2>5 DEF UsbQueue
  <2>6. CASE UsbStart
    BY <2>6 DEF UsbStart
  <2>7. CASE UsbReadAny
    BY <2>7 DEF UsbReadAny, UsbRead
  <2>8. CASE UsbWrite
    <3>1. /\ online' = unew /\ uwk = "write" /\ uwk' = "idle"
          /\ UNCHANGED <<phase, plugged, ucb, upending, unew, missed, readFailed>>
      BY <2>8 DEF UsbWrite
    <3>2. CASE unew = plugged
      BY <3>1, <3>2
    <3>3. CASE unew # plugged
      BY <3>1, <3>3
    <3>4. QED
      BY <3>2, <3>3
  <2>9. CASE UNCHANGED vars
    BY <2>9 DEF vars
  <2>10. QED
    BY <2>1, <2>2, <2>3, <2>4, <2>5, <2>6, <2>7, <2>8, <2>9 DEF Next, UsbWork
<1>3. QED
  BY <1>1, <1>2, TypeCorrect, PTL DEF Spec, UsbInv

-----------------------------------------------------------------------------
\* Unloading leaves nothing queued or running, but for late callbacks.
THEOREM GoneIsQuiet == Spec => []QuietWhenGone
<1>1. Init => TakenDown
  BY DEF Init, TakenDown, WqGone, UsbGone
<1>2. TypeOK /\ TakenDown /\ [Next]_vars => TakenDown'
  <2> SUFFICES ASSUME TypeOK, TakenDown, [Next]_vars PROVE TakenDown'
    OBVIOUS
  <2> USE DEF TakenDown, WqGone, UsbGone, life, scr, usb
  <2>1. CASE Load
    BY <2>1 DEF Load, AllocWq, CreateNodes, RegisterUsb, RegisterPanel, Go
  <2>2. CASE CancelScreen
    BY <2>2 DEF CancelScreen, Go
  <2>3. CASE CancelUsb
    BY <2>3 DEF CancelUsb, Go
  <2>4. CASE DestroyWq
    BY <2>4 DEF DestroyWq, Go
  <2>5. CASE UnregisterPanel
    BY <2>5 DEF UnregisterPanel, Go
  <2>6. CASE DestroyNodes
    BY <2>6 DEF DestroyNodes, Go
  <2>7. CASE \E on \in BOOLEAN : PanelEvent(on)
    BY <2>7 DEF PanelEvent
  <2>8. CASE PanelQueue
    BY <2>8, Zenon DEF PanelQueue
  <2>9. CASE ScreenStart \/ ScreenRead \/ ScreenWrite \/ ScreenNotify
    BY <2>9 DEF ScreenStart, ScreenRead, ScreenWrite, ScreenNotify
  <2>10. CASE UsbChange
    BY <2>10 DEF UsbChange
  <2>11. CASE UsbQueue
    BY <2>11, Zenon DEF UsbQueue
  <2>12. CASE UsbStart \/ UsbReadAny \/ UsbWrite
    BY <2>12 DEF UsbReadAny, UsbStart, UsbRead, UsbWrite
  <2>13. CASE UNCHANGED vars
    BY <2>13 DEF vars
  <2>14. QED
    BY <2>1, <2>2, <2>3, <2>4, <2>5, <2>6, <2>7, <2>8, <2>9, <2>10, <2>11,
       <2>12, <2>13 DEF Next, Unload, ScreenWork, UsbWork
<1>3. TakenDown => QuietWhenGone
  BY DEF TakenDown, QuietWhenGone, WqGone, UsbGone
<1>4. QED
  BY <1>1, <1>2, <1>3, TypeCorrect, PTL DEF Spec
=============================================================================
