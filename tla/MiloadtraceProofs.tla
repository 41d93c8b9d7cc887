------------------------- MODULE MiloadtraceProofs -------------------------
(***************************************************************************)
(* Proofs about Miloadtrace, for any clients, any WALT slots whose calls   *)
(* are followed, any proc entries that may fail and any number of files.   *)
(***************************************************************************)
EXTENDS Miloadtrace, TLAPS

\* What the module has done so far follows from how far it is.
Progress ==
  /\ misc <=> pc \in {"proc", "reg", "live", "unreg", "unmisc"}
  /\ proc # {} => pc \in {"reg", "live", "unreg"}
  /\ pc \in {"reg", "live"} => proc # {}
  /\ gov <=> pc = "live"
  /\ pc \in {"out", "proc", "unmisc", "free"} => n = 0
  /\ pc = "live" => n = NumHooks
  /\ going => pc \in {"unreg", "unmisc", "free"}

\* The module's callbacks are in slots it has registered and not unregistered,
\* or in one that safe boot made it leave.
Placed ==
  \A s \in Slots :
    slot[s] = Miload => \/ s \in {HookOrder[i] : i \in 1 .. n}
                        \/ s \in MetisSlots /\ skipped

\* Every open file and the policy that is governed pin the module.
Pinned == refs = files + (IF governed THEN 1 ELSE 0)

\* The inductive invariant.
IInv == TypeOK /\ Progress /\ Placed /\ Pinned /\ CodeStaysWhileUsed

-----------------------------------------------------------------------------
\* The module registers in slots there are.
LEMMA HookSlots ==
  NumHooks \in Nat /\ \A i \in 1 .. NumHooks : HookOrder[i] \in Slots
<1>1. NumHooks = 9
  BY DEF NumHooks, HookOrder
<1>2. ASSUME NEW i \in 1 .. 9 PROVE HookOrder[i] \in Slots
  <2>1. HookOrder[i] \in
          {"update_fravg", "walt_window_update", "task_group_change",
           "migrate_fload", "update_group_nr", "migarte_fix_fld",
           "ui_task_detect", "update_global_period", "run_frequpdate"}
    BY DEF HookOrder
  <2>2. /\ FrameLoadSlots \subseteq Slots /\ TaskSlots \subseteq Slots
        /\ GroupSlots \subseteq Slots
    BY Zenon DEF Slots, WaltSlots, MetisSlots, PlainSlots
  <2>3. QED
    BY <2>1, <2>2, Zenon DEF FrameLoadSlots, TaskSlots, GroupSlots
<1>3. QED
  BY <1>1, <1>2

\* No slot belongs to both xiaomi_hooks.c and metis.c.
LEMMA SurfacesDisjoint == WaltSlots \cap MetisSlots = {}
BY DEF WaltSlots, FrameLoadSlots, GameSlots, MigtSlots, MetisSlots, PerflockSlots,
       TaskSlots, EnqueueSlots, WakeSlots

\* What storing a callback or NULL does to a slot, whichever surface owns it.
LEMMA StoreProperties ==
  ASSUME HookTypeOK, NEW s \in Slots, NEW cb \in Clients \cup {Null}, Store(s, cb)
  PROVE  /\ HookTypeOK'
         /\ \A t \in Slots : t # s => slot'[t] = slot[t]
         /\ slot'[s] \in {cb, Null, slot[s]}
         /\ cb = Null /\ slot'[s] = Miload => s \in MetisSlots /\ slot[s] = Miload
<1>1. slot \in [Slots -> Clients \cup {Null}] /\ enable \in BOOLEAN /\ safe_boot \in BOOLEAN
  BY DEF HookTypeOK
<1>2. slot' = [slot EXCEPT ![s] = Stored(s, cb)] /\ enable' = enable /\ safe_boot' = safe_boot
  BY DEF Store
<1>3. Miload # Null
  BY NullAssumption, MiloadAssumption
<1>4. /\ Stored(s, cb) \in {cb, Null, slot[s]}
      /\ cb = Null /\ Stored(s, cb) = Miload => s \in MetisSlots /\ slot[s] = Miload
  BY <1>3 DEF Stored, WaltStored, MetisStored, PlainStored
<1>5. Stored(s, cb) \in Clients \cup {Null}
  BY <1>1, <1>4
<1>6. slot' \in [Slots -> Clients \cup {Null}] /\ slot'[s] = Stored(s, cb)
  BY <1>1, <1>2, <1>5
<1>7. QED
  BY <1>1, <1>2, <1>4, <1>6 DEF HookTypeOK

\* Before the first load.
LEMMA InitInvariant == Init => IInv
<1> SUFFICES ASSUME Init PROVE IInv
  OBVIOUS
<1>1. NumHooks \in Nat /\ MaxFiles \in Nat /\ Miload # Null
  BY HookSlots, MiloadAssumption, NullAssumption
<1>2. HookTypeOK
  BY DEF Init, HookInit, HookTypeOK
<1>3. TypeOK
  <2>1. {misc, gov, going, governed, skipped, skipWalt} \subseteq BOOLEAN
    BY Zenon DEF Init
  <2>2. n \in 0 .. NumHooks /\ refs \in 0 .. MaxFiles + 1 /\ files \in 0 .. MaxFiles
    BY <1>1 DEF Init
  <2>3. /\ pc \in {"out", "proc", "reg", "live", "unreg", "unmisc", "free"}
        /\ proc \subseteq {"miload"} \cup ProcEntries
        /\ inside \subseteq Called \cup {"proc"}
    BY DEF Init
  <2>4. QED
    BY <1>2, <2>1, <2>2, <2>3, Zenon DEF TypeOK
<1>4. Progress
  BY DEF Init, Progress
<1>5. Placed
  BY <1>1 DEF Init, HookInit, Placed
<1>6. Pinned
  BY DEF Init, Pinned
<1>7. CodeStaysWhileUsed
  BY DEF Init, CodeStaysWhileUsed
<1>8. QED
  BY <1>3, <1>4, <1>5, <1>6, <1>7 DEF IInv

\* Steps that leave the slots, the hooks registered and the history alone.
LEMMA PlacedKept ==
  ASSUME Placed, UNCHANGED <<slot, n, skipped>>
  PROVE  Placed'
BY DEF Placed

\* Loading's steps but for the hooks.
LEMMA LoadInvariant ==
  ASSUME IInv,
         \/ LoadMisc
         \/ \E ok \in BOOLEAN :
              LoadGov(ok) \/ \E lost \in SUBSET MaybeProc : LoadProc(ok, lost)
  PROVE  IInv'
<1> USE DEF IInv
<1>1. CASE LoadMisc
  <2>1. TypeOK'
    BY <1>1 DEF LoadMisc, TypeOK, HookTypeOK, hookVars, useVars
  <2>2. Progress'
    BY <1>1 DEF LoadMisc, TypeOK, Progress, useVars
  <2>3. Placed'
    BY <1>1, PlacedKept DEF LoadMisc, hookVars
  <2>4. Pinned' /\ CodeStaysWhileUsed'
    BY <1>1 DEF LoadMisc, Pinned, CodeStaysWhileUsed, useVars
  <2>5. QED
    BY <2>1, <2>2, <2>3, <2>4
<1>2. ASSUME NEW ok \in BOOLEAN, LoadGov(ok) PROVE IInv'
  <2>1. TypeOK'
    BY <1>2 DEF LoadGov, TypeOK, HookTypeOK, hookVars, useVars
  <2>2. Progress'
    BY <1>2 DEF LoadGov, TypeOK, Progress, useVars
  <2>3. Placed'
    BY <1>2, PlacedKept DEF LoadGov, hookVars
  <2>4. Pinned' /\ CodeStaysWhileUsed'
    BY <1>2 DEF LoadGov, Pinned, CodeStaysWhileUsed, useVars, Progress
  <2>5. QED
    BY <2>1, <2>2, <2>3, <2>4
<1>3. ASSUME NEW ok \in BOOLEAN, NEW lost \in SUBSET MaybeProc, LoadProc(ok, lost)
      PROVE  IInv'
  <2>1. TypeOK'
    BY <1>3 DEF LoadProc, TypeOK, HookTypeOK, hookVars, useVars
  <2>2. Progress'
    BY <1>3 DEF LoadProc, TypeOK, Progress, useVars
  <2>3. Placed'
    BY <1>3, PlacedKept DEF LoadProc, hookVars
  <2>4. Pinned' /\ CodeStaysWhileUsed'
    BY <1>3 DEF LoadProc, Pinned, CodeStaysWhileUsed, useVars
  <2>5. QED
    BY <2>1, <2>2, <2>3, <2>4
<1>4. QED
  BY <1>1, <1>2, <1>3

\* Registering one more hook.
LEMMA RegisterInvariant ==
  ASSUME IInv, RegisterHook
  PROVE  IInv'
<1> USE DEF IInv
<1>1. /\ pc = "reg" /\ n < NumHooks /\ Store(HookOrder[n + 1], Miload) /\ n' = n + 1
      /\ UNCHANGED <<pc, misc, proc, gov, going, refs, files, governed, inside,
                     skipped, skipWalt>>
  BY DEF RegisterHook, Register, useVars
<1>2. n \in Nat /\ NumHooks \in Nat /\ n + 1 \in 1 .. NumHooks
  BY <1>1, HookSlots DEF TypeOK
<1> DEFINE h == HookOrder[n + 1]
<1>3. h \in Slots /\ Miload \in Clients \cup {Null} /\ Miload # Null
  BY <1>2, HookSlots, MiloadAssumption, NullAssumption
<1>4. HookTypeOK' /\ \A t \in Slots : t # h => slot'[t] = slot[t]
  BY <1>1, <1>3, StoreProperties DEF TypeOK
<1>5. TypeOK'
  <2>1. n' \in 0 .. NumHooks
    BY <1>1, <1>2
  <2>2. QED
    BY <1>1, <1>4, <2>1 DEF TypeOK
<1>6. Progress'
  BY <1>1 DEF Progress
<1>7. Placed'
  <2>1. ASSUME NEW s \in Slots, slot'[s] = Miload
        PROVE  \/ \E i \in 1 .. n' : s = HookOrder[i]
               \/ s \in MetisSlots /\ skipped'
    <3>1. CASE s = h
      <4>1. n + 1 \in 1 .. n'
        BY <1>1, <1>2
      <4>2. QED
        BY <3>1, <4>1
    <3>2. CASE s # h
      <4>1. slot[s] = Miload
        BY <1>4, <2>1, <3>2
      <4>2. \/ \E i \in 1 .. n : s = HookOrder[i]
            \/ s \in MetisSlots /\ skipped
        BY <4>1 DEF Placed
      <4>3. 1 .. n \subseteq 1 .. n'
        BY <1>1, <1>2
      <4>4. QED
        BY <1>1, <4>2, <4>3
    <3>3. QED
      BY <3>1, <3>2
  <2>2. QED
    BY <2>1 DEF Placed
<1>8. Pinned' /\ CodeStaysWhileUsed'
  BY <1>1 DEF Pinned, CodeStaysWhileUsed
<1>9. QED
  BY <1>5, <1>6, <1>7, <1>8

\* Unregistering the last hook: a slot that keeps it is one of metis.
LEMMA UnregisterInvariant ==
  ASSUME IInv, UnregisterHook
  PROVE  IInv'
<1> USE DEF IInv
<1> DEFINE h == HookOrder[n]
<1>1. /\ pc = "unreg" /\ n > 0 /\ Store(h, Null) /\ n' = n - 1
      /\ skipped' = (skipped \/ slot'[h] = Miload)
      /\ UNCHANGED <<pc, misc, proc, gov, going, refs, files, governed, inside, skipWalt>>
  BY DEF UnregisterHook, Unregister, useVars
<1>2. n \in Nat /\ NumHooks \in Nat /\ n \in 1 .. NumHooks
  BY <1>1, HookSlots DEF TypeOK
<1>3. h \in Slots /\ Null \in Clients \cup {Null}
  BY <1>2, HookSlots
<1>4. /\ HookTypeOK' /\ \A t \in Slots : t # h => slot'[t] = slot[t]
      /\ slot'[h] = Miload => h \in MetisSlots
  BY <1>1, <1>3, StoreProperties DEF TypeOK
<1>5. TypeOK'
  <2>1. n' \in 0 .. NumHooks
    BY <1>1, <1>2
  <2>2. skipped' \in BOOLEAN
    BY <1>1
  <2>3. {misc', gov', going', governed', skipped', skipWalt'} \subseteq BOOLEAN
    BY <1>1, <2>2 DEF TypeOK
  <2>4. QED
    BY <1>1, <1>4, <2>1, <2>3 DEF TypeOK
<1>6. Progress'
  BY <1>1 DEF Progress
<1>7. Placed'
  <2>1. ASSUME NEW s \in Slots, slot'[s] = Miload
        PROVE  \/ \E i \in 1 .. n' : s = HookOrder[i]
               \/ s \in MetisSlots /\ skipped'
    <3>1. CASE s = h
      BY <1>1, <1>4, <2>1, <3>1
    <3>2. CASE s # h
      <4>1. slot[s] = Miload
        BY <1>4, <2>1, <3>2
      <4>2. \/ \E i \in 1 .. n : s = HookOrder[i]
            \/ s \in MetisSlots /\ skipped
        BY <4>1 DEF Placed
      <4>3. \A i \in 1 .. n : i # n => i \in 1 .. n'
        BY <1>1, <1>2
      <4>4. skipped => skipped'
        BY <1>1
      <4>5. QED
        BY <3>2, <4>2, <4>3, <4>4, Zenon
    <3>3. QED
      BY <3>1, <3>2
  <2>2. QED
    BY <2>1 DEF Placed
<1>8. Pinned' /\ CodeStaysWhileUsed'
  BY <1>1 DEF Pinned, CodeStaysWhileUsed
<1>9. QED
  BY <1>5, <1>6, <1>7, <1>8

\* The other steps of unloading.
LEMMA UnloadInvariant ==
  ASSUME IInv, UnloadGov \/ UnloadProc \/ UnloadMisc \/ FreeModule
  PROVE  IInv'
<1> USE DEF IInv
<1>1. CASE UnloadGov
  <2>1. files = 0 /\ ~governed
    BY <1>1, MiloadAssumption DEF UnloadGov, Pinned, TypeOK
  <2>2. TypeOK'
    BY <1>1 DEF UnloadGov, TypeOK, HookTypeOK, hookVars
  <2>3. Progress'
    BY <1>1 DEF UnloadGov, Progress
  <2>4. Placed'
    BY <1>1, PlacedKept DEF UnloadGov, hookVars
  <2>5. Pinned' /\ CodeStaysWhileUsed'
    BY <1>1, <2>1 DEF UnloadGov, Pinned, CodeStaysWhileUsed
  <2>6. QED
    BY <2>2, <2>3, <2>4, <2>5
<1>2. CASE UnloadProc \/ UnloadMisc
  <2>1. TypeOK'
    BY <1>2 DEF UnloadProc, UnloadMisc, TypeOK, HookTypeOK, hookVars, useVars
  <2>2. Progress'
    BY <1>2 DEF UnloadProc, UnloadMisc, Progress, useVars
  <2>3. Placed'
    BY <1>2, PlacedKept DEF UnloadProc, UnloadMisc, hookVars
  <2>4. Pinned' /\ CodeStaysWhileUsed'
    BY <1>2 DEF UnloadProc, UnloadMisc, Pinned, CodeStaysWhileUsed, useVars
  <2>5. QED
    BY <2>1, <2>2, <2>3, <2>4
<1>3. CASE FreeModule
  <2>1. ~governed
    BY <1>3 DEF FreeModule, CodeStaysWhileUsed, Progress
  <2>2. TypeOK'
    <3>1. 0 \in 0 .. MaxFiles /\ 0 \in 0 .. MaxFiles + 1
      BY MiloadAssumption
    <3>2. QED
      BY <1>3, <3>1 DEF FreeModule, TypeOK, HookTypeOK, hookVars
  <2>3. Progress'
    BY <1>3 DEF FreeModule, Progress
  <2>4. Placed'
    BY <1>3, PlacedKept DEF FreeModule, hookVars
  <2>5. Pinned' /\ CodeStaysWhileUsed'
    BY <1>3, <2>1 DEF FreeModule, Pinned, CodeStaysWhileUsed
  <2>6. QED
    BY <2>2, <2>3, <2>4, <2>5
<1>4. QED
  BY <1>1, <1>2, <1>3

\* The scheduler, user space and cpufreq.  No callback begins when the module is
\* gone: what safe boot keeps is in a slot of metis.
LEMMA UseInvariant ==
  ASSUME IInv, Use
  PROVE  IInv'
<1> USE DEF IInv
<1>1. ASSUME UNCHANGED <<hookVars, loadVars, skipped>>
      PROVE  Placed' /\ (UNCHANGED going => Progress')
  <2>1. UNCHANGED <<slot, pc, n, misc, proc, gov>>
    BY <1>1 DEF hookVars, loadVars
  <2>2. QED
    BY <1>1, <2>1, PlacedKept DEF Progress
<1>2. ASSUME NEW s \in Called, CallBegin(s) PROVE IInv'
  <2>1. s \in Slots /\ s \notin MetisSlots /\ slot[s] = Miload
    <3>1. s \in WaltSlots /\ slot[s] = Miload
      BY <1>2, MiloadAssumption DEF CallBegin
    <3>2. QED
      BY <3>1, SurfacesDisjoint, Zenon DEF Slots
  <2>2. pc # "out"
    <3>1. n = 0 => 1 .. n = {}
      OBVIOUS
    <3>2. pc = "out" => n = 0
      BY DEF Progress
    <3>3. QED
      BY <2>1, <3>1, <3>2 DEF Placed
  <2>3. TypeOK'
    BY <1>2 DEF CallBegin, TypeOK, HookTypeOK, hookVars, loadVars
  <2>4. Pinned' /\ CodeStaysWhileUsed'
    BY <1>2, <2>2 DEF CallBegin, Pinned, CodeStaysWhileUsed, loadVars
  <2>5. QED
    BY <1>1, <1>2, <2>3, <2>4 DEF CallBegin
<1>3. ASSUME NEW s \in inside, CallEnd(s) PROVE IInv'
  <2>1. skipWalt' \in BOOLEAN
    BY <1>3 DEF CallEnd
  <2>2. TypeOK'
    BY <1>3, <2>1 DEF CallEnd, TypeOK, HookTypeOK, hookVars, loadVars
  <2>3. Pinned' /\ CodeStaysWhileUsed'
    BY <1>3 DEF CallEnd, Pinned, CodeStaysWhileUsed, loadVars
  <2>4. QED
    BY <1>1, <1>3, <2>2, <2>3 DEF CallEnd
<1>4. CASE ProcCall
  <2>1. pc # "out"
    BY <1>4 DEF ProcCall, Progress
  <2>2. TypeOK'
    BY <1>4 DEF ProcCall, TypeOK, HookTypeOK, hookVars, loadVars
  <2>3. Pinned' /\ CodeStaysWhileUsed'
    BY <1>4, <2>1 DEF ProcCall, Pinned, CodeStaysWhileUsed, loadVars
  <2>4. QED
    BY <1>1, <1>4, <2>2, <2>3 DEF ProcCall
<1>5. CASE Open \/ Close
  <2>1. /\ UNCHANGED <<hookVars, loadVars, going, governed, inside, skipped, skipWalt>>
        /\ \/ ~going /\ files < MaxFiles /\ files' = files + 1 /\ refs' = refs + 1
           \/ files > 0 /\ files' = files - 1 /\ refs' = refs - 1
    BY <1>5 DEF Open, Close
  <2>2. MaxFiles \in Nat /\ files \in 0 .. MaxFiles /\ refs \in Nat
    BY MiloadAssumption DEF TypeOK
  <2>3. Pinned' /\ files' \in 0 .. MaxFiles
    BY <2>1, <2>2 DEF Pinned
  <2>4. refs' \in 0 .. MaxFiles + 1
    <3>1. PICK one \in 0 .. 1 : refs' = files' + one
      BY <2>3 DEF Pinned
    <3>2. PICK f \in 0 .. MaxFiles : files' = f
      BY <2>3
    <3>3. f + one \in 0 .. MaxFiles + 1
      BY <2>2
    <3>4. QED
      BY <3>1, <3>2, <3>3
  <2>5. TypeOK'
    BY <2>1, <2>3, <2>4 DEF TypeOK, HookTypeOK, hookVars, loadVars
  <2>6. CodeStaysWhileUsed'
    BY <2>1, <2>2 DEF CodeStaysWhileUsed, loadVars
  <2>7. QED
    BY <1>1, <2>1, <2>3, <2>5, <2>6
<1>6. CASE Govern \/ Ungovern
  <2>1. /\ UNCHANGED <<hookVars, loadVars, going, files, inside, skipped, skipWalt>>
        /\ \/ gov /\ ~governed /\ governed' = TRUE /\ refs' = refs + 1
           \/ governed /\ governed' = FALSE /\ refs' = refs - 1
    BY <1>6 DEF Govern, Ungovern
  <2>2. MaxFiles \in Nat /\ files \in 0 .. MaxFiles /\ refs \in Nat
    BY MiloadAssumption DEF TypeOK
  <2>3. Pinned'
    BY <2>1, <2>2 DEF Pinned
  <2>4. refs' \in 0 .. MaxFiles + 1
    BY <2>1, <2>2, <2>3 DEF Pinned
  <2>5. TypeOK'
    BY <2>1, <2>4 DEF TypeOK, HookTypeOK, hookVars, loadVars
  <2>6. gov => ~going
    BY DEF Progress
  <2>7. CodeStaysWhileUsed'
    BY <2>1, <2>6 DEF CodeStaysWhileUsed, loadVars
  <2>8. QED
    BY <1>1, <2>1, <2>3, <2>5, <2>7
<1>7. QED
  BY <1>2, <1>3, <1>4, <1>5, <1>6 DEF Use

\* The gates and the other modules touch no slot that holds Miload's callback.
LEMMA OthersInvariant ==
  ASSUME IInv, Gates \/ Others \/ UNCHANGED vars
  PROVE  IInv'
<1> USE DEF IInv
<1>1. UNCHANGED <<pc, n, misc, proc, gov, going, refs, files, governed, inside,
                  skipped, skipWalt>>
  BY DEF Gates, Others, vars, modVars, loadVars, useVars
<1>2. HookTypeOK' /\ \A s \in Slots : slot'[s] = Miload => slot[s] = Miload
  <2>1. CASE Gates
    BY <2>1 DEF Gates, SetEnable, SetSafeBoot, TypeOK, HookTypeOK
  <2>2. ASSUME NEW s \in VendorSlots, Register(s, Vendor) \/ Unregister(s)
        PROVE  HookTypeOK' /\ \A t \in Slots : slot'[t] = Miload => slot[t] = Miload
    <3>1. PICK cb \in {Vendor, Null} : Store(s, cb)
      BY <2>2 DEF Register, Unregister
    <3>2. /\ s \in Slots /\ cb \in Clients \cup {Null} /\ cb # Miload /\ Null # Miload
      BY MiloadAssumption, NullAssumption
    <3>3. QED
      BY <3>1, <3>2, StoreProperties DEF TypeOK
  <2>3. CASE UNCHANGED vars
    BY <2>3 DEF vars, hookVars, TypeOK, HookTypeOK
  <2>4. QED
    BY <2>1, <2>2, <2>3 DEF Others
<1>3. TypeOK'
  BY <1>1, <1>2 DEF TypeOK
<1>4. Progress' /\ Pinned' /\ CodeStaysWhileUsed'
  BY <1>1 DEF Progress, Pinned, CodeStaysWhileUsed
<1>5. Placed'
  BY <1>1, <1>2 DEF Placed
<1>6. QED
  BY <1>3, <1>4, <1>5

\* The inductive invariant holds throughout.
LEMMA Invariant == Spec => []IInv
<1>1. IInv /\ [Next]_vars => IInv'
  BY LoadInvariant, RegisterInvariant, UnregisterInvariant, UnloadInvariant,
     UseInvariant, OthersInvariant DEF Next, Load, Unload
<1>2. QED
  BY <1>1, InitInvariant, PTL DEF Spec

-----------------------------------------------------------------------------
\* Types: the reference count never falls below zero nor exceeds the files
\* and the governed policy that may pin the module.
THEOREM TypeCorrect == Spec => []TypeOK
<1>1. IInv => TypeOK
  BY DEF IInv
<1>2. QED
  BY <1>1, Invariant, PTL

\* miload_unregister_hooks leaves no callback of the module in a slot, except
\* one of metis that safe boot kept.
THEOREM HooksTakenBack == Spec => []NoHookLeftBehind
<1>1. ASSUME IInv PROVE NoHookLeftBehind
  <2>1. pc \in {"out", "unmisc", "free"} => n = 0
    BY <1>1 DEF IInv, Progress
  <2>2. n = 0 => 1 .. n = {}
    OBVIOUS
  <2>3. QED
    BY <1>1, <2>1, <2>2 DEF IInv, Placed, NoHookLeftBehind
<1>2. QED
  BY <1>1, Invariant, PTL

\* The error paths of miloadtrace_init and miloadtrace_exit take back all that
\* was set up, and the governor is offered only between.
THEOREM UnwindsCompletely == Spec => []UnwindIsComplete
<1>1. IInv => UnwindIsComplete
  BY DEF IInv, Progress, UnwindIsComplete
<1>2. QED
  BY <1>1, Invariant, PTL

\* Nobody runs the code of a module that is gone: no callback, no proc handler,
\* and exit begins with no open file and no governed policy.
THEOREM CodeStays == Spec => []CodeStaysWhileUsed
<1>1. IInv => CodeStaysWhileUsed
  BY DEF IInv
<1>2. QED
  BY <1>1, Invariant, PTL
=============================================================================
