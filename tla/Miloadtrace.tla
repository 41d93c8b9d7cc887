---------------------------- MODULE Miloadtrace ----------------------------
(***************************************************************************)
(* Loading and unloading of miloadtrace.c as a client of the hook surfaces:*)
(* it registers a misc device, proc entries, nine hooks one after the      *)
(* other and a cpufreq governor, and takes them down in reverse, when a    *)
(* step fails or on exit.  Meanwhile the gates of the surfaces may be      *)
(* switched, other modules register hooks of their own, the scheduler is   *)
(* in the module's callbacks, user space in its files, and cpufreq uses    *)
(* its governor: whoever runs the module's code needs it to stay.          *)
(***************************************************************************)
EXTENDS HookSurface

CONSTANTS
  Miload,      \* this module, as a client
  Vendor,      \* another companion module
  VendorSlots, \* the slots it uses
  Called,      \* bound: the WALT slots whose callbacks are followed through a call
  MaybeProc,   \* bound: the proc entries that may fail to be created
  MaxFiles     \* bound: how many files are open on the misc device

\* The slots in the order miload_register_hooks fills them.
HookOrder ==
  <<"update_fravg", "walt_window_update", "task_group_change", "migrate_fload",
    "update_group_nr", "migarte_fix_fld", "ui_task_detect", "update_global_period",
    "run_frequpdate">>
NumHooks == Len(HookOrder)

\* Below /proc/miload; the files are put in group, or without it in miload.
ProcEntries == {"frame_load", "group", "all_group", "task_grp_id", "user_grp_id"}
ProcFiles == {"all_group", "task_grp_id", "user_grp_id"}

ASSUME MiloadAssumption ==
  /\ {Miload, Vendor} \subseteq Clients /\ Miload # Vendor
  /\ VendorSlots \subseteq Slots \ {HookOrder[i] : i \in 1 .. NumHooks}
  /\ Called \subseteq WaltSlots
  /\ MaybeProc \subseteq ProcEntries
  /\ MaxFiles \in Nat

VARIABLES
  pc,       \* how far loading ("proc" ... "live") or unloading ("unreg" ...) is
  n,        \* how many hooks are registered
  misc, proc, gov,  \* what the module holds: the device, proc entries, governor
  going,    \* exit has begun: the module can no longer be pinned
  refs,     \* the module's reference count
  files,    \* open files of the misc device
  governed, \* cpufreq uses the governor
  inside,   \* callbacks and proc handlers being executed
  skipped,  \* history: an unregister that found its slot in safe boot
  skipWalt  \* skip_walt_result

loadVars == <<pc, n, misc, proc, gov>>
useVars == <<going, refs, files, governed, inside>>
modVars == <<loadVars, useVars, skipped, skipWalt>>
vars == <<hookVars, modVars>>

Init ==
  /\ HookInit
  /\ pc = "out" /\ n = 0
  /\ misc = FALSE /\ proc = {} /\ gov = FALSE
  /\ going = FALSE /\ refs = 0 /\ files = 0 /\ governed = FALSE /\ inside = {}
  /\ skipped = FALSE /\ skipWalt = FALSE

-----------------------------------------------------------------------------
\* miloadtrace_init.  A misc device that cannot be registered ends it.
LoadMisc ==
  /\ pc = "out"
  /\ misc' = TRUE
  /\ pc' = "proc"
  /\ skipWalt' = FALSE
  /\ UNCHANGED <<hookVars, n, proc, gov, useVars, skipped>>

\* Mutant: proc_init failing returns at once.
LoadProcNoUnwind(ok, lost) ==
  /\ pc = "proc"
  /\ proc' = IF ok THEN {"miload"} \cup (ProcEntries \ lost) ELSE {}
  /\ pc' = IF ok THEN "reg" ELSE "free"
  /\ UNCHANGED <<hookVars, n, misc, gov, useVars, skipped, skipWalt>>

\* miload_proc_init fails without the directory miload and does not look at
\* the rest: lost are the entries that could not be created.
LoadProc(ok, lost) ==
  /\ pc = "proc"
  /\ proc' = IF ok THEN {"miload"} \cup (ProcEntries \ lost) ELSE {}
  /\ pc' = IF ok THEN "reg" ELSE "unmisc"
  /\ UNCHANGED <<hookVars, n, misc, gov, useVars, skipped, skipWalt>>

\* Mutant: one round too many.
RegisterHookMore ==
  /\ pc = "reg" /\ n <= NumHooks
  /\ Register(HookOrder[IF n < NumHooks THEN n + 1 ELSE n], Miload)
  /\ n' = n + 1
  /\ UNCHANGED <<pc, misc, proc, gov, useVars, skipped, skipWalt>>

\* miload_register_hooks, one hook.  The callbacks are functions of this
\* module, never NULL, so that no registration fails.
RegisterHook ==
  /\ pc = "reg" /\ n < NumHooks
  /\ Register(HookOrder[n + 1], Miload)
  /\ n' = n + 1
  /\ UNCHANGED <<pc, misc, proc, gov, useVars, skipped, skipWalt>>

\* migtgov_register.
LoadGov(ok) ==
  /\ pc = "reg" /\ n = NumHooks
  /\ gov' = ok
  /\ pc' = IF ok THEN "live" ELSE "unreg"
  /\ UNCHANGED <<hookVars, n, misc, proc, useVars, skipped, skipWalt>>

\* miloadtrace_exit runs when nobody pins the module, and begins with the
\* governor.  Its irq_works are never queued.
UnloadGov ==
  /\ pc = "live" /\ refs = 0
  /\ going' = TRUE
  /\ gov' = FALSE
  /\ pc' = "unreg"
  /\ UNCHANGED <<hookVars, n, misc, proc, refs, files, governed, inside, skipped, skipWalt>>

\* miload_unregister_hooks, one hook: the last one registered goes first.
UnregisterHook ==
  /\ pc = "unreg" /\ n > 0
  /\ Unregister(HookOrder[n])
  /\ skipped' = (skipped \/ slot'[HookOrder[n]] = Miload)
  /\ n' = n - 1
  /\ UNCHANGED <<pc, misc, proc, gov, useVars, skipWalt>>

\* miload_proc_exit removes every entry there is; proc_remove waits for the
\* handlers that are running.
UnloadProc ==
  /\ pc = "unreg" /\ n = 0 /\ "proc" \notin inside
  /\ proc' = {}
  /\ pc' = "unmisc"
  /\ UNCHANGED <<hookVars, n, misc, gov, useVars, skipped, skipWalt>>

\* misc_deregister; files that are open stay open.
UnloadMisc ==
  /\ pc = "unmisc"
  /\ misc' = FALSE
  /\ pc' = "free"
  /\ UNCHANGED <<hookVars, n, proc, gov, useVars, skipped, skipWalt>>

\* The module loader waits for the callbacks that run (synchronize_rcu) and
\* frees the code, after a load that failed whether or not it is pinned.
FreeModule ==
  /\ pc = "free" /\ inside = {}
  /\ pc' = "out"
  /\ going' = FALSE /\ refs' = 0 /\ files' = 0
  /\ UNCHANGED <<hookVars, n, misc, proc, gov, governed, inside, skipped, skipWalt>>

-----------------------------------------------------------------------------
\* The scheduler loads a slot of xiaomi_hooks.c and calls what is there.  The
\* slots of metis are static pointers that are only ever stored to: no code
\* calls through them.
CallBegin(s) ==
  /\ slot[s] = Miload /\ s \notin inside
  /\ inside' = inside \cup {s}
  /\ UNCHANGED <<hookVars, loadVars, going, refs, files, governed, skipped, skipWalt>>

\* skip_walt_window_update leaves a note for all_group_show; the other
\* callbacks only log.
CallEnd(s) ==
  /\ s \in inside
  /\ inside' = inside \ {s}
  /\ skipWalt' = (skipWalt \/ s = "walt_window_update")
  /\ UNCHANGED <<hookVars, loadVars, going, refs, files, governed, skipped>>

\* Reading or writing one of the proc files, which keep nothing.
ProcCall ==
  /\ proc \cap ProcFiles # {} /\ "proc" \notin inside
  /\ inside' = inside \cup {"proc"}
  /\ UNCHANGED <<hookVars, loadVars, going, refs, files, governed, skipped, skipWalt>>

\* Mutant: miframe_fops without an owner.
OpenUnpinned ==
  /\ misc /\ ~going /\ files < MaxFiles
  /\ files' = files + 1
  /\ UNCHANGED <<hookVars, loadVars, going, refs, governed, inside, skipped, skipWalt>>

\* The device can be opened as soon as misc_register made it, the load still
\* running; fops.owner pins the module.
Open ==
  /\ misc /\ ~going /\ files < MaxFiles
  /\ files' = files + 1 /\ refs' = refs + 1
  /\ UNCHANGED <<hookVars, loadVars, going, governed, inside, skipped, skipWalt>>

Close ==
  /\ files > 0
  /\ files' = files - 1 /\ refs' = refs - 1
  /\ UNCHANGED <<hookVars, loadVars, going, governed, inside, skipped, skipWalt>>

\* A policy takes the governor, which pins its owner, or gives it up.
Govern ==
  /\ gov /\ ~governed
  /\ governed' = TRUE /\ refs' = refs + 1
  /\ UNCHANGED <<hookVars, loadVars, going, files, inside, skipped, skipWalt>>

Ungovern ==
  /\ governed
  /\ governed' = FALSE /\ refs' = refs - 1
  /\ UNCHANGED <<hookVars, loadVars, going, files, inside, skipped, skipWalt>>

-----------------------------------------------------------------------------
Load ==
  \/ LoadMisc \/ RegisterHook
  \/ \E ok \in BOOLEAN : LoadGov(ok) \/ \E lost \in SUBSET MaybeProc : LoadProc(ok, lost)
Unload == UnloadGov \/ UnregisterHook \/ UnloadProc \/ UnloadMisc \/ FreeModule
Use ==
  \/ \E s \in Called : CallBegin(s)
  \/ \E s \in inside : CallEnd(s)
  \/ ProcCall \/ Open \/ Close \/ Govern \/ Ungovern
Gates == (SetEnable \/ SetSafeBoot) /\ UNCHANGED modVars
Others ==
  /\ \E s \in VendorSlots : Register(s, Vendor) \/ Unregister(s)
  /\ UNCHANGED modVars

Next == Load \/ Unload \/ Use \/ Gates \/ Others

Spec == Init /\ [][Next]_vars

-----------------------------------------------------------------------------
\* The types of the variables.
TypeOK ==
  /\ HookTypeOK
  /\ pc \in {"out", "proc", "reg", "live", "unreg", "unmisc", "free"}
  /\ n \in 0 .. NumHooks
  /\ proc \subseteq {"miload"} \cup ProcEntries
  /\ refs \in 0 .. MaxFiles + 1 /\ files \in 0 .. MaxFiles
  /\ inside \subseteq Called \cup {"proc"}
  /\ {misc, gov, going, governed, skipped, skipWalt} \subseteq BOOLEAN

(***************************************************************************)
(* An unloaded module leaves no callback behind, however the gates were    *)
(* switched between its registering and its unregistering, but for one     *)
(* case: an unregister that metis_store_hook ignored in safe boot.  Then a *)
(* slot of metis keeps the address of code that is gone.                   *)
(***************************************************************************)
NoHookLeftBehind ==
  pc \in {"out", "unmisc", "free"} =>
    \A s \in Slots : slot[s] = Miload => s \in MetisSlots /\ skipped

(***************************************************************************)
(* Whichever step of loading fails, and after unloading, the module holds  *)
(* nothing; and the governor is only offered while all hooks are set up.   *)
(***************************************************************************)
UnwindIsComplete ==
  /\ pc \in {"out", "free"} => ~misc /\ proc = {} /\ ~gov /\ n = 0
  /\ gov => misc /\ proc # {} /\ n = NumHooks

(***************************************************************************)
(* Nobody runs code of the module that is gone.  Unregistering a hook does *)
(* not wait for its callers, and files and policies come and go until exit *)
(* begins; yet no slot the scheduler calls through holds a callback once   *)
(* the loader has waited for the running ones, whatever the gates did, and *)
(* exit finds no open file and no governed policy.  Left out is a load     *)
(* that fails with a file open, which exit is not asked about.  That the   *)
(* loader waits for running callbacks is assumed of it (FreeModule).       *)
(***************************************************************************)
CodeStaysWhileUsed ==
  /\ pc = "out" => inside = {}
  /\ going => files = 0 /\ ~governed
  /\ governed => gov
=============================================================================
