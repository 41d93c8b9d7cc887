---------------------------- MODULE HookSurface ----------------------------
(***************************************************************************)
(* The callback slots companion modules register their scheduler hooks in. *)
(* Three surfaces own slots and differ in what storing does:               *)
(*   xiaomi_hooks.c  stores when xiaomi_walt_hooks_enable, else clears;    *)
(*   metis.c         stores when not metis_safe_boot, else does nothing;   *)
(*   mi_schedule.c and mist.c always store.                                *)
(* Registering stores a callback, unregistering stores NULL.               *)
(***************************************************************************)
EXTENDS Naturals, Sequences, FiniteSets

CONSTANTS
  Clients,  \* the modules callbacks belong to; a callback is its module
  Null

ASSUME NullAssumption == Null \notin Clients

VARIABLES
  slot,      \* what each slot holds
  enable,    \* xiaomi_walt_hooks_enable
  safe_boot  \* metis_safe_boot

hookVars == <<slot, enable, safe_boot>>

\* xiaomi_hooks.c: frame load, game and frame-load tracking, migt.
FrameLoadSlots ==
  {"update_fravg", "update_group_nr", "migrate_fload", "run_frequpdate",
   "migarte_fix_fld", "walt_window_update"}
GameSlots ==
  {"ravg_window", "game_vip", "flt_enable", "flt_wakeup", "update_frame_load",
   "set_freq", "flt_load", "flt_reset"}
MigtSlots ==
  {"check_rt", "should_skip_migrate", "skip_this_cpu_rt", "skip_cpus_rt", "cpus",
   "skip_cpus", "exclusive_cpus"}
WaltSlots == FrameLoadSlots \cup GameSlots \cup MigtSlots

\* metis.c.  The first three can be registered but not unregistered.
PerflockSlots == {"corectl_boost", "update_perflock_freq", "get_perflock_last_freqs"}
TaskSlots ==
  {"ui_task_detect", "render_task_detect", "vip_task_detect", "walt_get_indicies",
   "find_energy_efficient_cpu", "dequeue_task_fair", "sched_enable",
   "choose_cpu_overutiled", "override_schedboost"}
EnqueueSlots == {"enqueue_entity", "enqueue_task_fair", "lb_detect"}
WakeSlots == {"game_binder", "try_to_wake_up", "metis_skip_cpus"}
MetisSlots == PerflockSlots \cup TaskSlots \cup EnqueueSlots \cup WakeSlots

\* mi_schedule.c and mist.c; the frequency hook of mist cannot be unregistered.
GroupSlots == {"update_global_period", "task_group_change", "sched_load_update"}
MistSlots == {"soc_freq_update", "dflt_bw_update", "dflt_lat_update"}
PlainSlots == GroupSlots \cup MistSlots

Slots == WaltSlots \cup MetisSlots \cup PlainSlots
NoUnregister == PerflockSlots \cup {"soc_freq_update"}

HookInit ==
  /\ slot = [s \in Slots |-> Null]
  /\ enable = FALSE /\ safe_boot = TRUE

-----------------------------------------------------------------------------
\* Mutant: with the gate closed the slot is left alone.
WaltKept(s, cb) == IF enable THEN cb ELSE slot[s]

\* xiaomi_store_hook: with the gate closed the slot is cleared.
WaltStored(s, cb) == IF enable THEN cb ELSE Null

\* metis_store_hook: in safe boot the slot keeps what it has.
MetisStored(s, cb) == IF safe_boot THEN slot[s] ELSE cb

\* mi_schedule_store_hook and mist_store_hook.
PlainStored(s, cb) == cb

\* What slot s holds once cb was stored in it.
Stored(s, cb) ==
  IF s \in WaltSlots THEN WaltStored(s, cb)
  ELSE IF s \in MetisSlots THEN MetisStored(s, cb) ELSE PlainStored(s, cb)

Store(s, cb) ==
  /\ slot' = [slot EXCEPT ![s] = Stored(s, cb)]
  /\ UNCHANGED <<enable, safe_boot>>

\* The register_ functions of xiaomi_hooks.c refuse NULL, a client has one.
Register(s, c) == Store(s, c)
Unregister(s) == s \notin NoUnregister /\ Store(s, Null)

\* Both gates are module parameters anybody with the right may write.
SetEnable ==
  /\ enable' = ~enable
  /\ UNCHANGED <<slot, safe_boot>>

SetSafeBoot ==
  /\ safe_boot' = ~safe_boot
  /\ UNCHANGED <<slot, enable>>

-----------------------------------------------------------------------------
\* The types of the variables.
HookTypeOK ==
  /\ slot \in [Slots -> Clients \cup {Null}]
  /\ enable \in BOOLEAN /\ safe_boot \in BOOLEAN
=============================================================================
