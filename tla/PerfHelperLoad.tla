--------------------------- MODULE PerfHelperLoad ---------------------------
(***************************************************************************)
(* Loading and unloading of perf_helper.c, and what a load that fails half *)
(* way leaves in /proc and /sys for the next one.  perf_helper_init runs   *)
(* perflock_init, mimd_init and sched_assi_init; when one fails it undoes  *)
(* the ones that succeeded, not the part of the failing one that was done. *)
(* The objects outlive the module; its static pointers start as NULL in    *)
(* every load.                                                             *)
(***************************************************************************)
EXTENDS Naturals, FiniteSets

\* The directories and kobjects by their names in /proc and /sys/kernel,
\* and the files and attribute groups in them.
PerflockFiles ==
  {"perflock_records", "perflock_exception", "kswapd_pid", "kcompactd_pid",
   "sfui_pid", "sfre_pid"}
MimdFiles == {"mimdlog", "global_reclaim"}
Objects ==
  {"proc_perflock", "proc_mimd", "mimd", "mimd_group", "perf_helper",
   "sched_assi_group"} \cup PerflockFiles \cup MimdFiles

VARIABLES
  names,           \* the objects that exist
  pc,              \* how far loading or unloading is
  mimd_dir,        \* this load's pointers: TRUE when not NULL
  mimd_kobj,
  sched_assi_kobj,
  exited           \* history: the module was loaded and removed since the
                   \* last load began

ptrVars == <<mimd_dir, mimd_kobj, sched_assi_kobj>>
vars == <<names, pc, ptrVars, exited>>

Init ==
  /\ names = {} /\ pc = "out"
  /\ mimd_dir = FALSE /\ mimd_kobj = FALSE /\ sched_assi_kobj = FALSE
  /\ exited = FALSE

\* proc_mkdir, kobject_create_and_add and sysfs_create_group fail for lack of
\* memory and when the name is taken.
CanCreate(x, ok) == ok /\ x \notin names

\* remove_proc_subtree takes the directory and every file in it.
Subtree(d) == IF d = "proc_mimd" THEN {d} \cup MimdFiles ELSE {d} \cup PerflockFiles

-----------------------------------------------------------------------------
\* perflock_init.  A file that cannot be created is only warned of, or not
\* even looked at: got are those that could.
PerflockInit(ok, got) ==
  /\ pc = "out"
  /\ exited' = FALSE
  /\ IF CanCreate("proc_perflock", ok)
     THEN names' = names \cup {"proc_perflock"} \cup got /\ pc' = "mimd_dir"
     ELSE UNCHANGED <<names, pc>>
  /\ UNCHANGED ptrVars

\* mimd_init goes on without its directory; there are no files then.
MimdDir(ok, got) ==
  /\ pc = "mimd_dir"
  /\ mimd_dir' = CanCreate("proc_mimd", ok)
  /\ names' = IF mimd_dir' THEN names \cup {"proc_mimd"} \cup got ELSE names
  /\ pc' = "mimd_kobj"
  /\ UNCHANGED <<mimd_kobj, sched_assi_kobj, exited>>

\* Mutant: a kobject of that name is taken over.
MimdKobjShared(ok) ==
  /\ pc = "mimd_kobj"
  /\ mimd_kobj' = ok
  /\ names' = IF ok THEN names \cup {"mimd"} ELSE names
  /\ pc' = IF ok THEN "mimd_group" ELSE "err_mimd"
  /\ UNCHANGED <<mimd_dir, sched_assi_kobj, exited>>

MimdKobj(ok) ==
  /\ pc = "mimd_kobj"
  /\ mimd_kobj' = CanCreate("mimd", ok)
  /\ names' = IF mimd_kobj' THEN names \cup {"mimd"} ELSE names
  /\ pc' = IF mimd_kobj' THEN "mimd_group" ELSE "err_mimd"
  /\ UNCHANGED <<mimd_dir, sched_assi_kobj, exited>>

\* A failure is warned of and returned: mimd_init has failed, the kobject and
\* the directory stay.
MimdGroup(ok) ==
  /\ pc = "mimd_group"
  /\ names' = IF ok THEN names \cup {"mimd_group"} ELSE names
  /\ pc' = IF ok THEN "assi_kobj" ELSE "err_mimd"
  /\ UNCHANGED <<ptrVars, exited>>

SchedAssiKobj(ok) ==
  /\ pc = "assi_kobj"
  /\ sched_assi_kobj' = CanCreate("perf_helper", ok)
  /\ names' = IF sched_assi_kobj' THEN names \cup {"perf_helper"} ELSE names
  /\ pc' = IF sched_assi_kobj' THEN "assi_group" ELSE "err_sched_assi"
  /\ UNCHANGED <<mimd_dir, mimd_kobj, exited>>

SchedAssiGroup(ok) ==
  /\ pc = "assi_group"
  /\ names' = IF ok THEN names \cup {"sched_assi_group"} ELSE names
  /\ pc' = IF ok THEN "live" ELSE "err_sched_assi"
  /\ UNCHANGED <<ptrVars, exited>>

-----------------------------------------------------------------------------
\* sched_assi_exit, the first step of perf_helper_exit.
SchedAssiExit ==
  /\ pc = "live"
  /\ sched_assi_kobj' = FALSE
  /\ names' = IF sched_assi_kobj THEN names \ {"sched_assi_group", "perf_helper"}
              ELSE names
  /\ exited' = TRUE
  /\ pc' = "err_sched_assi"
  /\ UNCHANGED <<mimd_dir, mimd_kobj>>

\* Mutant: only a directory this load has created is removed.
MimdExitOwn ==
  /\ pc = "err_sched_assi"
  /\ mimd_kobj' = FALSE
  /\ names' = (IF mimd_kobj THEN names \ {"mimd_group", "mimd"} ELSE names) \
              (IF mimd_dir THEN Subtree("proc_mimd") ELSE {})
  /\ mimd_dir' = FALSE
  /\ pc' = "err_mimd"
  /\ UNCHANGED <<sched_assi_kobj, exited>>

\* mimd_exit, on exit and at the label err_sched_assi.  The directory is
\* removed by its name, whichever load has created it.
MimdExit ==
  /\ pc = "err_sched_assi"
  /\ mimd_kobj' = FALSE
  /\ names' = (IF mimd_kobj THEN names \ {"mimd_group", "mimd"} ELSE names) \
              Subtree("proc_mimd")
  /\ mimd_dir' = FALSE
  /\ pc' = "err_mimd"
  /\ UNCHANGED <<sched_assi_kobj, exited>>

\* Mutant: the files are left in the directory.
PerflockExitDir ==
  /\ pc = "err_mimd"
  /\ names' = names \ {"proc_perflock"}
  /\ pc' = "out"
  /\ mimd_dir' = FALSE /\ mimd_kobj' = FALSE /\ sched_assi_kobj' = FALSE
  /\ UNCHANGED exited

\* perflock_exit, on exit and at the label err_mimd.  The module's memory is
\* gone then, its pointers with it.
PerflockExit ==
  /\ pc = "err_mimd"
  /\ names' = names \ Subtree("proc_perflock")
  /\ pc' = "out"
  /\ mimd_dir' = FALSE /\ mimd_kobj' = FALSE /\ sched_assi_kobj' = FALSE
  /\ UNCHANGED exited

-----------------------------------------------------------------------------
Next ==
  \/ \E ok \in BOOLEAN :
       \/ MimdKobj(ok) \/ MimdGroup(ok) \/ SchedAssiKobj(ok) \/ SchedAssiGroup(ok)
       \/ \E got \in SUBSET PerflockFiles : PerflockInit(ok, got)
       \/ \E got \in SUBSET MimdFiles : MimdDir(ok, got)
  \/ SchedAssiExit \/ MimdExit \/ PerflockExit

Spec == Init /\ [][Next]_vars

-----------------------------------------------------------------------------
\* The types of the variables; a file or group exists only inside its parent.
TypeOK ==
  /\ pc \in {"out", "mimd_dir", "mimd_kobj", "mimd_group", "assi_kobj", "assi_group",
             "live", "err_sched_assi", "err_mimd"}
  /\ {mimd_dir, mimd_kobj, sched_assi_kobj, exited} \subseteq BOOLEAN
  /\ names \cap PerflockFiles # {} => "proc_perflock" \in names
  /\ names \cap MimdFiles # {} => "proc_mimd" \in names
  /\ "mimd_group" \in names => "mimd" \in names
  /\ "sched_assi_group" \in names => "perf_helper" \in names

(***************************************************************************)
(* When the module that was loaded is removed, nothing of it is left in    *)
(* /proc or /sys, nor of an earlier load that failed half way.  A load     *)
(* that fails leaves at most bare kobjects and the mimd directory of /proc:*)
(* never anything of perflock and never a group of attributes.             *)
(***************************************************************************)
LeavesBehind ==
  pc = "out" =>
    names \cap Objects \subseteq
      IF exited THEN {} ELSE {"proc_mimd", "mimd", "perf_helper"} \cup MimdFiles

(***************************************************************************)
(* A kobject left behind blocks the module for good: its name stays taken, *)
(* and no later perf_helper_init gets past it.                             *)
(***************************************************************************)
LeftoverBlocksLoad ==
  [](pc = "out" /\ names \cap {"mimd", "perf_helper"} # {} => [](pc # "live"))
=============================================================================
