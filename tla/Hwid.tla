-------------------------------- MODULE Hwid --------------------------------
(***************************************************************************)
(* Loading and unloading of hwid.c: the kobject /sys/kernel/hwid and its   *)
(* attributes.  The failing load and exit take the kobject out of sysfs    *)
(* with kobject_del and forget it without kobject_put, so that its memory  *)
(* is never freed.  The attributes only print read-only parameters.        *)
(***************************************************************************)
EXTENDS Naturals, FiniteSets

CONSTANT MaxLoads  \* bound: how often the kobject is created

VARIABLES
  names,     \* the objects that exist in /proc and /sys/kernel
  hpc,       \* how far loading or unloading is
  hwid_kobj, \* this load's pointer: TRUE when not NULL
  showing,   \* a show handler runs
  leaked     \* kobjects no longer in sysfs that were never put

hwidVars == <<names, hpc, hwid_kobj, showing, leaked>>

HwidInit ==
  /\ hpc = "out" /\ hwid_kobj = FALSE /\ showing = FALSE /\ leaked = 0

-----------------------------------------------------------------------------
\* kobject_create_and_add fails for lack of memory and when the name is taken.
HwidCreate(ok) ==
  /\ hpc = "out" /\ leaked < MaxLoads
  /\ hwid_kobj' = (ok /\ "hwid" \notin names)
  /\ names' = IF hwid_kobj' THEN names \cup {"hwid"} ELSE names
  /\ hpc' = IF hwid_kobj' THEN "group" ELSE "out"
  /\ UNCHANGED <<showing, leaked>>

\* sysfs_create_group makes the attributes one after the other; they can be
\* read at once.
HwidGroup ==
  /\ hpc = "group"
  /\ names' = names \cup {"hwid_group"}
  /\ hpc' = "adding"
  /\ UNCHANGED <<hwid_kobj, showing, leaked>>

\* It succeeds.
HwidDone ==
  /\ hpc = "adding"
  /\ hpc' = "live"
  /\ UNCHANGED <<names, hwid_kobj, showing, leaked>>

\* Mutant: only the attributes are taken back.
HwidFailKeeps ==
  /\ hpc \in {"group", "adding"} /\ ~showing
  /\ names' = names \ {"hwid_group"}
  /\ hwid_kobj' = FALSE /\ leaked' = leaked + 1
  /\ hpc' = "out"
  /\ UNCHANGED showing

\* It fails and takes back what it made, waiting for the handlers; hwid_init
\* then takes the kobject out of sysfs and fails.
HwidFail ==
  /\ hpc \in {"group", "adding"} /\ ~showing
  /\ names' = names \ {"hwid", "hwid_group"}
  /\ hwid_kobj' = FALSE /\ leaked' = leaked + 1
  /\ hpc' = "out"
  /\ UNCHANGED showing

\* hwid_exit: sysfs_remove_group waits for the handlers.
HwidRemoveGroup ==
  /\ hpc = "live" /\ hwid_kobj /\ ~showing
  /\ names' = names \ {"hwid_group"}
  /\ hpc' = "del"
  /\ UNCHANGED <<hwid_kobj, showing, leaked>>

\* kobject_del.
HwidDel ==
  /\ hpc = "del"
  /\ names' = names \ {"hwid"}
  /\ hwid_kobj' = FALSE /\ leaked' = leaked + 1
  /\ hpc' = "out"
  /\ UNCHANGED showing

\* One of the show functions.
HwidShow ==
  /\ IF showing THEN TRUE ELSE "hwid_group" \in names
  /\ showing' = ~showing
  /\ UNCHANGED <<names, hpc, hwid_kobj, leaked>>

HwidNext ==
  \/ \E ok \in BOOLEAN : HwidCreate(ok)
  \/ HwidGroup \/ HwidDone \/ HwidFail \/ HwidRemoveGroup \/ HwidDel \/ HwidShow

-----------------------------------------------------------------------------
(***************************************************************************)
(* A failed load and an exit of hwid leave no name in /sys/kernel and no   *)
(* handler running, so that it can always be loaded again, whatever else   *)
(* is left in /sys/kernel: all that stays is the memory of the kobjects    *)
(* that were taken out and never put.                                      *)
(***************************************************************************)
HwidLeavesOnlyMemory ==
  /\ hpc = "out" => names \cap {"hwid", "hwid_group"} = {} /\ ~showing
  /\ hwid_kobj <=> "hwid" \in names
=============================================================================
