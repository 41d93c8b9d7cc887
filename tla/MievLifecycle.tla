--------------------------- MODULE MievLifecycle ---------------------------
(***************************************************************************)
(* Loading and unloading of miev.c against files opened on its device.     *)
(* miev_init_module acquires seven resources and a failure releases the    *)
(* ones it has in reverse order; miev_cleanup_module releases all of them  *)
(* in that same order.  The character device can be opened as soon as      *)
(* cdev_add is done, before the kfifo exists and before loading succeeds.  *)
(***************************************************************************)
EXTENDS Naturals, Sequences, FiniteSets

CONSTANT Files   \* the files processes may open on /dev/miev

ASSUME FilesAssumption == IsFiniteSet(Files)

VARIABLES
  n,      \* how many resources are held
  phase,  \* "out", "loading", "failing", "live" or "going"
  file,   \* "closed", "opening", "open", "busy" (in read, write or poll),
          \* "closing", or "orphan": its device is gone
  refs    \* the module's reference count

vars == <<n, phase, file, refs>>

\* The resources in the order miev_init_module acquires them.
Order == <<"dev", "region", "cdev", "fifo", "class", "device", "workqueue">>

Held == {Order[i] : i \in 1 .. n}
OpenFiles == {f \in Files : file[f] \in {"opening", "open", "busy", "closing"}}

Init ==
  /\ n = 0 /\ phase = "out" /\ refs = 0
  /\ file = [f \in Files |-> "closed"]

-----------------------------------------------------------------------------
\* One step of miev_init_module; a resource that cannot be had starts the
\* unwinding at the label that releases the one before it.
Acquire ==
  /\ phase \in {"out", "loading"}
  /\ n < Len(Order)
  /\ n' = n + 1
  /\ phase' = IF n' = Len(Order) THEN "live" ELSE "loading"
  /\ UNCHANGED <<file, refs>>

\* Mutant: the label is one too low.
FailShort ==
  /\ phase = "loading"
  /\ phase' = "failing"
  /\ n' = n - 1
  /\ UNCHANGED <<file, refs>>

Fail ==
  /\ phase = "loading"
  /\ phase' = "failing"
  /\ UNCHANGED <<n, file, refs>>

\* One step of miev_cleanup_module or of the error labels.  A load that fails
\* does not look at the reference count: the memory goes, files or no files.
Release ==
  /\ phase \in {"failing", "going"}
  /\ n > 0
  /\ n' = n - 1
  /\ phase' = IF n' = 0 THEN "out" ELSE phase
  /\ file' = [f \in Files |-> IF n' = 0 /\ f \in OpenFiles THEN "orphan" ELSE file[f]]
  /\ refs' = IF n' = 0 THEN 0 ELSE refs

\* delete_module refuses a module that is referenced.
BeginExit ==
  /\ phase = "live"
  /\ refs = 0
  /\ phase' = "going"
  /\ UNCHANGED <<n, file, refs>>

-----------------------------------------------------------------------------
\* Mutant: neither the cdev nor the file operations have an owner.
OpenBeginUnowned(f) ==
  /\ file[f] = "closed"
  /\ "cdev" \in Held
  /\ phase # "going"
  /\ file' = [file EXCEPT ![f] = "opening"]
  /\ UNCHANGED <<n, phase, refs>>

\* chrdev_open takes a reference for the owner of the cdev and one for the
\* owner of the file operations, both this module; it fails once it is going.
OpenBegin(f) ==
  /\ file[f] = "closed"
  /\ "cdev" \in Held
  /\ phase # "going"
  /\ file' = [file EXCEPT ![f] = "opening"]
  /\ refs' = refs + 2
  /\ UNCHANGED <<n, phase>>

\* miev_open takes a third.
OpenEnd(f) ==
  /\ file[f] = "opening"
  /\ file' = [file EXCEPT ![f] = "open"]
  /\ refs' = refs + 1
  /\ UNCHANGED <<n, phase>>

\* A read, write or poll begins and ends; a read may sleep in between.
Enter(f) ==
  /\ file[f] = "open"
  /\ file' = [file EXCEPT ![f] = "busy"]
  /\ UNCHANGED <<n, phase, refs>>

Leave(f) ==
  /\ file[f] = "busy"
  /\ file' = [file EXCEPT ![f] = "open"]
  /\ UNCHANGED <<n, phase, refs>>

\* miev_release gives its reference back while the module's code still runs.
CloseBegin(f) ==
  /\ file[f] = "open"
  /\ file' = [file EXCEPT ![f] = "closing"]
  /\ refs' = refs - 1
  /\ UNCHANGED <<n, phase>>

\* After it has returned, the kernel gives back the owners' two.
CloseEnd(f) ==
  /\ file[f] = "closing"
  /\ file' = [file EXCEPT ![f] = "closed"]
  /\ refs' = refs - 2
  /\ UNCHANGED <<n, phase>>

-----------------------------------------------------------------------------
Next ==
  \/ Acquire \/ Fail \/ Release \/ BeginExit
  \/ \E f \in Files : \/ OpenBegin(f) \/ OpenEnd(f) \/ Enter(f) \/ Leave(f)
                      \/ CloseBegin(f) \/ CloseEnd(f)

Spec == Init /\ [][Next]_vars

-----------------------------------------------------------------------------
\* The types of the variables.
TypeOK ==
  /\ n \in 0 .. Len(Order)
  /\ phase \in {"out", "loading", "failing", "live", "going"}
  /\ phase = "out" <=> n = 0
  /\ file \in [Files -> {"closed", "opening", "open", "busy", "closing", "orphan"}]
  /\ refs \in 0 .. 3 * Cardinality(Files)

(***************************************************************************)
(* Once the module is loaded it can be removed exactly when no file is     *)
(* open, being opened or being closed, whatever of the three references of *)
(* each has been taken or given back; as long as one is, the device        *)
(* structure, the cdev and the kfifo are there.  Cleanup frees the kfifo   *)
(* before it deletes the cdev, and miev_release drops its reference from   *)
(* inside the module: only the owners' references make both safe.          *)
(***************************************************************************)
PinnedOnceLive ==
  phase \in {"live", "going"} =>
    /\ refs = 0 <=> OpenFiles = {}
    /\ OpenFiles # {} => {"dev", "cdev", "fifo"} \subseteq Held

(***************************************************************************)
(* A file loses its device only in a load that failed after cdev_add.      *)
(***************************************************************************)
OrphansOnlyByFailedLoad ==
  [][\A f \in Files : file'[f] = "orphan" /\ file[f] # "orphan" => phase = "failing"]_vars
=============================================================================
