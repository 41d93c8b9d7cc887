# TLA+ models of the onyx vendor modules

This directory holds a formal model of the kernel modules in this repository:
`miev` (exception log device), `mi_thermal_interface`, `perf_helper`,
`miloadtrace` with its governor, `hwid`, and the hook surfaces of
`xiaomi_hooks`, `metis`, `mi_schedule` and `mist`. The modules are written in TLA+, checked on
small instances by TLC, and the safety and action properties of the passing runs
are proved for every value of the constants with TLAPS.

    tlc -config MCMievQueue.cfg MCMievQueue     # a run
    tlapm MievProofs.tla                        # the proofs of a component

`PROJECT.json` is the index: components, runs, the source lines each definition
models, the hazards and the properties that cover them, and, for each property,
a mutated definition under which TLC finds it violated.

## 1. Inventory

| Part | State | Operations | What is hard |
|---|---|---|---|
| miev queue (`miev/miev.c`) | kfifo, mutex, wait queue | kernel and user writes, read, poll | unlocked emptiness tests, wake-ups, records larger than the room |
| miev event builder | `used_size`, `para_cnt`, text | alloc, add_int, add_str, write, destroy | truncation, retry after -ENOSPC |
| miev lifecycle | device, cdev, kfifo, class, node, workqueue, reference count | load and its labels, exit, open, release | files opened while a load fails; kfifo freed before cdev_del |
| thermal cpu_limits (`mi_thermal_interface.c`) | device list, levels, QoS requests, parameters, sensors | load and its failures, request, parameter and sensor changes, unload | values sampled before the mutex; a parameter loaded three times; one device per CPU but one used per policy; rounding, wrap-around |
| thermal notifications | `screen_light`, `screen_state`, `usb_online`, two work items | callbacks, workers, load, unload | no lock at all; order of unloading |
| thermal sysfs attributes | one integer or text each | show, store | torn texts |
| hook surfaces (`xiaomi_hooks.c`, `metis.c`, `mi_schedule.c`, `mist.c`) | one callback pointer per hook, two gates | register, unregister, gate switches | a gate switched between register and unregister |
| miloadtrace load | misc, proc, hooks, governor, reference count | init with unwinding, exit, open, close, callbacks, proc handlers | partial failure; who still runs the module's code when it goes |
| migov | `governor_data`, per-CPU pointers, frequency record | init, start, limits, stop, exit | pointers that are never reset, memory handed out again |
| perf_helper nodes (`perf_helper.c`) | four text buffers, `reclaim_count` | write, show, trigger | one show and one increment take no mutex; faults half way |
| perf_helper load | proc and sysfs objects | init with unwinding, exit | what a failing step leaves behind |
| hwid load (`hwid.c`) | kobject, attribute group | init, exit, show | kobject deleted but never put; shares `/sys/kernel` with perf_helper |
| `migt`, stubs of `metis`, `mi_schedule`, `mist` | parameters, constants | setters, getters, `return 0` | nothing: not modelled |

The parts interact through the hook slots (`miloadtrace` registers into
`xiaomi_hooks`, `metis` and `mi_schedule`), through exported calls
(`cdev_tevent_*` ends in the same queue as user writes; `cpu_limits_set_level`
may be called by any module) and with the kernel: kfifo, mutexes, wait queues,
workqueues, notifier chains, freq_qos, the cpufreq core, procfs and sysfs. The
kernel side is modelled by what these modules rely on.

## 2. Modules and code

**MievQueue** (core). A byte is a record number and a position, so mixing and
tearing can be seen. `write_buf_inner` is `WLock` (take the mutex, see how much
fits), `WCopy` (copy to the places behind the queue's end, `slots`), `WPut` (move
the end over them, unlock, compare with the length) and `WWake`; a place the end
passes and nobody wrote holds a `Stale` byte. `miev_read`
is `ReadCall`, the wait loop `RPrepare`/`RCheck`/`RResume` with `RSignal` for a
signal, then `RLock` and `RTake`, in which the user copy may fault and take
less. `miev_poll` shares the wait steps. `taken` is what readers took out, in
order (the bytes of a faulting copy are taken and reach nobody),
`acked` and `refused` what the writers were told; these are history only.
`MaxWrites` bounds the number of write calls, so that the stream is finite.

**MievStream** is what the device promises, without mutex, wait queue and thread
positions: a write adds its whole record to one stream in one step (`Accept`), or
fills the room there is and is refused (`Cut`); `Return` answers it; readers take
the bytes in order, each once (`Give`). `MievQueue` implements it
(`ImplementsStream == Promise!Spec`) with `given` the length of `taken`, `stored`
the records acknowledged or about to wake the readers, and the other variables
as they are.

**MievSystem** composes `MievQueue` and `MievEvent` by extending both; the record size
they share, `MaxEvent`, is declared in `MievSizes`. One writer is
a driver that builds an event (`Build`), sends it (`Send`: the builder's `Write`
and the queue's `WriteCall` in one step, the length being `used_size`) and sends
the same event again as long as it is refused, or gives it up (`Drop`).

**MievEvent**. The text of an event is the list of its fragments, each with its
full and its stored length. `Stored` is `scnprintf`: at most one byte less than
the room, and it returns what it stored. `IntegerSize` is `get_integer_size`
with its loop (`Divisions`), for longs from `-LongMax - 1` to `LongMax` in two's
complement; it is compared with `Printed`, what `%ld` prints, which counts the powers
of ten (`Pow10`) that a number reaches. The function has no caller: the builder's
actions do not use it. `IntegerSizeIsPrinted` is about the function alone; it is
proved (section 5) and no property of a run.

**MievLifecycle**. Resources are acquired in the order of `miev_init_module` and
released in the reverse order, by the error labels and by
`miev_cleanup_module` alike. Files may be opened as soon as
the cdev is there. A file takes three references: `OpenBegin` those of
`cdev.owner` and `fops.owner`, which the kernel takes before it calls `miev_open`,
`OpenEnd` that of `try_module_get` in it. `CloseBegin` gives back one
(`miev_release`), `CloseEnd` the kernel's two.

**CpuLimits**. `Request` is everything before `cpufreq_list_lock` (the `enable`
test, temperature and floor), `Move` everything under it. `cpu_limits_max_step`
is named three times there and may be written meanwhile: `Apply` sees one value,
`ApplyRaced` two, changing before or after the comparison (bound: one write falls
into a move). Tables, floor, step
limit and the fallback to the deepest level are operators named after the idea;
unsigned sums are taken modulo `UintMax + 1`, and `Signed` is the `(int)` cast under
which `cpu_limits_hot_temp` and `cpu_limits_crit_temp` are compared. A request that
is not added holds `NotAdded`. `LoadStart`, `ProbeCpu`,
`ProbeEnd`, `NodesDone`, `LoadFail` and `Unload` are load and exit; requests come
as soon as the nodes are there, before the load has succeeded. Parameters and
sensors change at any time; a sensor's text parsed while it is stored is one more
value in `Readings`.

**ThermalNotify**. The two callbacks are two steps each (store, queue), the
workers one step per access of shared data; load and exit follow the order of
`mi_thermal_interface_init` and `_exit`. Cancelling waits for the worker;
destroying the workqueue drains it. That `panel_event_notifier_unregister` returns
only when no panel callback runs is an assumption on the panel driver.

**HookSurface, Miloadtrace**. All slots of the four surfaces, grouped by the
store macro behind them: `WaltStored` clears the slot when the gate is closed,
`MetisStored` leaves it alone, `PlainStored` has no gate. `Miloadtrace` extends
it with the module's load and exit, hook by hook, next to another client, and with
those who run the module's code: the scheduler in a callback
(`CallBegin`/`CallEnd`, through the WALT slots in `Called`; the metis slots are
static pointers that this repository only stores to), readers and writers of the proc files (`ProcCall`), files
open on the misc device (`Open`/`Close`, which pin the module through
`fops.owner`) and policies under its governor (`Govern`/`Ungovern`). `FreeModule`
is the module loader: it waits for code that runs with preemption disabled, which
is assumed of it and not checked, and after a failed load it does not ask for the
reference count.

**Migov**. The cpufreq core's calling rules are the guards: init, start, stop and
exit alternate for each policy, and CPUs come and go only while the policy is
stopped. `Memory` is a set of addresses that are reused.

**PerfHelperNodes**. Copies and prints go byte by byte, a fault may end a copy
anywhere, `strim` cuts trailing blanks; an increment of `reclaim_count` is a load
and a store. The show that takes no mutex (`global_reclaim_show`) is an action, byte
by byte; a show that holds it excludes the writers, so it is no action, and
`LockedShowIsOneText` says what it would print.

**PerfHelperLoad, Hwid, KernelNames**. The objects that exist under `/proc` and
`/sys/kernel`, and the static pointers of the current load. `Hwid` is load, exit
and show of `hwid.c`; `leaked` counts kobjects deleted and never put.
`KernelNames` runs both modules on one set of names.

The `MC*` modules only give values and symmetry sets for TLC, the `*Proofs`
modules only add inductive invariants, lemmas and theorems to the module they
extend.

## 3. Runs

| Run | Shows | Instance |
|---|---|---|
| `miev_queue` | mutual exclusion with stable lengths, no lost wake-up, records never mixed although copying and moving the end are two steps, torn only when refused; the queue implements the stream | 2 writers, 2 readers, queue of 2 bytes, records of 1-2 bytes, 3 writes |
| `miev_system` | an event is delivered once by retrying but for one case; the builder keeps the queue's terms; a sole reader never gets 0 bytes; overflow of the buffer is contained, only whole parameters are sent; sleepers wake, writers return | a driver and another writer, 1 reader, queue and buffer of 6 bytes, 3 writes |
| `miev_event_end` (violation) | a record can be sent without its line feed | the builder alone, buffer of 20 bytes, lengths around each limit |
| `miev_lifecycle` | a module with an open file is pinned and without one is not; only a load that fails after `cdev_add` takes the device from an open file | 3 files |
| `cpu_limits` | caps deepen by limited steps, lighten only when asked, can be released unless a load failed, and are released for the whole policy, through whichever of its CPUs | 3 CPUs in 2 clusters, all asked for, 2 callers, an unsorted table and one with a duplicate |
| `cpu_limits_cold` (violation) | a cold battery counts as critically hot | battery at 6 or 30 degrees |
| `cpu_limits_floor` (violation) | a cap can end below the floor | the compiled-in parameters, never written |
| `thermal_notify` | no change is lost while loaded; user space is told in the end; nothing runs after unloading unless a callback came too late | complete (Booleans) |
| `hooks` | a module that is out has no callback left but one safe boot made it leave; unwinding is complete; the code stays while it is run | 9 hooks, 2 clients, 1 file |
| `migov` | governed CPUs see their own policy's memory; nothing leaks or is shared | 3 CPUs, 2 policies, 4 addresses |
| `perf_helper_nodes` | buffers stay terminated, locked shows print one text, increments are lost only to `mimdtrigger` | 2 threads, buffers of 3 and 2 bytes, 2 writes, 1 trigger |
| `perf_helper_load` | what exit and failed loads of perf_helper and hwid leave behind, and that leftovers of perf_helper block every later load of it and none of hwid | complete, but for 2 loads of hwid |

Why the bounds are enough. The queue holds less than two records and the
buffers are shorter than some texts, so full, partial and empty cases all occur;
two of each kind of actor are what the races need; the proofs below remove the
bounds. `miev_system` needs three writes: one of the other writer
(`UserLens`) to fill the queue, a refused try and a repeated one; the event is a
head of 1 byte with its ends, 3 bytes long at the first try and 5 at the second, in
a queue of 6, so that a try is cut inside the text and, the second one, after it.
Heads of 1 and 6 bytes, names of 0 and 2 and texts of 0 and 1 put a parameter, an
end or the head itself on either side of the buffer's limit. In `cpu_limits` the parameters include the compiled-in ones, a low
floor that makes the fallback happen, caps switched off, the largest unsigned
step, and a `hot_temp` above `INT_MAX`; requests are for every CPU (`Asked`), so that
a cap is asked for through one CPU of a cluster and released through the other; the
sensors take a cool, a hot and a critical value. In `hooks` two callbacks of WALT
slots are followed through a call (`Called`); one proc entry may be missing
(`MaybeProc`), one file be open (`MaxFiles`). `MaxLoads` is how often hwid's
kobject is created and lost. `CHECK_DEADLOCK FALSE` is set for `cpu_limits`, where
a removed or failed module does nothing more; every other run checks deadlock.
The type invariants of ThermalNotify, Migov and PerfHelperNodes are proved and
are not listed among the properties of the runs.

Fairness. In `miev_system` a thread that can run runs (weak fairness on the
steps inside a call), and a mutex waiter is not passed over for ever (strong
fairness on taking the mutex: Linux mutexes hand over to a waiter that spun too
long). Calls, retries and signals are not fair. In `thermal_notify` callbacks that
began and queued works make progress; the panel, the charger, loading and
unloading need not.

## 4. What the checks say about the code

Three runs end in a counterexample (`findings` in PROJECT.json):

* `cdev_tevent_write` cannot see that its end was cut (`miev.c:191`):
  `scnprintf` never returns the room or more.
* `mi_thermal_parse_temp` takes a battery below 10 degrees, reported in tenths,
  for up to 99 degrees (`mi_thermal_interface.c:347`).
* The search of `cpu_limits_set_level` takes the first table entry at or below the
  floor (`mi_thermal_interface.c:437`), so a cap may be lower than the percentage that
  line 167 calls its minimum: 90 where 92 is compiled in.

The code departs from its descriptions, or from what one would expect, in other
places too. Where a property is named, the exception is written into it; the
others have no run of their own and are read off the code:

* A request that fits no entry goes to the deepest level past the step limit
  (`StepIsLimited` allows exactly that), though line 187 says "Maximum cooling states
  cpu_limits can increase per update below hot temperature" without exception. A
  huge `cpu_limits_max_step` wraps (`LightensOnlyWhenAsked` allows exactly the wrapped
  sum). A `cpu_limits_hot_temp` above `INT_MAX` is negative: there is no step limit
  then and the hot floor holds.
* A `cpu_limits_max_step` written between the comparison and the assignment makes
  a device go deeper than the request asked for, even below the floor.
* A thermal load that fails after its nodes were there leaves the devices, and a
  cap set meanwhile, with nothing to release it (`CapIsReleasable`).
* While `cpu_limits_enable` is off, releases are dropped as well as caps, so a cap
  stays; and the parameter is compiled in as on, though described as off.
* With `metis_safe_boot` switched on after hooks were registered, unregistering
  them does nothing (`NoHookLeftBehind`).
* The power supply notifier is never unregistered, and the panel notifier only
  after the workqueue is destroyed (`QuietWhenGone` has `late`).
* An event sent again after -ENOSPC is longer by another end. When the queue cuts
  a repeated try within its repeated ends, the reader has the whole event although
  the driver was told -ENOSPC, and gets it again with the next try
  (`DeliveredOnce`).
* A miloadtrace load that fails while a file is open on its misc device goes away
  under the file (`CodeStaysWhileUsed`). A metis slot left behind in safe boot keeps
  the address of the freed code (`NoHookLeftBehind`); nothing in this repository
  calls through it.
* With several readers `miev_read` may return 0 (`SoleReaderFindsData` is about
  one).
* A failed perf_helper load leaves kobjects that block the next one
  (`LeavesBehind`, `LeftoverBlocksLoad`); hwid leaves no name, only the memory of a
  kobject (`HwidLeavesOnlyMemory`).

## 5. Proofs

Each theorem holds for every value of the constants that satisfies the assumptions
of its module; the bounds of the models (`MaxWrites`, `MaxTriggers`, `MaxLoads`,
`MaxFiles`) are arbitrary natural numbers there. Every inductive invariant was
checked by TLC as an invariant of its component's run before it was proved.

| Module | Theorems |
|---|---|
| `MievProofs`, queue | `TypeCorrect`, `CriticalSectionSafe`, `WakeupNeverLost`, `RecordsNeverMixed`, `SoleReaderSafe`, `MutexNeverLeaks`, `TornRecordsRefused`, `StreamImplemented` (refinement) |
| `MievProofs`, events and system | `EventTypeCorrect`, `EventsSentWhole`, `IntegerSizesRight`, `QueueTermsKept` and `SystemImplementsParts` (composition), `SystemSafe`, `EventDeliveredOnce` |
| `MievLifecycleProofs` | `TypeCorrect`, `OpenFilesPinned`, `OrphansByFailedLoad` (action) |
| `ThermalNotifyProofs` | `TypeCorrect`, `ScreenChangeKept`, `UsbChangeKept`, `GoneIsQuiet` |
| `CpuLimitsProofs` | `TypeCorrect`, `CapsReleasable`, `StepsAreLimited`, `LightensOnlyAsked`, `ReleasesUncapPolicy` (the last three are action properties) |
| `MiloadtraceProofs` | `TypeCorrect`, `HooksTakenBack`, `UnwindsCompletely`, `CodeStays` |
| `MigovProofs` | `TypeCorrect`, `GovernedPointersFresh`, `MemoryAccounted` |
| `PerfHelperNodesProofs` | `TypeCorrect`, `ShowsEnd`, `ShowsOneText`, `CountKept` |
| `KernelNamesProofs` | `TypeCorrect`, `LeavesLittleBehind`, `HwidLeavesNoName`, `LeftoverBlocks` (`[](P => []Q)`) |

**The queue** (`QueueAssumption`). The inductive invariant is `IInv == TypeOK /\
CriticalSectionStable /\ NoLostWakeup`. No part is inductive alone. That the
queue does not overflow
needs the room computed under the mutex to be still there when bytes are stored
(`CriticalSectionStable`), which in turn needs the owner to be unique. No lost
wake-up needs the lengths too: a sleeper that is not woken sees an empty queue,
and into an empty queue every record fits, as `MaxEvent <= FifoSize`
(2048 and 131072 in the code); so the write is not refused, and its writer goes
on to wake. With `FifoSize` below `MaxEvent` the property would be false, which
is why the assumption is there. `RecordsNeverMixed` rests on the same invariant. A write copies in one step and
moves the queue's end in a later one, over whatever the places hold by then. That
this is its own copy (`PutIsOwn`) needs the mutex: nobody else copies, takes or moves
the end in between. So a write appends a prefix of one record (`PutStream`), and
a read moves bytes from the front of the queue to the end of `taken`, leaving the
stream as it is (`TakeStream`).
`SoleReaderSafe` is proved from the same invariant: only a reader takes bytes.
`MutexNeverLeaks` is the converse of `CriticalSectionStable`: whoever owns the mutex
is in the critical section, so that its next one or two steps release it. It is the part of
`WriterReturns` that needs no fairness.

For the refinement and for torn records one more fact is needed, `RecordsOwned`:
two writers inside `write_buf_inner` never have the same record, and such a record
is not answered yet. `StepRefines` then maps every step to a step of `MievStream`
or to a stutter: the store under the mutex is where a write takes effect, the take
where a read does. `TornOnlyWhenRefused` is not inductive: it speaks of answered
writes, and the answer comes a step after the store. `RecordsWhole` says the same
of every record stored.

**Events** (`EventAssumption`: lengths are natural numbers, and a long has at most
`MaxDigits` digits, as 2^63 has 19). `SentIsWhole`
follows from `CutOnlyAtEnd`: a fragment that was cut is the last one
and the buffer is full, and to a full buffer `scnprintf` adds nothing, so no end
follows it. `ExtendStores` is the lemma on `scnprintf` and its check.

`IntegerSizesRight` is about every long and no behaviour. It is an induction over data, which the provers cannot do with the
library's induction theorems. It is done with functions in place of operators:
`Recursion(b, c, h, p)` is a recursion that starts with `c` below `b` and takes `n`
from an earlier `p[n]` by `h`; `RecursionExists` shows that a function follows it
everywhere, by least counterexamples (`LeastNat`). `Pow10Def` and `DivisionsDef` are
its two instances and give the defining equations; from them, `DivisionsCount` says
that the loop divides once for every power of ten a number reaches.

**The composition** (`SystemAssumption`). `ExtendStores` also gives
`QueueTermsKept`: a record is longer than the event before the try and shorter than
`MaxEvent`; hence every theorem on the queue holds of the system
(`SystemImplementsParts`, `SystemSafe`). `DeliveredOnce` needs where all bytes of a
record are (`RecordsPlaced`: a stored record is in the stream byte for byte, a
refused one lacks its last byte, one not yet stored has none) and the order of the
driver's tries (`TriesInOrder`: each is longer than the one before; none but the
last was taken or is on its way).

**MievLifecycle** (`FilesAssumption`: files are finitely many, so that they can be
counted). `PinnedOnceLive` says when a loaded module can be removed: the count is 0 exactly
when no file is open. `Counted` is the count itself, two references for every file
the kernel has begun to open and one more for those `miev_open` has returned for and
`miev_release` has not, also while loading, when the device can be opened already.

**ThermalNotify**. `ScreenChangeOwed` and `UsbChangeOwed` are not inductive: a
worker may carry a state the panel has left while user space happens to know the
panel's present one, which the worker is about to replace. `StaleRunsAgain` says
that such a worker will run again. `TakenDown` lists what each step of unloading
has ended.

**CpuLimits** (`LimitsAssumption`: tables are non-empty and hold positive
frequencies below `UINT_MAX`, parameters are unsigned). `IInv == Typed /\ Listed /\
Held`: the list holds the devices of the first CPUs, last one
first; every request holds its device's table entry; and only the device that
requests find for a policy (`Leads`) leaves level 0, from which
`CapIsReleasable` and `ReleaseUncapsPolicy` follow. That the table is sorted, so
that a deeper level never allows more, is an induction over its index; it is
carried out by taking the least index at which the claim fails (`LeastNat`).
`StepsAreLimited` holds for every unsigned `hot_temp`, as the temperature is compared
with its `Signed` value.

**Miloadtrace** (`MiloadAssumption`). `Progress` ties what is registered to how far
init or exit is, `Placed` the module's callbacks to the slots it has registered or
safe boot made it leave, `Pinned` the reference count to files and policy. No slot belongs to two surfaces
(`SurfacesDisjoint`), so only metis slots can be left, and those are not in `Called`.

**Migov** (`GovAssumption`). The three invariants need each other: a pointer is
valid because its policy owns the memory, and what one policy frees is no
other's because no two own the same.

**PerfHelperNodes** (`NodesAssumption`). `BuffInv` has the mutex (`Mutex`), the NUL in
every last byte, the bytes a writer has copied so far (`Copied`), and one text in every
buffer nobody is copying to (`WholeTexts`); `CountInv` what the threads that are
about to store have loaded.

**KernelNames** (`KernelAssumption`). `Holding` and `Bounded` say which objects
exist at least and at most at each step of loading. `LeavesBehind` needed one
fact that is easy to miss: `mimd_kobj` is set already when its group is about to be
added, so that whatever has the group has the kobject. `LeftoverBlocksLoad` is proved from a predicate
that no step leaves (`Blocked`).

Only model-checked:

* `SleeperWakes`, `WriterReturns` and `ScreenEventuallyTold`: liveness under
  fairness is out of the prover's reach.
* The three runs that end in a counterexample.

## 6. Not modelled

* `migt`, and the functions of `metis`, `mi_schedule` and `mist` that return a
  constant or store one parameter: they keep no state that anything but a getter
  reads, nothing can go wrong between two steps of theirs, and a model would
  repeat their return values. They are most of the lines of these files: `metis.c`
  alone has some 300 functions whose body is `return 0`. The hook registrations of
  `migt` are commented out in the source.
* What the proc and misc handlers of miloadtrace parse, log and print
  (`update_frame_fps` is one word); the plain sysfs values of perf_helper and of
  the thermal module; the values of hwid, which are read-only parameters.
* Memory ordering weaker than the order of the steps. The accesses in question
  are single words, or followed by a lock or a barrier.
* Logging, text formats and error codes beyond success and failure.

## 7. Plan

1. Done: all modules of section 2, the runs of section 3, and the theorems of
   section 5: every safety and action property of a passing run, the refinement
   of MievStream and the composition MievSystem.
2. Left: shorter proofs where leaves repeat each other (the lemmas on sequences of
   bytes in `MievProofs`, the frame lemmas of `PerfHelperNodesProofs`); the
   type invariants' theorems for HookSurface alone, which Miloadtrace covers for
   the module that uses it.
