------------------------- MODULE KernelNamesProofs -------------------------
(***************************************************************************)
(* Proofs about KernelNames: perf_helper and hwid, loading and unloading   *)
(* side by side any number of times.                                       *)
(***************************************************************************)
EXTENDS KernelNames, TLAPS

\* The kobjects this load holds exist, and it holds what it has got past.
Holding ==
  /\ mimd_kobj => "mimd" \in names
  /\ sched_assi_kobj => "perf_helper" \in names
  /\ pc \in {"mimd_group", "assi_kobj", "assi_group", "live", "err_sched_assi"} =>
       mimd_kobj
  /\ pc \in {"assi_group", "live"} => sched_assi_kobj
  /\ exited => pc \in {"err_sched_assi", "err_mimd", "out"}

\* What exists at most, by how far loading or unloading is.
Bounded ==
  /\ pc = "out" => names \cap ({"proc_perflock"} \cup PerflockFiles) = {}
  /\ "mimd_group" \in names => pc \in {"assi_kobj", "assi_group", "live", "err_sched_assi"}
  /\ "sched_assi_group" \in names => pc = "live"
  /\ exited => "perf_helper" \notin names
  /\ exited /\ pc \in {"err_mimd", "out"} =>
       names \cap ({"mimd", "proc_mimd"} \cup MimdFiles) = {}

\* hwid: the kobject is there from its creation to kobject_del, the attributes
\* within that time, a handler only while the attributes are there.
HwidHolding ==
  /\ hpc \in {"out", "group", "adding", "live", "del"}
  /\ {hwid_kobj, showing} \subseteq BOOLEAN
  /\ hwid_kobj <=> hpc # "out"
  /\ hwid_kobj <=> "hwid" \in names
  /\ "hwid_group" \in names => hpc \in {"adding", "live"}
  /\ showing => "hwid_group" \in names

\* The inductive invariant.
IInv == TypeOK /\ Holding /\ Bounded /\ HwidHolding

\* A kobject nobody holds is in the way of the load that is under way.
Blocked ==
  \/ /\ "mimd" \in names
     /\ pc \in {"out", "mimd_dir", "mimd_kobj", "err_mimd"}
  \/ /\ "perf_helper" \in names
     /\ pc \in {"out", "mimd_dir", "mimd_kobj", "mimd_group", "assi_kobj",
                "err_sched_assi", "err_mimd"}

-----------------------------------------------------------------------------
\* Nothing exists before the first loads.
LEMMA InitInvariant == BothInit => IInv
<1> SUFFICES ASSUME BothInit PROVE IInv
  OBVIOUS
<1>1. TypeOK
  BY DEF BothInit, Init, TypeOK
<1>2. Holding /\ Bounded
  BY DEF BothInit, Init, Holding, Bounded
<1>3. HwidHolding
  BY DEF BothInit, Init, H!HwidInit, HwidHolding
<1>4. QED
  BY <1>1, <1>2, <1>3 DEF IInv

\* A step of perf_helper keeps the invariant.
LEMMA PerfHelperInvariant ==
  ASSUME IInv, Next, UNCHANGED <<hpc, hwid_kobj, showing, leaked>>
  PROVE  IInv'
<1> USE DEF IInv, ptrVars, CanCreate, Subtree, PerflockFiles, MimdFiles
<1>1. ASSUME NEW ok \in BOOLEAN, MimdKobj(ok) PROVE IInv'
  <2>1. TypeOK'
    BY <1>1 DEF MimdKobj, TypeOK, Holding, Bounded, HwidHolding
  <2>2. Holding'
    BY <1>1 DEF MimdKobj, TypeOK, Holding, Bounded, HwidHolding
  <2>3. Bounded'
    BY <1>1 DEF MimdKobj, TypeOK, Holding, Bounded, HwidHolding
  <2>4. HwidHolding'
    BY <1>1 DEF MimdKobj, TypeOK, Holding, Bounded, HwidHolding
  <2>5. QED
    BY <2>1, <2>2, <2>3, <2>4
<1>2. ASSUME NEW ok \in BOOLEAN, MimdGroup(ok) PROVE IInv'
  <2>1. TypeOK'
    BY <1>2 DEF MimdGroup, TypeOK, Holding, Bounded, HwidHolding
  <2>2. Holding'
    BY <1>2 DEF MimdGroup, TypeOK, Holding, Bounded, HwidHolding
  <2>3. Bounded'
    BY <1>2 DEF MimdGroup, TypeOK, Holding, Bounded, HwidHolding
  <2>4. HwidHolding'
    BY <1>2 DEF MimdGroup, TypeOK, Holding, Bounded, HwidHolding
  <2>5. QED
    BY <2>1, <2>2, <2>3, <2>4
<1>3. ASSUME NEW ok \in BOOLEAN, SchedAssiKobj(ok) PROVE IInv'
  <2>1. TypeOK'
    BY <1>3 DEF SchedAssiKobj, TypeOK, Holding, Bounded, HwidHolding
  <2>2. Holding'
    BY <1>3 DEF SchedAssiKobj, TypeOK, Holding, Bounded, HwidHolding
  <2>3. Bounded'
    BY <1>3 DEF SchedAssiKobj, TypeOK, Holding, Bounded, HwidHolding
  <2>4. HwidHolding'
    BY <1>3 DEF SchedAssiKobj, TypeOK, Holding, Bounded, HwidHolding
  <2>5. QED
    BY <2>1, <2>2, <2>3, <2>4
<1>4. ASSUME NEW ok \in BOOLEAN, SchedAssiGroup(ok) PROVE IInv'
  <2>1. TypeOK'
    BY <1>4 DEF SchedAssiGroup, TypeOK, Holding, Bounded, HwidHolding
  <2>2. Holding'
    BY <1>4 DEF SchedAssiGroup, TypeOK, Holding, Bounded, HwidHolding
  <2>3. Bounded'
    BY <1>4 DEF SchedAssiGroup, TypeOK, Holding, Bounded, HwidHolding
  <2>4. HwidHolding'
    BY <1>4 DEF SchedAssiGroup, TypeOK, Holding, Bounded, HwidHolding
  <2>5. QED
    BY <2>1, <2>2, <2>3, <2>4
<1>5. ASSUME NEW ok \in BOOLEAN, NEW got \in SUBSET PerflockFiles, PerflockInit(ok, got)
      PROVE  IInv'
  <2>1. TypeOK'
    <3>1. \A x \in got : x \notin MimdFiles \cup {"mimd_group", "sched_assi_group"}
      OBVIOUS
    <3>2. /\ names' \cap MimdFiles = names \cap MimdFiles
          /\ names \subseteq names'
          /\ \A x \in {"mimd_group", "sched_assi_group"} : x \in names' => x \in names
      BY <1>5, <3>1 DEF PerflockInit
    <3>3. names' = names \/ "proc_perflock" \in names'
      BY <1>5 DEF PerflockInit
    <3>4. /\ pc' \in {"out", "mimd_dir"} /\ exited' = FALSE
          /\ UNCHANGED <<mimd_dir, mimd_kobj, sched_assi_kobj>>
      BY <1>5 DEF PerflockInit
    <3> HIDE DEF PerflockFiles, MimdFiles
    <3>5. QED
      BY <3>2, <3>3, <3>4 DEF TypeOK
  <2>2. Holding'
    BY <1>5 DEF PerflockInit, TypeOK, Holding, Bounded, HwidHolding
  <2>3. Bounded'
    BY <1>5 DEF PerflockInit, TypeOK, Holding, Bounded, HwidHolding
  <2>4. HwidHolding'
    BY <1>5 DEF PerflockInit, TypeOK, Holding, Bounded, HwidHolding
  <2>5. QED
    BY <2>1, <2>2, <2>3, <2>4
<1>6. ASSUME NEW ok \in BOOLEAN, NEW got \in SUBSET MimdFiles, MimdDir(ok, got)
      PROVE  IInv'
  <2>1. TypeOK'
    BY <1>6 DEF MimdDir, TypeOK, Holding, Bounded, HwidHolding
  <2>2. Holding'
    BY <1>6 DEF MimdDir, TypeOK, Holding, Bounded, HwidHolding
  <2>3. Bounded'
    BY <1>6 DEF MimdDir, TypeOK, Holding, Bounded, HwidHolding
  <2>4. HwidHolding'
    BY <1>6 DEF MimdDir, TypeOK, Holding, Bounded, HwidHolding
  <2>5. QED
    BY <2>1, <2>2, <2>3, <2>4
<1>7. CASE SchedAssiExit
  <2>1. TypeOK'
    BY <1>7 DEF SchedAssiExit, TypeOK, Holding, Bounded, HwidHolding
  <2>2. Holding'
    BY <1>7 DEF SchedAssiExit, TypeOK, Holding, Bounded, HwidHolding
  <2>3. Bounded'
    BY <1>7 DEF SchedAssiExit, TypeOK, Holding, Bounded, HwidHolding
  <2>4. HwidHolding'
    BY <1>7 DEF SchedAssiExit, TypeOK, Holding, Bounded, HwidHolding
  <2>5. QED
    BY <2>1, <2>2, <2>3, <2>4
<1>8. CASE MimdExit
  <2>1. TypeOK'
    BY <1>8 DEF MimdExit, TypeOK, Holding, Bounded, HwidHolding
  <2>2. Holding'
    BY <1>8 DEF MimdExit, TypeOK, Holding, Bounded, HwidHolding
  <2>3. Bounded'
    BY <1>8 DEF MimdExit, TypeOK, Holding, Bounded, HwidHolding
  <2>4. HwidHolding'
    BY <1>8 DEF MimdExit, TypeOK, Holding, Bounded, HwidHolding
  <2>5. QED
    BY <2>1, <2>2, <2>3, <2>4
<1>9. CASE PerflockExit
  <2>1. TypeOK'
    BY <1>9 DEF PerflockExit, TypeOK, Holding, Bounded, HwidHolding
  <2>2. Holding'
    BY <1>9 DEF PerflockExit, TypeOK, Holding, Bounded, HwidHolding
  <2>3. Bounded'
    BY <1>9 DEF PerflockExit, TypeOK, Holding, Bounded, HwidHolding
  <2>4. HwidHolding'
    BY <1>9 DEF PerflockExit, TypeOK, Holding, Bounded, HwidHolding
  <2>5. QED
    BY <2>1, <2>2, <2>3, <2>4
<1>10. QED
  BY <1>1, <1>2, <1>3, <1>4, <1>5, <1>6, <1>7, <1>8, <1>9 DEF Next

\* hwid touches no name of perf_helper.
LEMMA HwidNames ==
  ASSUME H!HwidNext
  PROVE  \A x : x \notin {"hwid", "hwid_group"} => (x \in names' <=> x \in names)
BY DEF H!HwidNext, H!HwidCreate, H!HwidGroup, H!HwidDone, H!HwidFail,
       H!HwidRemoveGroup, H!HwidDel, H!HwidShow

\* A step of hwid keeps the invariant.
LEMMA HwidInvariant ==
  ASSUME IInv, H!HwidNext, UNCHANGED <<pc, ptrVars, exited>>
  PROVE  IInv'
<1> USE DEF IInv
<1>1. UNCHANGED <<mimd_dir, mimd_kobj, sched_assi_kobj>>
  BY DEF ptrVars
<1>2. \A x \in Objects : x \in names' <=> x \in names
  <2>1. \A x \in Objects : x \notin {"hwid", "hwid_group"}
    BY DEF Objects, PerflockFiles, MimdFiles
  <2>2. QED
    BY <2>1, HwidNames
<1>3. \A S : S \subseteq Objects => names' \cap S = names \cap S
  BY <1>2
<1>4. /\ PerflockFiles \subseteq Objects /\ MimdFiles \subseteq Objects
      /\ {"proc_perflock"} \cup PerflockFiles \subseteq Objects
      /\ {"mimd", "proc_mimd"} \cup MimdFiles \subseteq Objects
      /\ {"proc_perflock", "proc_mimd", "mimd_group", "sched_assi_group", "mimd",
          "perf_helper"} \subseteq Objects
  BY DEF Objects
<1>5. TypeOK'
  BY <1>1, <1>2, <1>3, <1>4 DEF TypeOK
<1>6. Holding'
  BY <1>1, <1>2, <1>4 DEF Holding
<1>7. Bounded'
  BY <1>1, <1>2, <1>3, <1>4 DEF Bounded
<1>8. HwidHolding'
  <2>1. ASSUME NEW ok \in BOOLEAN, H!HwidCreate(ok) PROVE HwidHolding'
    BY <2>1 DEF H!HwidCreate, HwidHolding
  <2>2. CASE H!HwidGroup \/ H!HwidDone
    BY <2>2 DEF H!HwidGroup, H!HwidDone, HwidHolding
  <2>3. CASE H!HwidFail
    BY <2>3 DEF H!HwidFail, HwidHolding
  <2>4. CASE H!HwidRemoveGroup
    BY <2>4 DEF H!HwidRemoveGroup, HwidHolding
  <2>5. CASE H!HwidDel
    BY <2>5 DEF H!HwidDel, HwidHolding
  <2>6. CASE H!HwidShow
    BY <2>6 DEF H!HwidShow, HwidHolding
  <2>7. QED
    BY <2>1, <2>2, <2>3, <2>4, <2>5, <2>6 DEF H!HwidNext
<1>9. QED
  BY <1>5, <1>6, <1>7, <1>8

\* The inductive invariant holds throughout.
LEMMA Invariant == BothSpec => []IInv
<1>1. ASSUME IInv, UNCHANGED bothVars PROVE IInv'
  BY <1>1 DEF IInv, TypeOK, Holding, Bounded, HwidHolding, bothVars, vars, ptrVars
<1>2. IInv /\ [BothNext]_bothVars => IInv'
  BY <1>1, PerfHelperInvariant, HwidInvariant DEF BothNext
<1>3. QED
  BY <1>2, InitInvariant, PTL DEF BothSpec

-----------------------------------------------------------------------------
\* Types, and no file or group of attributes outlives its directory or kobject.
THEOREM TypeCorrect == BothSpec => []TypeOK
<1>1. IInv => TypeOK
  BY DEF IInv
<1>2. QED
  BY <1>1, Invariant, PTL

\* perf_helper_exit leaves nothing in /proc and /sys, of its own load or an
\* earlier one; perf_helper_init failing leaves bare kobjects and the mimd
\* directory at most.
THEOREM LeavesLittleBehind == BothSpec => []LeavesBehind
<1>1. ASSUME IInv, pc = "out", NEW x \in names \cap Objects
      PROVE  IF exited THEN FALSE
             ELSE x \in {"proc_mimd", "mimd", "perf_helper"} \cup MimdFiles
  <2>1. /\ names \cap ({"proc_perflock"} \cup PerflockFiles) = {}
        /\ "mimd_group" \notin names /\ "sched_assi_group" \notin names
        /\ exited => /\ "perf_helper" \notin names
                     /\ names \cap ({"mimd", "proc_mimd"} \cup MimdFiles) = {}
    BY <1>1 DEF IInv, Bounded
  <2>2. /\ x \in names
        /\ x \in {"proc_perflock", "proc_mimd", "mimd", "mimd_group", "perf_helper",
                  "sched_assi_group"} \cup PerflockFiles \cup MimdFiles
    BY <1>1 DEF Objects
  <2>3. QED
    BY <2>1, <2>2
<1>2. IInv => LeavesBehind
  BY <1>1 DEF LeavesBehind
<1>3. QED
  BY <1>2, Invariant, PTL

\* hwid_init failing and hwid_exit leave no name and no handler behind.
THEOREM HwidLeavesNoName == BothSpec => []HwidLeavesOnlyMemory
<1>1. IInv => HwidLeavesOnlyMemory
  BY DEF IInv, HwidHolding, HwidLeavesOnlyMemory, H!HwidLeavesOnlyMemory
<1>2. QED
  BY <1>1, Invariant, PTL

\* What is in the way stays in the way: no step of either module removes it.
LEMMA BlockedStays == Blocked /\ [BothNext]_bothVars => Blocked'
<1> SUFFICES ASSUME Blocked, [BothNext]_bothVars PROVE Blocked'
  OBVIOUS
<1>1. CASE Next
  BY <1>1 DEF Next, Blocked, CanCreate, Subtree, PerflockFiles, MimdFiles, MimdKobj,
     MimdGroup, SchedAssiKobj, SchedAssiGroup, PerflockInit, MimdDir, SchedAssiExit,
     MimdExit, PerflockExit
<1>2. CASE H!HwidNext /\ UNCHANGED pc
  BY <1>2, HwidNames DEF Blocked
<1>3. CASE UNCHANGED bothVars
  BY <1>3 DEF Blocked, bothVars, vars
<1>4. QED
  BY <1>1, <1>2, <1>3 DEF BothNext

\* A kobject left behind blocks perf_helper for good: no later
\* perf_helper_init succeeds.
THEOREM LeftoverBlocks == BothSpec => LeftoverBlocksLoad
<1>1. pc = "out" /\ names \cap {"mimd", "perf_helper"} # {} => Blocked
  BY DEF Blocked
<1>2. Blocked => pc # "live"
  BY DEF Blocked
<1>3. QED
  BY <1>1, <1>2, BlockedStays, PTL DEF BothSpec, LeftoverBlocksLoad
=============================================================================
