---------------------------- MODULE KernelNames ----------------------------
(***************************************************************************)
(* perf_helper and hwid load and unload side by side: both put kobjects    *)
(* under kernel_kobj, where a name that is taken makes a load fail.        *)
(***************************************************************************)
EXTENDS PerfHelperLoad

CONSTANT MaxLoads  \* bound: how often hwid's kobject is created

ASSUME KernelAssumption == MaxLoads \in Nat

VARIABLES hpc, hwid_kobj, showing, leaked

H == INSTANCE Hwid

bothVars == <<vars, hpc, hwid_kobj, showing, leaked>>

BothInit == Init /\ H!HwidInit

BothNext ==
  \/ Next /\ UNCHANGED <<hpc, hwid_kobj, showing, leaked>>
  \/ H!HwidNext /\ UNCHANGED <<pc, ptrVars, exited>>

BothSpec == BothInit /\ [][BothNext]_bothVars

\* See Hwid.
HwidLeavesOnlyMemory == H!HwidLeavesOnlyMemory
=============================================================================
