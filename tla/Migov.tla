------------------------------- MODULE Migov -------------------------------
(***************************************************************************)
(* The cpufreq governor "migov" of miloadtrace.c.  The cpufreq core calls  *)
(* its init, start, limits, stop and exit for each policy, one at a time   *)
(* for a policy but for several policies at once, and stops a policy       *)
(* around every change of its online CPUs.  start points the per-CPU data  *)
(* at the policy's structure and nothing ever resets those pointers; the   *)
(* allocator may hand freed memory out again, to another policy too.       *)
(***************************************************************************)
EXTENDS Naturals, FiniteSets

CONSTANTS
  Cpus,
  Policies,
  PolicyOf,  \* the policy each CPU belongs to
  Memory,    \* the addresses kzalloc returns
  Null,
  MaxCpus,   \* MILOAD_MAX_CPUS
  Freqs      \* the current frequencies a policy can be at, 0 included

ASSUME GovAssumption ==
  /\ Cpus \subseteq Nat /\ Freqs \subseteq Nat /\ MaxCpus \in Nat
  /\ PolicyOf \in [Cpus -> Policies]
  /\ Null \notin Memory

VARIABLES
  state,     \* of each policy: "none", "stopped" or "started"
  governor_data,
  tunables,  \* of each migov_policy in use
  heap,      \* the addresses in use
  online,    \* the CPUs in policy->cpus of their policy
  mg_policy, \* per CPU
  mi_maxfreq \* the highest frequency reported for each CPU

memVars == <<governor_data, tunables, heap>>
vars == <<state, memVars, online, mg_policy, mi_maxfreq>>

Recorded == {c \in Cpus : c < MaxCpus}
CpusOf(p) == {c \in online : PolicyOf[c] = p}

Init ==
  /\ state = [p \in Policies |-> "none"]
  /\ governor_data = [p \in Policies |-> Null]
  /\ tunables = [a \in Memory |-> Null]
  /\ heap = {}
  /\ online = Cpus
  /\ mg_policy = [c \in Cpus |-> Null]
  /\ mi_maxfreq = [c \in Recorded |-> 0]

-----------------------------------------------------------------------------
\* cpu_gov_init with both allocations; without memory for one of them it
\* frees the other and changes nothing.
GovInit(p, a, t) ==
  /\ state[p] = "none" /\ CpusOf(p) # {}
  /\ a \notin heap /\ t \notin heap /\ a # t
  /\ heap' = heap \cup {a, t}
  /\ tunables' = [tunables EXCEPT ![a] = t]
  /\ governor_data' = [governor_data EXCEPT ![p] = a]
  /\ state' = [state EXCEPT ![p] = "stopped"]
  /\ UNCHANGED <<online, mg_policy, mi_maxfreq>>

\* Mutant: the tunables are not freed.
GovExitLeaks(p) ==
  /\ state[p] = "stopped"
  /\ heap' = heap \ {governor_data[p]}
  /\ tunables' = [tunables EXCEPT ![governor_data[p]] = Null]
  /\ governor_data' = [governor_data EXCEPT ![p] = Null]
  /\ state' = [state EXCEPT ![p] = "none"]
  /\ UNCHANGED <<online, mg_policy, mi_maxfreq>>

\* cpu_gov_exit.
GovExit(p) ==
  /\ state[p] = "stopped"
  /\ heap' = heap \ {governor_data[p], tunables[governor_data[p]]}
  /\ tunables' = [tunables EXCEPT ![governor_data[p]] = Null]
  /\ governor_data' = [governor_data EXCEPT ![p] = Null]
  /\ state' = [state EXCEPT ![p] = "none"]
  /\ UNCHANGED <<online, mg_policy, mi_maxfreq>>

\* Mutant: a CPU that has a structure keeps it.
GovStartOnce(p) ==
  /\ state[p] = "stopped" /\ CpusOf(p) # {}
  /\ mg_policy' = [c \in Cpus |-> IF c \in CpusOf(p) /\ mg_policy[c] = Null
                                  THEN governor_data[p] ELSE mg_policy[c]]
  /\ state' = [state EXCEPT ![p] = "started"]
  /\ UNCHANGED <<memVars, online, mi_maxfreq>>

\* cpu_gov_start: every CPU of the policy that is online.
GovStart(p) ==
  /\ state[p] = "stopped" /\ CpusOf(p) # {}
  /\ mg_policy' = [c \in Cpus |-> IF c \in CpusOf(p) THEN governor_data[p]
                                  ELSE mg_policy[c]]
  /\ state' = [state EXCEPT ![p] = "started"]
  /\ UNCHANGED <<memVars, online, mi_maxfreq>>

\* cpu_gov_stop waits for RCU readers and leaves the pointers alone.
GovStop(p) ==
  /\ state[p] = "started"
  /\ state' = [state EXCEPT ![p] = "stopped"]
  /\ UNCHANGED <<memVars, online, mg_policy, mi_maxfreq>>

\* cpu_gov_limits and update_freq_record, for policy->cpu, one of the CPUs.
GovLimits(p, cpu, cur) ==
  /\ state[p] = "started" /\ cpu \in CpusOf(p) /\ cur > 0
  /\ mi_maxfreq' = [c \in Recorded |-> IF c = cpu /\ cur > mi_maxfreq[c] THEN cur
                                       ELSE mi_maxfreq[c]]
  /\ UNCHANGED <<state, memVars, online, mg_policy>>

\* mi_maxfreq is a module parameter that a user may write.
WriteRecord(cpu, val) ==
  /\ cpu \in Recorded
  /\ mi_maxfreq' = [mi_maxfreq EXCEPT ![cpu] = val]
  /\ UNCHANGED <<state, memVars, online, mg_policy>>

\* The core takes a CPU on line or off while its policy is stopped.  The last
\* one of a policy goes only when the governor has left it.
Hotplug(c) ==
  LET p == PolicyOf[c] IN
  /\ state[p] # "started"
  /\ online' = IF c \in online THEN online \ {c} ELSE online \cup {c}
  /\ state[p] = "stopped" => \E d \in online' : PolicyOf[d] = p
  /\ UNCHANGED <<state, memVars, mg_policy, mi_maxfreq>>

-----------------------------------------------------------------------------
Next ==
  \/ \E p \in Policies :
       \/ GovExit(p) \/ GovStart(p) \/ GovStop(p)
       \/ \E a, t \in Memory : GovInit(p, a, t)
       \/ \E c \in Cpus, cur \in Freqs : GovLimits(p, c, cur)
  \/ \E c \in Cpus : Hotplug(c) \/ \E val \in Freqs : WriteRecord(c, val)

Spec == Init /\ [][Next]_vars

-----------------------------------------------------------------------------
\* The types of the variables.
TypeOK ==
  /\ state \in [Policies -> {"none", "stopped", "started"}]
  /\ governor_data \in [Policies -> Memory \cup {Null}]
  /\ tunables \in [Memory -> Memory \cup {Null}]
  /\ heap \subseteq Memory /\ online \subseteq Cpus
  /\ mg_policy \in [Cpus -> Memory \cup {Null}]
  /\ mi_maxfreq \in [Recorded -> Freqs \cup {0}]
  /\ \A p \in Policies : state[p] = "none" <=> governor_data[p] = Null

(***************************************************************************)
(* While a policy is started, each of its CPUs points at the structure of  *)
(* its own policy, which is allocated: the stale pointers that stop, exit  *)
(* and hotplug leave behind are never those of a CPU that is governed.     *)
(***************************************************************************)
GovernedSeesOwn ==
  \A p \in Policies : state[p] = "started" =>
    \A c \in CpusOf(p) : mg_policy[c] = governor_data[p] /\ mg_policy[c] \in heap

\* The memory of a policy: its migov_policy and its tunables.
OwnedBy(p) == IF governor_data[p] = Null THEN {}
              ELSE {governor_data[p], tunables[governor_data[p]]}

(***************************************************************************)
(* The memory in use is two structures for each governed policy, no two of *)
(* them shared: nothing leaks over init and exit, nothing is freed twice.  *)
(***************************************************************************)
MemoryIsAccountedFor ==
  /\ heap = UNION {OwnedBy(p) : p \in Policies}
  /\ \A p, q \in Policies : p # q => OwnedBy(p) \cap OwnedBy(q) = {}
=============================================================================
