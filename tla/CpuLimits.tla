----------------------------- MODULE CpuLimits -----------------------------
(***************************************************************************)
(* The cpu_limits path of mi_thermal_interface.c: one cooling device and   *)
(* one FREQ_QOS_MAX request per CPU, made at load; requests "cpuN freq"    *)
(* from the sysfs node (or from other modules), which sample the           *)
(* temperature and the parameters, then take cpufreq_list_lock and move    *)
(* the first device found for that CPU; parameters and sensors that change *)
(* at any time; unloading.                                                 *)
(*                                                                         *)
(* A request samples temperature and floor BEFORE it takes the mutex and   *)
(* reads hot_temp and max_step again under it, so the two parts are two    *)
(* steps, and the requests of several callers interleave.  max_step is     *)
(* named three times under the mutex and written without it: a build may   *)
(* load it each time, so a write can fall between two of the loads.        *)
(***************************************************************************)
EXTENDS Integers, Sequences, FiniteSets

CONSTANTS
  NumCpus,    \* CPUs are 1 .. NumCpus, probed in this order
  PolicyOf,   \* the cpufreq policy of each CPU
  RawTable,   \* the cpufreq table of each policy: its frequencies, as listed
  Callers,    \* threads that may be in cpu_limits_set_level
  Asked,      \* the CPUs requests are for
  Freqs,      \* frequencies asked for; 0 releases the cap
  Readings,   \* for each sensor, the raw values it can report
  Params,     \* values the module parameters can take together
  UintMax,    \* largest unsigned int
  NoReading,  \* no battery, a read error, or text that is no number (INT_MIN)
  Idle        \* a caller outside the function

Cpus == 1 .. NumCpus
Policies == {PolicyOf[c] : c \in Cpus}
Sensors == {"battery", "node", "board"}

\* A frequency request that is not added; an added one may hold 0.
NotAdded == -1

ASSUME LimitsAssumption ==
  /\ NumCpus \in Nat \ {0}
  /\ DOMAIN PolicyOf = Cpus
  /\ \A p \in Policies : RawTable[p] \in Seq(Nat \ {0}) /\ RawTable[p] # <<>>
  /\ \A p \in Policies : \A i \in DOMAIN RawTable[p] : RawTable[p][i] < UintMax
  /\ Asked \subseteq Cpus
  /\ UintMax \in Nat \ {0} /\ Freqs \subseteq 0 .. UintMax
  /\ DOMAIN Readings = Sensors
  /\ Params \subseteq
       [enable : BOOLEAN, floor : 0 .. UintMax, hot_floor : 0 .. UintMax,
        crit_floor : 0 .. UintMax, hot_temp : 0 .. UintMax,
        crit_temp : 0 .. UintMax, step : 0 .. UintMax]

VARIABLES
  phase,    \* where loading and unloading are
  list,     \* cpufreq_dev_list, first device first; a device is its CPU
  level,    \* cpufreq_state of each device
  qos,      \* value of each FREQ_QOS_MAX request, NotAdded before and after
  par,      \* the module parameters
  sensor,   \* what each sensor reports
  job       \* the request each caller is working on

vars == <<phase, list, level, qos, par, sensor, job>>

-----------------------------------------------------------------------------
\* find_next_max: the highest frequency below prev, 0 if there is none.
NextMax(raw, prev) ==
  LET below == {raw[i] : i \in DOMAIN raw} \cap 0 .. prev - 1
  IN  IF below = {} THEN 0 ELSE CHOOSE f \in below : \A g \in below : g <= f

\* The device table: as many entries as the policy lists, in descending order;
\* duplicates leave zeros at its end.
MaxLevel(d) == Len(RawTable[PolicyOf[d]]) - 1
Table ==
  [d \in Cpus |->
     LET raw == RawTable[PolicyOf[d]]
         t[i \in 0 .. MaxLevel(d)] == NextMax(raw, IF i = 0 THEN UintMax ELSE t[i-1])
     IN  [i \in 0 .. MaxLevel(d) |-> t[i]]]

\* mi_thermal_parse_temp guesses the unit from the size: milli-, deci- or
\* whole degrees; DIV_ROUND_CLOSEST on positive values.
ParseTemp(v) ==
  IF v >= 1000 THEN (v + 500) \div 1000
  ELSE IF v >= 100 THEN (v + 5) \div 10 ELSE v

\* mi_thermal_get_device_temp: the highest of the battery and the board text
\* sensors, parsed, and of the plain integers of the sysfs nodes.
Temps ==
  {IF s = "node" THEN sensor[s] ELSE ParseTemp(sensor[s]) :
     s \in {x \in Sensors : sensor[x] # NoReading}}

\* The (int) cast of an unsigned int: the upper half of the range is negative.
Signed(u) == IF u > UintMax \div 2 THEN u - (UintMax + 1) ELSE u

\* No sensor at all is colder than everything (INT_MIN).
Coldest == -(UintMax \div 2) - 1
DeviceTemp ==
  IF Temps = {} THEN Coldest ELSE CHOOSE t \in Temps : \A u \in Temps : u <= t

\* cpu_limits_effective_floor_pct.  The temperatures are unsigned parameters that
\* are compared as ints: one above INT_MAX is below every reading.
FloorPct(temp) ==
  IF temp >= Signed(par.crit_temp) THEN par.crit_floor
  ELSE IF temp >= Signed(par.hot_temp) THEN par.hot_floor ELSE par.floor

\* Percentages above 100 count as 100.
FloorFreq(d, pct) == (Table[d][0] * (IF pct < 100 THEN pct ELSE 100)) \div 100

-----------------------------------------------------------------------------
Init ==
  /\ phase = "start" /\ list = <<>>
  /\ level = [c \in Cpus |-> 0] /\ qos = [c \in Cpus |-> NotAdded]
  /\ par \in Params
  /\ sensor \in {s \in [Sensors -> UNION {Readings[x] : x \in Sensors}] :
                   \A x \in Sensors : s[x] \in Readings[x]}
  /\ job = [k \in Callers |-> Idle]

\* mi_thermal_interface_init makes devices only when cpu_limits_enable is on.
LoadStart ==
  /\ phase = "start"
  /\ phase' = IF par.enable THEN "probing" ELSE "nodes"
  /\ UNCHANGED <<list, level, qos, par, sensor, job>>

(***************************************************************************)
(* mi_thermal_init_cpufreq adds a device per CPU at the head of the list.  *)
(* It returns at the first CPU without policy, table or memory and keeps   *)
(* what it has; the caller ignores the result.                             *)
(***************************************************************************)
ProbeCpu ==
  LET c == Len(list) + 1 IN
  /\ phase = "probing" /\ c \in Cpus
  /\ list' = <<c>> \o list
  /\ qos' = [qos EXCEPT ![c] = Table[c][0]]
  /\ UNCHANGED <<phase, level, par, sensor, job>>

ProbeEnd ==
  /\ phase = "probing"
  /\ phase' = "nodes"
  /\ UNCHANGED <<list, level, qos, par, sensor, job>>

\* The sysfs groups are created file by file, under the thermal class and under
\* /sys/kernel: requests come as soon as cpu_limits is there.
NodesDone ==
  /\ phase = "nodes"
  /\ phase' = "running"
  /\ UNCHANGED <<list, level, qos, par, sensor, job>>

\* Mutant: err_wq takes the devices back but not their requests.
LoadFailForgets ==
  /\ phase = "nodes"
  /\ \A k \in Callers : job[k] = Idle
  /\ phase' = "gone" /\ list' = <<>>
  /\ UNCHANGED <<level, qos, par, sensor, job>>

\* Without a workqueue, or when neither group can be completed, the load fails.
\* Removing a half-made group waits for the requests that are running.  The
\* devices and their requests are not taken back: err_wq destroys the workqueue.
LoadFail ==
  /\ phase = "nodes"
  /\ \A k \in Callers : job[k] = Idle
  /\ phase' = "failed"
  /\ UNCHANGED <<list, level, qos, par, sensor, job>>

Loaded == phase \in {"start", "probing", "nodes", "running"}
NodesThere == phase \in {"nodes", "running"}

\* The module parameters are writable from before init on, and nothing is
\* recomputed.
SetParams(p) ==
  /\ Loaded /\ p # par
  /\ par' = p
  /\ UNCHANGED <<phase, list, level, qos, sensor, job>>

\* The battery gauge moves; the thermal daemon stores a sysfs node.  A text is
\* stored in place and parsed without a lock: Readings holds what a parse of a
\* half-stored text yields, too.
SensorChange(s, v) ==
  /\ NodesThere /\ v # sensor[s]
  /\ sensor' = [sensor EXCEPT ![s] = v]
  /\ UNCHANGED <<phase, list, level, qos, par, job>>

\* cpu_limits_store and the part of cpu_limits_set_level before the mutex.
\* Off, a request is dropped, be it to set a cap or to release one.
Request(k, cpu, freq) ==
  /\ NodesThere /\ job[k] = Idle
  /\ par.enable
  /\ job' = [job EXCEPT ![k] = [cpu |-> cpu, freq |-> freq, temp |-> DeviceTemp,
                                pct |-> FloorPct(DeviceTemp)]]
  /\ UNCHANGED <<phase, list, level, qos, par, sensor>>

-----------------------------------------------------------------------------
\* The devices whose policy has the CPU; the loop stops at the first.
Matching(cpu) == {i \in DOMAIN list : PolicyOf[list[i]] = PolicyOf[cpu]}
First(S) == CHOOSE i \in S : \A j \in S : i <= j

\* The frequency asked for, raised to the floor.
Raised(d, freq, pct) ==
  IF freq < FloorFreq(d, pct) THEN FloorFreq(d, pct) ELSE freq

\* Levels whose frequency does not exceed what was asked for.
Fitting(d, freq, pct) == {l \in 0 .. MaxLevel(d) : Table[d][l] <= Raised(d, freq, pct)}

\* Below hot_temp a level may go up by max_step at most (0: no limit).  The
\* sum is an unsigned int and may wrap.
StepLimit(d, step) == (level[d] + step) % (UintMax + 1)

\* Mutant: the step limit is off by one.
SteppedLoose(d, l, temp, at) ==
  IF /\ at.test.step # 0 /\ temp < Signed(at.compare.hot_temp)
     /\ l > StepLimit(d, at.compare.step) + 1
  THEN StepLimit(d, at.assign.step) ELSE l

\* Mutant: the step is subtracted.
SteppedBack(d, l, temp, at) ==
  IF at.test.step # 0 /\ temp < Signed(at.compare.hot_temp) /\ level[d] >= at.assign.step
  THEN level[d] - at.assign.step ELSE l

\* at: the parameters as loaded for the test of max_step, for the comparison
\* and for the assignment.
Stepped(d, l, temp, at) ==
  IF /\ at.test.step # 0 /\ temp < Signed(at.compare.hot_temp)
     /\ l > StepLimit(d, at.compare.step)
  THEN StepLimit(d, at.assign.step) ELSE l

\* The level a request ends at.  When no frequency fits, ret is still -ENODEV
\* and the deepest level is set, without a look at max_step.
Target(d, j, at) ==
  IF j.freq = 0 THEN 0
  ELSE IF Fitting(d, j.freq, j.pct) = {} THEN MaxLevel(d)
  ELSE Stepped(d, First(Fitting(d, j.freq, j.pct)), j.temp, at)

\* Mutant: a level beyond the table is let through.
SetLevelUnchecked(d, l) ==
  /\ level' = [level EXCEPT ![d] = l]
  /\ qos' = IF l \in 0 .. MaxLevel(d) THEN [qos EXCEPT ![d] = Table[d][l]] ELSE qos

\* cpufreq_set_level; a level beyond the table is refused, one that stays the
\* same updates nothing.
SetLevel(d, l) ==
  IF l > MaxLevel(d) THEN UNCHANGED <<level, qos>>
  ELSE /\ level' = [level EXCEPT ![d] = l]
       /\ qos' = IF l = level[d] THEN qos ELSE [qos EXCEPT ![d] = Table[d][l]]

\* Mutant: the device of the CPU asked for is moved, if it has one.
MoveOwn(k, at) ==
  LET j == job[k]
      own == {i \in Matching(j.cpu) : list[i] = j.cpu} IN
  /\ j # Idle
  /\ IF own = {}
       THEN UNCHANGED <<level, qos>>
       ELSE SetLevel(j.cpu, Target(j.cpu, j, at))
  /\ job' = [job EXCEPT ![k] = Idle]
  /\ UNCHANGED <<phase, list, sensor>>

\* The part of cpu_limits_set_level under cpufreq_list_lock.  A CPU without a
\* device leaves everything alone (-ENODEV).
Move(k, at) ==
  LET j == job[k] IN
  /\ j # Idle
  /\ IF Matching(j.cpu) = {}
       THEN UNCHANGED <<level, qos>>
       ELSE LET d == list[First(Matching(j.cpu))] IN
            SetLevel(d, Target(d, j, at))
  /\ job' = [job EXCEPT ![k] = Idle]
  /\ UNCHANGED <<phase, list, sensor>>

\* Nobody writes the parameters meanwhile.
Apply(k) ==
  /\ Move(k, [test |-> par, compare |-> par, assign |-> par])
  /\ UNCHANGED par

\* A parameter is written during the move, before or after the comparison.
\* Bound: at most one write falls into a move.
ApplyRaced(k, p, early) ==
  /\ Loaded /\ p # par
  /\ Move(k, [test |-> par, compare |-> IF early THEN p ELSE par, assign |-> p])
  /\ par' = p

\* mi_thermal_interface_exit: removing the nodes waits for the requests that
\* are running, then every request of freq_qos is removed.
Unload ==
  /\ phase = "running"
  /\ \A k \in Callers : job[k] = Idle
  /\ phase' = "gone" /\ list' = <<>>
  /\ qos' = [c \in Cpus |-> NotAdded]
  /\ UNCHANGED <<level, par, sensor, job>>

Next ==
  \/ LoadStart \/ ProbeCpu \/ ProbeEnd \/ NodesDone \/ LoadFail \/ Unload
  \/ \E p \in Params : SetParams(p)
  \/ \E s \in Sensors : \E v \in Readings[s] : SensorChange(s, v)
  \/ \E k \in Callers : \/ Apply(k)
                        \/ \E p \in Params, early \in BOOLEAN : ApplyRaced(k, p, early)
                        \/ \E c \in Asked, f \in Freqs : Request(k, c, f)

Spec == Init /\ [][Next]_vars

-----------------------------------------------------------------------------
Devices == {list[i] : i \in DOMAIN list}

\* The types of the variables; no level is beyond its table.
TypeOK ==
  /\ Loaded \/ phase \in {"gone", "failed"}
  /\ list \in Seq(Cpus)
  /\ \A c \in Cpus : level[c] \in 0 .. MaxLevel(c) /\ qos[c] \in NotAdded .. UintMax
  /\ par \in Params
  /\ \A s \in Sensors : sensor[s] \in Readings[s]
  /\ \A k \in Callers :
       job[k] # Idle => job[k].cpu \in Asked /\ job[k].freq \in Freqs

\* Caller k ends its move.
Moves(k) == job[k] # Idle /\ job'[k] = Idle

(***************************************************************************)
(* Below hot_temp an update deepens a device by at most max_step levels,   *)
(* counted from the level it finds under the mutex, whatever other callers *)
(* did since its sampling.  When max_step is written during the move, the  *)
(* larger of its values is the limit, provided that there is a limit       *)
(* before and after.  hot_temp counts as the int it is cast to: above      *)
(* INT_MAX it is negative and nothing is limited.  The one way past the    *)
(* limit is the fallback: no frequency of the table fits the request, and  *)
(* the device goes straight to its deepest level.  The description of      *)
(* cpu_limits_max_step ("Maximum cooling states cpu_limits can increase    *)
(* per update below hot temperature") does not mention it.                 *)
(***************************************************************************)
StepIsLimited ==
  [][\A k \in Callers :
       /\ Moves(k) /\ par.step # 0 /\ par'.step # 0
       /\ job[k].temp < Signed(par.hot_temp) /\ job[k].temp < Signed(par'.hot_temp)
       => \A d \in Cpus :
            \/ level'[d] <= level[d] + par.step
            \/ level'[d] <= level[d] + par'.step
            \/ /\ Fitting(d, job[k].freq, job[k].pct) = {}
               /\ level'[d] = MaxLevel(d)]_vars

(***************************************************************************)
(* A request that makes a device cool less asked for that: it releases the *)
(* cap, or a higher frequency than the current one fits it.  max_step only *)
(* holds a device back from cooling more.  The exception is a max_step so  *)
(* large, when it is assigned, that the unsigned sum wraps: then the       *)
(* device that should stay or go deeper is set to the wrapped sum, which   *)
(* is 2^32 - max_step levels up, and to nothing else.                      *)
(***************************************************************************)
LightensOnlyWhenAsked ==
  [][\A k \in Callers :
       Moves(k) /\ job[k].freq # 0
         => \A d \in Cpus :
              level'[d] < level[d]
                => \/ level[d] - 1 \in Fitting(d, job[k].freq, job[k].pct)
                   \/ level'[d] = StepLimit(d, par'.step)]_vars

(***************************************************************************)
(* "Minimum cpu_limits cap as percentage of cluster max frequency": a      *)
(* request moves no device to a frequency below the floor it was given.    *)
(***************************************************************************)
CapNotBelowFloor ==
  [][\A k \in Callers :
       Moves(k) /\ job[k].freq # 0
         => \A d \in Cpus :
              level'[d] # level[d]
                => Table[d][level'[d]] >= FloorFreq(d, job[k].pct)]_vars

(***************************************************************************)
(* A cap in force can be released: it is on the device that a request for  *)
(* its policy finds, and there is a node to send the request to.  Only a   *)
(* load that failed after its nodes were there leaves a cap nobody can     *)
(* release: its devices and requests are kept, and the nodes are gone.     *)
(***************************************************************************)
CapIsReleasable ==
  \A c \in Cpus :
    qos[c] \notin {NotAdded, Table[c][0]} =>
      \/ phase = "failed"
      \/ /\ NodesThere
         /\ Matching(c) # {} /\ list[First(Matching(c))] = c

(***************************************************************************)
(* Asking for frequency 0 releases the whole cluster: no request of any    *)
(* CPU of the policy holds a cap afterwards, whichever CPUs the caps were  *)
(* asked for: a cap asked for through one CPU is released through another. *)
(* The code moves a single device and leaves the others alone.             *)
(***************************************************************************)
ReleaseUncapsPolicy ==
  [][\A k \in Callers :
       Moves(k) /\ job[k].freq = 0
         => \A d \in Devices :
              PolicyOf[d] = PolicyOf[job[k].cpu] => qos'[d] = Table[d][0]]_vars

\* The battery gauge reports tenths of a degree, the nodes degrees, the board
\* sensors thousandths.
Celsius(s) ==
  CASE s = "battery" -> sensor[s] \div 10
    [] s = "node"    -> sensor[s]
    [] s = "board"   -> sensor[s] \div 1000

(***************************************************************************)
(* "Temperature in Celsius where cpu_limits allows critical mitigation": a *)
(* request is given the critical floor only when a sensor is that hot.     *)
(***************************************************************************)
CriticalOnlyWhenHot ==
  [][\A k \in Callers :
       job[k] = Idle /\ job'[k] # Idle /\ job'[k].temp >= Signed(par.crit_temp)
         => \E s \in Sensors : /\ sensor[s] # NoReading
                               /\ Celsius(s) >= Signed(par.crit_temp)]_vars
=============================================================================
