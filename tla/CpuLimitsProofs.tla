-------------------------- MODULE CpuLimitsProofs --------------------------
(***************************************************************************)
(* Proofs about CpuLimits, for any CPUs, policies, frequency tables,       *)
(* callers, parameter values and sensor readings.                          *)
(***************************************************************************)
EXTENDS CpuLimits, WellFoundedInduction, TLAPS

-----------------------------------------------------------------------------
\* A set of naturals has a least element; proofs by induction on the index of
\* a table take the least index at which a claim fails.
LEMMA LeastNat ==
  ASSUME NEW S, S \subseteq Nat, S # {}
  PROVE  \E x \in S : \A y \in S : x <= y
<1>1. PICK x \in S : \A y \in S : ~(<<y, x>> \in OpToRel(<, Nat))
  BY NatLessThanWellFounded, WFMin, Zenon
<1>2. \A y \in S : ~(y < x)
  BY <1>1, Zenon DEF OpToRel
<1>3. \A y \in S : x <= y
  <2>1. \A y \in S : y \in Nat /\ x \in Nat
    OBVIOUS
  <2>2. QED
    BY ONLY <1>2, <2>1
<1>4. QED
  BY <1>3, Zenon

\* A bounded set of naturals has a greatest element.
LEMMA GreatestNat ==
  ASSUME NEW S, S \subseteq Nat, S # {}, NEW b \in Nat, \A x \in S : x <= b
  PROVE  \E x \in S : \A y \in S : y <= x
<1> DEFINE T == {b - x : x \in S}
<1>1. T \subseteq Nat
  <2>1. \A x \in S : b - x \in Nat
    OBVIOUS
  <2>2. QED
    BY <2>1, Zenon
<1>2. T # {}
  <2>1. PICK x : x \in S
    OBVIOUS
  <2>2. b - x \in T
    BY <2>1
  <2>3. QED
    BY <2>2
<1>3. PICK z \in T : \A y \in T : z <= y
  BY <1>1, <1>2, LeastNat
<1>4. PICK x \in S : z = b - x
  BY <1>3
<1>5. \A y \in S : b - x <= b - y
  BY <1>3, <1>4
<1>6. \A y \in S : y <= x
  <2>1. \A y \in S : y \in Nat /\ x \in Nat
    OBVIOUS
  <2>2. QED
    BY <1>5, <2>1
<1>7. QED
  BY <1>6, Zenon

-----------------------------------------------------------------------------
\* find_next_max returns a frequency of the table below prev, or 0.
LEMMA NextMaxProperties ==
  ASSUME NEW p \in Policies, NEW prev \in Nat
  PROVE  /\ NextMax(RawTable[p], prev) \in Nat
         /\ NextMax(RawTable[p], prev) < UintMax
         /\ NextMax(RawTable[p], prev) <= prev
<1> DEFINE raw == RawTable[p]
           below == {raw[i] : i \in DOMAIN raw} \cap 0 .. prev - 1
<1>1. CASE below = {}
  BY <1>1, LimitsAssumption DEF NextMax
<1>2. CASE below # {}
  <2>1. below \subseteq Nat /\ \A f \in below : f <= prev
    OBVIOUS
  <2>2. \E f \in below : \A g \in below : g <= f
    BY <1>2, <2>1, GreatestNat
  <2>3. NextMax(raw, prev) \in below
    BY <1>2, <2>2, Zenon DEF NextMax
  <2>4. \A f \in below : f < UintMax
    BY LimitsAssumption
  <2>5. QED
    BY <2>1, <2>3, <2>4
<1>3. QED
  BY <1>1, <1>2

\* f is the table that mi_thermal_init_cpufreq has filled up to entry k.
Filled(p, f, k) ==
  /\ f \in [0 .. k -> Nat]
  /\ \A i \in 0 .. k :
       f[i] = NextMax(RawTable[p], IF i = 0 THEN UintMax ELSE f[i - 1])

\* The loop fills a table of any length.
LEMMA FilledExists ==
  ASSUME NEW p \in Policies
  PROVE  \A k \in Nat : \E f : Filled(p, f, k)
<1> DEFINE Bad == {k \in Nat : ~\E f : Filled(p, f, k)}
           raw == RawTable[p]
<1>1. ASSUME Bad # {} PROVE FALSE
  <2>1. PICK k \in Bad : \A j \in Bad : k <= j
    BY <1>1, LeastNat, Zenon
  <2>2. k \in Nat /\ ~\E f : Filled(p, f, k)
    BY <2>1
  <2>3. CASE k = 0
    <3> DEFINE f == [i \in 0 .. 0 |-> NextMax(raw, UintMax)]
    <3>1. NextMax(raw, UintMax) \in Nat
      BY NextMaxProperties, LimitsAssumption
    <3>2. Filled(p, f, 0)
      BY <3>1 DEF Filled
    <3>3. QED
      BY <2>2, <2>3, <3>2
  <2>4. CASE k # 0
    <3>1. k - 1 \in Nat /\ k - 1 \notin Bad
      BY <2>1, <2>2, <2>4
    <3>2. PICK g : Filled(p, g, k - 1)
      BY <3>1
    <3>3. g \in [0 .. k - 1 -> Nat] /\ g[k - 1] \in Nat
      BY <3>1, <3>2 DEF Filled
    <3> DEFINE f == [i \in 0 .. k |-> IF i = k THEN NextMax(raw, g[k - 1]) ELSE g[i]]
    <3>4. NextMax(raw, g[k - 1]) \in Nat
      BY <3>3, NextMaxProperties
    <3>5. \A i \in 0 .. k : i # k => i \in 0 .. k - 1
      BY <2>2
    <3>6. f \in [0 .. k -> Nat]
      BY <3>3, <3>4, <3>5
    <3>7. ASSUME NEW i \in 0 .. k
          PROVE  f[i] = NextMax(raw, IF i = 0 THEN UintMax ELSE f[i - 1])
      <4>1. CASE i = k
        <5>1. i # 0 /\ i - 1 = k - 1 /\ i - 1 \in 0 .. k /\ i - 1 # k
          BY <2>2, <2>4, <4>1
        <5>2. f[i - 1] = g[k - 1] /\ f[i] = NextMax(raw, g[k - 1])
          BY <4>1, <5>1
        <5>3. QED
          BY <5>1, <5>2
      <4>2. CASE i # k
        <5>1. f[i] = g[i] /\ i \in 0 .. k - 1
          BY <3>5, <4>2
        <5>2. i # 0 => i - 1 \in 0 .. k /\ i - 1 # k
          BY <2>2, <4>2, <5>1
        <5>3. i # 0 => f[i - 1] = g[i - 1]
          BY <5>2
        <5>4. QED
          BY <3>2, <5>1, <5>3 DEF Filled
      <4>3. QED
        BY <4>1, <4>2
    <3>8. Filled(p, f, k)
      BY <3>6, <3>7 DEF Filled
    <3>9. QED
      BY <2>2, <3>8
  <2>5. QED
    BY <2>3, <2>4
<1>2. QED
  BY <1>1

\* Every device has a table, and its levels are the indices of that table.
LEMMA MaxLevelProperties ==
  ASSUME NEW d \in Cpus
  PROVE  PolicyOf[d] \in Policies /\ MaxLevel(d) \in Nat
<1>1. PolicyOf[d] \in Policies
  BY DEF Policies
<1>2. RawTable[PolicyOf[d]] \in Seq(Nat \ {0}) /\ RawTable[PolicyOf[d]] # <<>>
  BY <1>1, LimitsAssumption
<1>3. QED
  BY <1>1, <1>2 DEF MaxLevel

\* Table is what the loop fills.
LEMMA TableFilled ==
  ASSUME NEW d \in Cpus
  PROVE  Filled(PolicyOf[d], Table[d], MaxLevel(d))
<1> DEFINE raw == RawTable[PolicyOf[d]]
           k == MaxLevel(d)
           t[i \in 0 .. k] == NextMax(raw, IF i = 0 THEN UintMax ELSE t[i-1])
<1>1. PolicyOf[d] \in Policies /\ k \in Nat
  BY MaxLevelProperties
<1>2. PICK f : Filled(PolicyOf[d], f, k)
  BY <1>1, FilledExists
<1>3. f = [i \in 0 .. k |-> NextMax(raw, IF i = 0 THEN UintMax ELSE f[i-1])]
  BY <1>2 DEF Filled
<1>4. t = [i \in 0 .. k |-> NextMax(raw, IF i = 0 THEN UintMax ELSE t[i-1])]
  <2>1. \E g : g = [i \in 0 .. k |-> NextMax(raw, IF i = 0 THEN UintMax ELSE g[i-1])]
    BY <1>3, Zenon
  <2>2. QED
    BY <2>1, Zenon
<1>5. Table[d] = [i \in 0 .. k |-> t[i]]
  BY Zenon DEF Table
<1> HIDE DEF t
<1>6. \A i \in 0 .. k : t[i] = NextMax(raw, IF i = 0 THEN UintMax ELSE t[i-1])
  BY <1>4
<1>7. \A i \in 0 .. k : t[i] \in Nat
  <2> DEFINE Bad == {i \in 0 .. k : t[i] \notin Nat}
  <2>1. ASSUME Bad # {} PROVE FALSE
    <3>1. Bad \subseteq Nat
      BY <1>1
    <3>2. PICK i \in Bad : \A j \in Bad : i <= j
      BY <2>1, <3>1, LeastNat, Zenon
    <3>3. i \in 0 .. k /\ t[i] \notin Nat
      BY <3>2
    <3>4. CASE i = 0
      BY <1>1, <1>6, <3>3, <3>4, NextMaxProperties, LimitsAssumption
    <3>5. CASE i # 0
      <4>1. i - 1 \in 0 .. k /\ ~(i <= i - 1)
        BY <1>1, <3>3, <3>5
      <4>2. t[i - 1] \in Nat
        BY <3>2, <4>1
      <4>3. t[i] = NextMax(raw, t[i - 1])
        BY <1>6, <3>3, <3>5
      <4>4. QED
        BY <1>1, <3>3, <4>2, <4>3, NextMaxProperties
    <3>6. QED
      BY <3>4, <3>5
  <2>2. QED
    BY <2>1
<1>8. Table[d] \in [0 .. k -> Nat] /\ \A i \in 0 .. k : Table[d][i] = t[i]
  BY <1>5, <1>7
<1>9. \A i \in 0 .. k : i # 0 => i - 1 \in 0 .. k
  BY <1>1
<1>10. QED
  BY <1>6, <1>8, <1>9 DEF Filled

\* The device table holds frequencies, the highest first: a deeper level never
\* allows a higher frequency.
LEMMA TableProperties ==
  ASSUME NEW d \in Cpus
  PROVE  /\ MaxLevel(d) \in Nat
         /\ Table[d] \in [0 .. MaxLevel(d) -> 0 .. UintMax]
         /\ \A l, m \in 0 .. MaxLevel(d) : l <= m => Table[d][m] <= Table[d][l]
<1> DEFINE k == MaxLevel(d)
           p == PolicyOf[d]
<1>1. p \in Policies /\ k \in Nat /\ UintMax \in Nat
  BY MaxLevelProperties, LimitsAssumption
<1>2. /\ Table[d] \in [0 .. k -> Nat]
      /\ \A i \in 0 .. k :
           Table[d][i] = NextMax(RawTable[p], IF i = 0 THEN UintMax ELSE Table[d][i - 1])
  BY TableFilled DEF Filled
<1>3. ASSUME NEW i \in 0 .. k
      PROVE  /\ Table[d][i] \in 0 .. UintMax
             /\ i # 0 => Table[d][i] <= Table[d][i - 1]
  <2>1. i # 0 => i - 1 \in 0 .. k
    BY <1>1
  <2>2. PICK prev \in Nat : prev = IF i = 0 THEN UintMax ELSE Table[d][i - 1]
    BY <1>1, <1>2, <2>1
  <2>3. Table[d][i] = NextMax(RawTable[p], prev)
    BY <1>2, <2>2
  <2>4. QED
    BY <1>1, <2>2, <2>3, NextMaxProperties
<1>4. ASSUME NEW l \in 0 .. k
      PROVE  \A m \in 0 .. k : l <= m => Table[d][m] <= Table[d][l]
  <2> DEFINE Bad == {m \in 0 .. k : l <= m /\ ~(Table[d][m] <= Table[d][l])}
  <2>1. ASSUME Bad # {} PROVE FALSE
    <3>1. Bad \subseteq Nat
      BY <1>1
    <3>2. PICK m \in Bad : \A j \in Bad : m <= j
      BY <2>1, <3>1, LeastNat, Zenon
    <3>3. m \in 0 .. k /\ l <= m /\ ~(Table[d][m] <= Table[d][l])
      BY <3>2
    <3>4. m # l
      <4>1. Table[d][l] \in Nat
        BY <1>2
      <4>2. Table[d][l] <= Table[d][l]
        BY <4>1
      <4>3. QED
        BY <3>3, <4>2
    <3>5. m - 1 \in 0 .. k /\ l <= m - 1 /\ ~(m <= m - 1) /\ m # 0
      BY <1>1, <3>3, <3>4
    <3>6. Table[d][m - 1] <= Table[d][l]
      BY <3>2, <3>5
    <3>7. Table[d][m] <= Table[d][m - 1]
      BY <1>3, <3>3, <3>5
    <3>8. /\ Table[d][m] \in Nat /\ Table[d][m - 1] \in Nat /\ Table[d][l] \in Nat
      BY <1>2, <3>3, <3>5
    <3>9. QED
      BY <3>3, <3>6, <3>7, <3>8
  <2>2. QED
    BY <2>1
<1>5. Table[d] \in [0 .. k -> 0 .. UintMax]
  BY <1>2, <1>3
<1>6. QED
  BY <1>1, <1>4, <1>5

-----------------------------------------------------------------------------
\* The first index a loop reaches.
LEMMA FirstProperties ==
  ASSUME NEW S, S \subseteq Nat, S # {}
  PROVE  First(S) \in S /\ \A j \in S : First(S) <= j
<1>1. \E i \in S : \A j \in S : i <= j
  BY LeastNat
<1>2. QED
  BY <1>1, Zenon DEF First

\* The floor is a frequency, whatever the percentage.
LEMMA FloorFreqType ==
  ASSUME NEW d \in Cpus, NEW pct \in Nat
  PROVE  FloorFreq(d, pct) \in Nat
<1> DEFINE used == IF pct < 100 THEN pct ELSE 100
<1>1. Table[d][0] \in Nat /\ used \in Nat
  BY TableProperties, LimitsAssumption
<1>2. Table[d][0] * used \in Nat
  BY <1>1
<1>3. (Table[d][0] * used) \div 100 \in Nat
  BY <1>2
<1>4. QED
  BY <1>3 DEF FloorFreq

\* The unsigned sum of a level and a step never exceeds their sum.
LEMMA WrapProperties ==
  ASSUME NEW x \in Nat
  PROVE  /\ x % (UintMax + 1) \in Nat
         /\ x % (UintMax + 1) <= x
<1> DEFINE m == UintMax + 1
<1>1. m \in Nat /\ m > 0
  BY LimitsAssumption
<1> HIDE DEF m
<1>2. /\ x % m \in 0 .. m - 1
      /\ x \div m \in Nat
      /\ x = (m * (x \div m)) + (x % m)
  BY <1>1
<1>3. m * (x \div m) \in Nat
  BY <1>1, <1>2
<1>4. x % m <= x
  BY <1>1, <1>2, <1>3
<1>5. QED
  BY <1>2, <1>4 DEF m

\* The search of cpu_limits_set_level: the level it stops at fits the request,
\* those above it do not, and, the table being sorted, those below it fit.
LEMMA SearchProperties ==
  ASSUME NEW d \in Cpus, NEW freq \in Nat, NEW pct \in Nat
  PROVE  Fitting(d, freq, pct) # {} =>
           /\ First(Fitting(d, freq, pct)) \in 0 .. MaxLevel(d)
           /\ \A l \in 0 .. MaxLevel(d) :
                l \in Fitting(d, freq, pct) <=> First(Fitting(d, freq, pct)) <= l
<1> DEFINE F == Fitting(d, freq, pct)
           r == Raised(d, freq, pct)
<1>1. /\ MaxLevel(d) \in Nat /\ UintMax \in Nat
      /\ \A l \in 0 .. MaxLevel(d) : Table[d][l] \in Nat
      /\ \A l, m \in 0 .. MaxLevel(d) : l <= m => Table[d][m] <= Table[d][l]
  BY TableProperties, LimitsAssumption
<1>2. r \in Nat
  BY FloorFreqType DEF Raised
<1>3. F = {l \in 0 .. MaxLevel(d) : Table[d][l] <= r}
  BY DEF Fitting
<1> HIDE DEF F, r
<1>4. ASSUME F # {}
      PROVE  /\ First(F) \in 0 .. MaxLevel(d)
             /\ \A l \in 0 .. MaxLevel(d) : l \in F <=> First(F) <= l
  <2>1. F \subseteq Nat
    BY <1>1, <1>3
  <2>2. PICK f : f = First(F) /\ f \in F /\ \A l \in F : f <= l
    BY <1>4, <2>1, FirstProperties
  <2>3. f \in 0 .. MaxLevel(d) /\ Table[d][f] <= r
    BY <1>3, <2>2
  <2>4. ASSUME NEW l \in 0 .. MaxLevel(d), f <= l PROVE l \in F
    <3>1. Table[d][l] <= Table[d][f] /\ Table[d][l] \in Nat /\ Table[d][f] \in Nat
      BY <1>1, <2>3, <2>4
    <3>2. Table[d][l] <= r
      BY <1>2, <2>3, <3>1
    <3>3. QED
      BY <1>3, <3>2
  <2>5. QED
    BY <2>2, <2>3, <2>4
<1>5. QED
  BY <1>4 DEF F

\* The parameters a move loads are ones the module can have.
Loads(at) == at.test \in Params /\ at.compare \in Params /\ at.assign \in Params

\* The limits computed from the steps a move loads.
LEMMA StepLimitProperties ==
  ASSUME NEW d \in Cpus, level[d] \in Nat, NEW p \in Params
  PROVE  /\ p.step \in Nat
         /\ StepLimit(d, p.step) \in Nat
         /\ StepLimit(d, p.step) <= level[d] + p.step
<1>1. p.step \in 0 .. UintMax /\ UintMax \in Nat
  BY LimitsAssumption
<1>2. level[d] + p.step \in Nat /\ p.step \in Nat
  BY <1>1
<1>3. QED
  BY <1>2, WrapProperties DEF StepLimit

\* Below hot_temp, and with a step limit, a request does not go beyond the limit
\* unless nothing fits it: then it goes to the deepest level.
LEMMA TargetWithinStep ==
  ASSUME NEW d \in Cpus, level[d] \in Nat, NEW at, Loads(at),
         NEW j, j.freq \in Nat, j.pct \in Nat
  PROVE  /\ Target(d, j, at) \in Nat
         /\ j.freq = 0 => Target(d, j, at) = 0
         /\ at.test.step # 0 /\ j.temp < Signed(at.compare.hot_temp)
            => \/ Target(d, j, at) <= level[d] + at.compare.step
               \/ Target(d, j, at) <= level[d] + at.assign.step
               \/ Fitting(d, j.freq, j.pct) = {} /\ Target(d, j, at) = MaxLevel(d)
<1> DEFINE F == Fitting(d, j.freq, j.pct)
           t == Target(d, j, at)
           Limit(step) == StepLimit(d, step)
<1>1. MaxLevel(d) \in Nat
  BY TableProperties
<1>2. F # {} => First(F) \in 0 .. MaxLevel(d)
  BY SearchProperties
<1>3. \A step \in {at.compare.step, at.assign.step} :
        step \in Nat /\ Limit(step) \in Nat /\ Limit(step) <= level[d] + step
  BY StepLimitProperties DEF Loads
<1>4. j.freq = 0 => t = 0
  BY DEF Target
<1>5. t \in Nat
  BY <1>1, <1>2, <1>3 DEF Target, Stepped
<1>6. ASSUME at.test.step # 0, j.temp < Signed(at.compare.hot_temp)
      PROVE  \/ t <= level[d] + at.compare.step
             \/ t <= level[d] + at.assign.step
             \/ F = {} /\ t = MaxLevel(d)
  <2>1. \/ t = 0
        \/ F = {} /\ t = MaxLevel(d)
        \/ t = Limit(at.assign.step)
        \/ F # {} /\ t = First(F) /\ ~(First(F) > Limit(at.compare.step))
    BY <1>6 DEF Target, Stepped
  <2> HIDE DEF F, t, Limit
  <2>2. QED
    BY <1>1, <1>2, <1>3, <1>6, <2>1
<1>7. QED
  BY <1>4, <1>5, <1>6

\* A request that lightens a device releases it, leaves room for the next higher
\* frequency, or sets it to a step limit, which must then have wrapped.
LEMMA TargetLightens ==
  ASSUME NEW d \in Cpus, level[d] \in 0 .. MaxLevel(d), NEW at, Loads(at),
         NEW j, j.freq \in Nat, j.pct \in Nat,
         Target(d, j, at) < level[d]
  PROVE  \/ j.freq = 0
         \/ level[d] - 1 \in Fitting(d, j.freq, j.pct)
         \/ Target(d, j, at) = StepLimit(d, at.assign.step)
<1> SUFFICES ASSUME j.freq # 0, Target(d, j, at) # StepLimit(d, at.assign.step)
             PROVE  level[d] - 1 \in Fitting(d, j.freq, j.pct)
  OBVIOUS
<1> DEFINE F == Fitting(d, j.freq, j.pct)
           t == Target(d, j, at)
<1>1. MaxLevel(d) \in Nat /\ level[d] \in Nat
  BY TableProperties
<1>2. F # {} => /\ First(F) \in 0 .. MaxLevel(d)
                /\ \A l \in 0 .. MaxLevel(d) : l \in F <=> First(F) <= l
  BY SearchProperties
<1>3. \/ F = {} /\ t = MaxLevel(d)
      \/ F # {} /\ t = First(F)
  BY DEF Target, Stepped
<1>4. t < level[d]
  OBVIOUS
<1> HIDE DEF F, t
<1>5. F # {} /\ t = First(F)
  BY <1>1, <1>3, <1>4
<1>6. level[d] - 1 \in 0 .. MaxLevel(d) /\ First(F) <= level[d] - 1
  BY <1>1, <1>2, <1>4, <1>5
<1>7. QED
  BY <1>2, <1>5, <1>6 DEF F

-----------------------------------------------------------------------------
\* The variables are functions on the CPUs, sensors and callers they belong to,
\* and the floor a caller sampled is a percentage.
Typed ==
  /\ TypeOK
  /\ DOMAIN level = Cpus /\ level \in [Cpus -> Nat]
  /\ qos \in [Cpus -> NotAdded .. UintMax]
  /\ sensor = [s \in Sensors |-> sensor[s]]
  /\ job = [k \in Callers |-> job[k]]
  /\ \A k \in Callers : job[k] # Idle => job[k].pct \in 0 .. UintMax

\* The devices are those of the first CPUs, the last one probed first.
Listed ==
  /\ Len(list) <= NumCpus
  /\ \A i \in 1 .. Len(list) : list[i] = Len(list) + 1 - i

\* Of the devices of a policy, the one that a request finds.
Leads(c) ==
  /\ c <= Len(list)
  /\ \A e \in Cpus : e <= Len(list) /\ PolicyOf[e] = PolicyOf[c] => e <= c

\* What the frequency requests hold: a device's entry of its table; and only
\* a device that requests find is below its top level.
Held ==
  /\ \A c \in Cpus :
       /\ qos[c] = IF c <= Len(list) THEN Table[c][level[c]] ELSE NotAdded
       /\ c <= Len(list) /\ level[c] > 0 => Leads(c)
  /\ phase \in {"start", "probing"} =>
       /\ \A c \in Cpus : level[c] = 0
       /\ \A k \in Callers : job[k] = Idle
  /\ phase = "gone" => list = <<>>

\* The inductive invariant.
IInv == Typed /\ Listed /\ Held

\* The device a request finds is the one that leads the CPU's policy, if there
\* is any: the list is searched from its head, where the last CPU probed is.
LEMMA FoundLeads ==
  ASSUME list \in Seq(Cpus), Listed, NEW cpu \in Cpus, Matching(cpu) # {}
  PROVE  LET d == list[First(Matching(cpu))]
         IN  d \in Cpus /\ PolicyOf[d] = PolicyOf[cpu] /\ Leads(d)
<1> DEFINE M == Matching(cpu)
           n == Len(list)
<1>1. /\ n \in Nat /\ NumCpus \in Nat /\ n <= NumCpus
      /\ \A i \in 1 .. n : list[i] \in Cpus /\ list[i] = n + 1 - i
      /\ M = {i \in 1 .. n : PolicyOf[list[i]] = PolicyOf[cpu]}
  BY LimitsAssumption DEF Listed, Matching
<1>2. M \subseteq Nat
  BY <1>1
<1>3. PICK f : f = First(M) /\ f \in M /\ \A i \in M : f <= i
  BY <1>2, FirstProperties
<1> HIDE DEF n
<1>4. f \in 1 .. n /\ PolicyOf[list[f]] = PolicyOf[cpu]
  BY <1>1, <1>3
<1>5. ASSUME NEW e \in Cpus, e <= n, PolicyOf[e] = PolicyOf[cpu]
      PROVE  e <= list[f]
  <2>1. n + 1 - e \in 1 .. n /\ n + 1 - (n + 1 - e) = e
    BY <1>1, <1>5 DEF Cpus
  <2>2. list[n + 1 - e] = e
    BY <1>1, <2>1
  <2>3. n + 1 - e \in M
    BY <1>1, <1>5, <2>1, <2>2
  <2>4. f <= n + 1 - e /\ list[f] = n + 1 - f
    BY <1>1, <1>3, <1>4, <2>3
  <2>5. QED
    BY <1>1, <1>4, <2>4 DEF Cpus
<1>6. list[f] \in Cpus /\ list[f] <= n
  BY <1>1, <1>4
<1> HIDE DEF M
<1>7. QED
  BY <1>3, <1>4, <1>5, <1>6 DEF Leads, n, M

\* A CPU whose policy no device has.
LEMMA NoneFound ==
  ASSUME list \in Seq(Cpus), Listed, NEW cpu \in Cpus, Matching(cpu) = {},
         NEW e \in Cpus, e <= Len(list)
  PROVE  PolicyOf[e] # PolicyOf[cpu]
<1> DEFINE n == Len(list)
<1>1. n \in Nat /\ \A i \in 1 .. n : list[i] = n + 1 - i
  BY DEF Listed
<1>2. n + 1 - e \in 1 .. n /\ n + 1 - (n + 1 - e) = e
  BY <1>1 DEF Cpus
<1>3. list[n + 1 - e] = e
  BY <1>1, <1>2
<1>4. QED
  BY <1>2, <1>3 DEF Matching

\* A move by k finds device d and sets level l: the one aimed at, or the level
\* d has when the aim is beyond the table and refused.
Sets(k, at, d, l) ==
  /\ d \in Cpus /\ PolicyOf[d] = PolicyOf[job[k].cpu] /\ Leads(d)
  /\ l \in 0 .. MaxLevel(d)
  /\ \/ l = Target(d, job[k], at)
     \/ l = level[d] /\ Target(d, job[k], at) > MaxLevel(d)
  /\ level' = [level EXCEPT ![d] = l]
  /\ qos' = [qos EXCEPT ![d] = Table[d][l]]

\* What a caller brings to its move.
LEMMA JobTypes ==
  ASSUME Typed, NEW k \in Callers, job[k] # Idle
  PROVE  job[k].cpu \in Cpus /\ job[k].freq \in Nat /\ job[k].pct \in Nat
<1>1. job[k].cpu \in Asked /\ job[k].freq \in Freqs /\ job[k].pct \in 0 .. UintMax
  BY DEF Typed, TypeOK
<1>2. /\ \A c \in Asked : c \in Cpus
      /\ \A f \in Freqs : f \in Nat
      /\ \A p \in 0 .. UintMax : p \in Nat
  BY LimitsAssumption
<1>3. QED
  BY <1>1, <1>2, Zenon

\* A move sets the level of one device that requests can find, or of none.
LEMMA MoveSets ==
  ASSUME IInv, NEW k \in Callers, NEW at, Loads(at), Move(k, at)
  PROVE  \/ /\ Matching(job[k].cpu) = {}
            /\ UNCHANGED <<level, qos>>
         \/ \E d, l : Sets(k, at, d, l)
<1> DEFINE j == job[k]
<1>1. /\ j # Idle /\ j.cpu \in Cpus /\ j.freq \in Nat /\ j.pct \in Nat
      /\ list \in Seq(Cpus) /\ level \in [Cpus -> Nat] /\ qos \in [Cpus -> NotAdded .. UintMax]
      /\ DOMAIN level = Cpus
      /\ \A c \in Cpus : level[c] \in 0 .. MaxLevel(c)
  <2>1. j # Idle
    BY DEF Move
  <2>2. j.cpu \in Cpus /\ j.freq \in Nat /\ j.pct \in Nat
    BY <2>1, JobTypes DEF IInv
  <2>3. QED
    BY <2>1, <2>2 DEF IInv, Typed, TypeOK
<1>2. CASE Matching(j.cpu) = {}
  BY <1>2 DEF Move
<1>3. CASE Matching(j.cpu) # {}
  <2>1. PICK d : /\ d = list[First(Matching(j.cpu))]
                 /\ d \in Cpus /\ PolicyOf[d] = PolicyOf[j.cpu] /\ Leads(d)
    BY <1>1, <1>3, FoundLeads DEF IInv
  <2>2. SetLevel(d, Target(d, j, at))
    BY <1>3, <2>1 DEF Move
  <2>3. Target(d, j, at) \in Nat
    BY <1>1, <2>1, TargetWithinStep
  <2>4. qos[d] = Table[d][level[d]] /\ MaxLevel(d) \in Nat
    BY <2>1, TableProperties DEF IInv, Held, Leads
  <2> DEFINE t == Target(d, j, at)
             l == IF t > MaxLevel(d) THEN level[d] ELSE t
  <2> HIDE DEF t, j
  <2>5. /\ l \in 0 .. MaxLevel(d)
        /\ l = t \/ (l = level[d] /\ t > MaxLevel(d))
    BY <1>1, <2>1, <2>3, <2>4 DEF t
  <2>6. level' = [level EXCEPT ![d] = l] /\ qos' = [qos EXCEPT ![d] = Table[d][l]]
    <3>1. CASE t > MaxLevel(d)
      BY <1>1, <2>1, <2>2, <2>4, <3>1 DEF SetLevel, t
    <3>2. CASE ~(t > MaxLevel(d))
      BY <1>1, <2>1, <2>2, <2>4, <3>2 DEF SetLevel, t
    <3>3. QED
      BY <3>1, <3>2
  <2> HIDE DEF l
  <2>7. Sets(k, at, d, l)
    BY <2>1, <2>5, <2>6 DEF Sets, t, j
  <2>8. QED
    BY <2>7
<1>4. QED
  BY <1>2, <1>3

\* Loading starts without devices.
LEMMA InitInvariant == Init => IInv
<1> SUFFICES ASSUME Init PROVE IInv
  OBVIOUS
<1>1. \A c \in Cpus : MaxLevel(c) \in Nat
  BY TableProperties
<1>2. TypeOK
  <2>1. list \in Seq(Cpus)
    BY DEF Init
  <2>2. Loaded /\ par \in Params /\ \A s \in Sensors : sensor[s] \in Readings[s]
    BY DEF Init, Loaded
  <2>3. \A c \in Cpus : level[c] \in 0 .. MaxLevel(c) /\ qos[c] \in NotAdded .. UintMax
    BY <1>1, LimitsAssumption DEF Init, NotAdded
  <2>4. \A k \in Callers : job[k] = Idle
    BY DEF Init
  <2>5. QED
    BY <2>1, <2>2, <2>3, <2>4 DEF TypeOK
<1>3. Typed
  <2>1. /\ DOMAIN level = Cpus /\ level \in [Cpus -> Nat]
        /\ qos \in [Cpus -> NotAdded .. UintMax]
    BY LimitsAssumption DEF Init, NotAdded
  <2>2. sensor = [s \in Sensors |-> sensor[s]] /\ job = [k \in Callers |-> job[k]]
    BY DEF Init
  <2>3. \A k \in Callers : job[k] = Idle
    BY DEF Init
  <2>4. QED
    BY <1>2, <2>1, <2>2, <2>3 DEF Typed
<1>4. list = <<>> /\ Len(list) = 0 /\ DOMAIN list = {}
  BY DEF Init
<1>5. Listed
  BY <1>4, LimitsAssumption DEF Listed
<1>6. Held
  <2>1. \A c \in Cpus : ~(c <= Len(list)) /\ qos[c] = NotAdded /\ level[c] = 0
    BY <1>4 DEF Init, Cpus
  <2>2. \A k \in Callers : job[k] = Idle
    BY DEF Init
  <2>3. QED
    BY <1>4, <2>1, <2>2 DEF Held
<1>7. QED
  BY <1>3, <1>5, <1>6 DEF IInv

\* A step that leaves devices and requests alone, and while loading starts no
\* job, keeps what they hold.
LEMMA QuietStep ==
  ASSUME IInv, UNCHANGED <<list, level, qos>>,
         phase' \in {"start", "probing"} =>
           phase \in {"start", "probing"} /\ UNCHANGED job,
         phase' = "gone" => phase = "gone"
  PROVE  Listed' /\ Held'
<1>1. Listed'
  BY DEF IInv, Listed
<1>2. Held'
  <2>1. \A c \in Cpus : Leads(c)' <=> Leads(c)
    BY DEF Leads
  <2>2. QED
    BY <2>1 DEF IInv, Held
<1>3. QED
  BY <1>1, <1>2

\* A move keeps the types.
LEMMA MoveTyped ==
  ASSUME IInv, NEW k \in Callers, NEW at, Loads(at), Move(k, at), par' \in Params
  PROVE  Typed'
<1>1. /\ TypeOK /\ DOMAIN level = Cpus /\ level \in [Cpus -> Nat]
      /\ qos \in [Cpus -> NotAdded .. UintMax]
      /\ sensor = [s \in Sensors |-> sensor[s]] /\ job = [c \in Callers |-> job[c]]
      /\ \A c \in Callers : job[c] # Idle => job[c].pct \in 0 .. UintMax
  BY DEF IInv, Typed
<1>2. UNCHANGED <<phase, list, sensor>> /\ job' = [job EXCEPT ![k] = Idle]
  BY DEF Move
<1>3. \A c \in Callers : job'[c] = IF c = k THEN Idle ELSE job[c]
  BY <1>1, <1>2
<1>4. job' = [c \in Callers |-> job'[c]]
  BY <1>1, <1>2
<1>5. /\ \A c \in Callers : job'[c] # Idle => job'[c].pct \in 0 .. UintMax
      /\ \A c \in Callers :
           job'[c] # Idle => job'[c].cpu \in Asked /\ job'[c].freq \in Freqs
  BY <1>1, <1>3 DEF TypeOK
<1> DEFINE Devs ==
             /\ level' \in [Cpus -> Nat] /\ DOMAIN level' = Cpus
             /\ qos' \in [Cpus -> NotAdded .. UintMax]
             /\ \A c \in Cpus : level'[c] \in 0 .. MaxLevel(c)
<1>6. Devs
  <2>1. \A c \in Cpus : level[c] \in 0 .. MaxLevel(c)
    BY <1>1 DEF TypeOK
  <2>2. CASE UNCHANGED <<level, qos>>
    BY <1>1, <2>1, <2>2
  <2>3. ASSUME NEW d, NEW l, Sets(k, at, d, l) PROVE Devs
    <3>1. /\ d \in Cpus /\ l \in 0 .. MaxLevel(d)
          /\ level' = [level EXCEPT ![d] = l]
          /\ qos' = [qos EXCEPT ![d] = Table[d][l]]
      BY <2>3 DEF Sets
    <3>2. MaxLevel(d) \in Nat /\ Table[d][l] \in 0 .. UintMax
      BY <3>1, TableProperties
    <3>3. level' \in [Cpus -> Nat] /\ DOMAIN level' = Cpus
      BY <1>1, <3>1, <3>2
    <3>4. \A c \in Cpus : level'[c] \in 0 .. MaxLevel(c)
      BY <1>1, <2>1, <3>1
    <3>5. qos' \in [Cpus -> NotAdded .. UintMax]
      BY <1>1, <3>1, <3>2 DEF NotAdded
    <3>6. QED
      BY <3>3, <3>4, <3>5
  <2>4. QED
    BY <2>2, <2>3, MoveSets
<1>7. TypeOK'
  <2>1. /\ (Loaded \/ phase \in {"gone", "failed"})'
        /\ list' \in Seq(Cpus)
        /\ \A s \in Sensors : sensor'[s] \in Readings[s]
    BY <1>1, <1>2 DEF TypeOK, Loaded
  <2>2. \A c \in Cpus : level'[c] \in 0 .. MaxLevel(c) /\ qos'[c] \in NotAdded .. UintMax
    BY <1>6
  <2>3. QED
    BY <1>5, <1>6, <2>1, <2>2 DEF TypeOK
<1>8. QED
  BY <1>1, <1>2, <1>4, <1>5, <1>6, <1>7 DEF Typed

\* A move keeps what the requests hold: the device it moves leads its policy.
LEMMA MoveHeld ==
  ASSUME IInv, NEW k \in Callers, NEW at, Loads(at), Move(k, at)
  PROVE  Held'
<1>1. UNCHANGED <<phase, list>> /\ job' = [job EXCEPT ![k] = Idle] /\ job[k] # Idle
  BY DEF Move
<1>2. \A c \in Cpus : Leads(c)' <=> Leads(c)
  BY <1>1 DEF Leads
<1>3. phase \notin {"start", "probing"}
  BY <1>1 DEF IInv, Held
<1> DEFINE Holds(c) ==
             /\ qos'[c] = IF c <= Len(list) THEN Table[c][level'[c]] ELSE NotAdded
             /\ c <= Len(list) /\ level'[c] > 0 => Leads(c)
<1>4. ASSUME NEW c \in Cpus PROVE Holds(c)
  <2>1. /\ qos[c] = IF c <= Len(list) THEN Table[c][level[c]] ELSE NotAdded
        /\ c <= Len(list) /\ level[c] > 0 => Leads(c)
    BY DEF IInv, Held
  <2>2. CASE UNCHANGED <<level, qos>>
    BY <2>1, <2>2
  <2>3. ASSUME NEW d, NEW l, Sets(k, at, d, l) PROVE Holds(c)
    <3>1. /\ d \in Cpus /\ Leads(d)
          /\ level' = [level EXCEPT ![d] = l]
          /\ qos' = [qos EXCEPT ![d] = Table[d][l]]
      BY <2>3 DEF Sets
    <3>2. level \in [Cpus -> Nat] /\ qos \in [Cpus -> NotAdded .. UintMax]
      BY DEF IInv, Typed
    <3>3. CASE c = d
      <4>1. level'[c] = l /\ qos'[c] = Table[c][l]
        BY <3>1, <3>2, <3>3
      <4>2. c <= Len(list) /\ Leads(c)
        BY <3>1, <3>3 DEF Leads
      <4>3. QED
        BY <4>1, <4>2
    <3>4. CASE c # d
      <4>1. level'[c] = level[c] /\ qos'[c] = qos[c]
        BY <3>1, <3>2, <3>4
      <4>2. QED
        BY <2>1, <4>1
    <3>5. QED
      BY <3>3, <3>4
  <2>4. QED
    BY <2>2, <2>3, MoveSets
<1>5. phase = "gone" => list = <<>>
  BY DEF IInv, Held
<1>6. QED
  BY <1>1, <1>2, <1>3, <1>4, <1>5 DEF Held

\* ProbeCpu adds the device of the next CPU at the head of the list.
LEMMA ProbeKeeps ==
  ASSUME IInv, ProbeCpu
  PROVE  IInv'
<1> DEFINE n == Len(list)
           c == Len(list) + 1
<1>1. /\ phase = "probing" /\ c \in Cpus /\ list' = <<c>> \o list
      /\ qos' = [qos EXCEPT ![c] = Table[c][0]]
      /\ UNCHANGED <<phase, level, par, sensor, job>>
  BY DEF ProbeCpu
<1>2. /\ TypeOK /\ list \in Seq(Cpus) /\ n \in Nat /\ NumCpus \in Nat
      /\ qos \in [Cpus -> NotAdded .. UintMax]
  BY LimitsAssumption DEF IInv, Typed, TypeOK
<1>3. /\ \A e \in Cpus : level[e] = 0
      /\ \A k \in Callers : job[k] = Idle
      /\ \A e \in Cpus : qos[e] = IF e <= n THEN Table[e][level[e]] ELSE NotAdded
  BY <1>1 DEF IInv, Held
<1>4. /\ list' \in Seq(Cpus) /\ Len(list') = c
      /\ \A i \in 1 .. c : list'[i] = IF i = 1 THEN c ELSE list[i - 1]
  BY <1>1, <1>2
<1>5. Table[c][0] \in 0 .. UintMax
  BY <1>1, TableProperties
<1>6. qos' \in [Cpus -> NotAdded .. UintMax]
  BY <1>1, <1>2, <1>5 DEF NotAdded
<1>7. Typed'
  <2>1. TypeOK'
    <3>1. \A e \in Cpus : level'[e] \in 0 .. MaxLevel(e) /\ qos'[e] \in NotAdded .. UintMax
      BY <1>1, <1>2, <1>6 DEF TypeOK
    <3>2. QED
      BY <1>1, <1>2, <1>4, <3>1 DEF TypeOK, Loaded
  <2>2. QED
    BY <1>1, <1>6, <2>1 DEF IInv, Typed
<1>8. Listed'
  <2>1. \A i \in 1 .. n : list[i] = n + 1 - i
    BY DEF IInv, Listed
  <2>2. ASSUME NEW i \in 1 .. c PROVE list'[i] = c + 1 - i
    <3>1. CASE i = 1
      BY <1>2, <1>4, <3>1
    <3>2. CASE i # 1
      <4>1. i - 1 \in 1 .. n
        BY <1>2, <3>2
      <4>2. list'[i] = list[i - 1] /\ list[i - 1] = n + 1 - (i - 1)
        BY <1>4, <2>1, <3>2, <4>1
      <4>3. QED
        BY <1>2, <4>2
    <3>3. QED
      BY <3>1, <3>2
  <2>3. QED
    BY <1>1, <1>2, <1>4, <2>2 DEF Listed, Cpus
<1>9. Held'
  <2>1. ASSUME NEW e \in Cpus
        PROVE  qos'[e] = IF e <= c THEN Table[e][level[e]] ELSE NotAdded
    <3>1. CASE e = c
      <4>1. qos'[e] = Table[c][0] /\ e <= c /\ level[e] = 0
        BY <1>1, <1>2, <1>3, <3>1
      <4>2. QED
        BY <3>1, <4>1
    <3>2. CASE e # c
      <4>1. qos'[e] = qos[e]
        BY <1>1, <1>2, <3>2
      <4>2. e <= n <=> e <= c
        <5>1. e \in Int /\ n \in Int /\ e # n + 1
          BY <1>2, <3>2 DEF Cpus
        <5> HIDE DEF n
        <5>2. e <= n <=> e <= n + 1
          BY <5>1
        <5>3. QED
          BY <5>2 DEF n
      <4>3. QED
        BY <1>3, <4>1, <4>2
    <3>3. QED
      BY <3>1, <3>2
  <2>2. \A e \in Cpus : level'[e] = 0
    BY <1>1, <1>3
  <2>3. QED
    BY <1>1, <1>3, <1>4, <2>1, <2>2 DEF Held
<1>10. QED
  BY <1>7, <1>8, <1>9 DEF IInv

\* Unload empties the list and removes the requests.
LEMMA UnloadKeeps ==
  ASSUME IInv, Unload
  PROVE  IInv'
<1>1. /\ phase' = "gone" /\ list' = <<>> /\ qos' = [c \in Cpus |-> NotAdded]
      /\ UNCHANGED <<level, par, sensor, job>>
  BY DEF Unload
<1>2. list' \in Seq(Cpus) /\ Len(list') = 0 /\ DOMAIN list' = {}
  BY <1>1
<1>3. qos' \in [Cpus -> NotAdded .. UintMax] /\ \A c \in Cpus : qos'[c] = NotAdded
  BY <1>1, LimitsAssumption DEF NotAdded
<1>4. Typed'
  <2>1. \A c \in Cpus : level'[c] \in 0 .. MaxLevel(c) /\ qos'[c] \in NotAdded .. UintMax
    BY <1>1, <1>3 DEF IInv, Typed, TypeOK
  <2>2. TypeOK'
    BY <1>1, <1>2, <2>1 DEF IInv, Typed, TypeOK
  <2>3. QED
    BY <1>1, <1>3, <2>2 DEF IInv, Typed
<1>5. Listed'
  BY <1>2, LimitsAssumption DEF Listed
<1>6. Held'
  <2>1. \A c \in Cpus : ~(c <= Len(list'))
    BY <1>2 DEF Cpus
  <2>2. QED
    BY <1>1, <1>3, <2>1 DEF Held
<1>7. QED
  BY <1>4, <1>5, <1>6 DEF IInv

\* The parameters a move loads, whether or not they are written meanwhile.
LEMMA MovesLoad ==
  ASSUME Typed, NEW k \in Callers,
         Apply(k) \/ \E p \in Params, early \in BOOLEAN : ApplyRaced(k, p, early)
  PROVE  \E at : /\ Loads(at) /\ Move(k, at) /\ par' \in Params
                 /\ at.test = par /\ at.assign = par'
                 /\ at.compare \in {par, par'}
<1>1. par \in Params
  BY DEF Typed, TypeOK
<1>2. CASE Apply(k)
  <2> DEFINE at == [test |-> par, compare |-> par, assign |-> par]
  <2>1. Move(k, at) /\ par' = par
    BY <1>2 DEF Apply
  <2>2. at.test = par /\ at.compare = par /\ at.assign = par
    OBVIOUS
  <2> HIDE DEF at
  <2>3. Loads(at)
    BY <1>1, <2>2 DEF Loads
  <2>4. QED
    BY <1>1, <2>1, <2>2, <2>3
<1>3. ASSUME NEW p \in Params, NEW early \in BOOLEAN, ApplyRaced(k, p, early)
      PROVE  \E at : /\ Loads(at) /\ Move(k, at) /\ par' \in Params
                     /\ at.test = par /\ at.assign = par'
                     /\ at.compare \in {par, par'}
  <2> DEFINE cmp == IF early THEN p ELSE par
             at == [test |-> par, compare |-> cmp, assign |-> p]
  <2>1. Move(k, at) /\ par' = p
    BY <1>3 DEF ApplyRaced
  <2>2. at.test = par /\ at.compare = cmp /\ at.assign = p /\ cmp \in {par, p}
    OBVIOUS
  <2> HIDE DEF at, cmp
  <2>3. Loads(at)
    BY <1>1, <2>2 DEF Loads
  <2>4. QED
    BY <1>1, <2>1, <2>2, <2>3
<1>4. QED
  BY <1>2, <1>3

\* Every step keeps the invariant.
LEMMA NextInvariant == IInv /\ [Next]_vars => IInv'
<1> SUFFICES ASSUME IInv, [Next]_vars PROVE IInv'
  OBVIOUS
<1> USE DEF IInv
<1>1. /\ TypeOK /\ Typed
      /\ sensor = [s \in Sensors |-> sensor[s]] /\ job = [k \in Callers |-> job[k]]
  BY DEF Typed
<1>2. ASSUME LoadStart \/ ProbeEnd \/ NodesDone \/ LoadFail PROVE IInv'
  <2>1. /\ UNCHANGED <<list, level, qos, par, sensor, job>>
        /\ phase' \in {"probing", "nodes", "running", "failed"}
        /\ phase' = "probing" => phase = "start"
    BY <1>2 DEF LoadStart, ProbeEnd, NodesDone, LoadFail
  <2>2. TypeOK'
    BY <1>1, <2>1 DEF TypeOK, Loaded
  <2>3. Typed'
    BY <2>1, <2>2 DEF Typed
  <2>4. QED
    BY <2>1, <2>3, QuietStep
<1>3. ASSUME NEW p \in Params, SetParams(p) PROVE IInv'
  <2>1. UNCHANGED <<phase, list, level, qos, sensor, job>> /\ par' \in Params
    BY <1>3 DEF SetParams
  <2>2. TypeOK'
    BY <1>1, <2>1 DEF TypeOK, Loaded
  <2>3. Typed'
    BY <2>1, <2>2 DEF Typed
  <2>4. QED
    BY <2>1, <2>3, QuietStep
<1>4. ASSUME NEW s \in Sensors, NEW v \in Readings[s], SensorChange(s, v) PROVE IInv'
  <2>1. /\ UNCHANGED <<phase, list, level, qos, par, job>>
        /\ sensor' = [sensor EXCEPT ![s] = v]
    BY <1>4 DEF SensorChange
  <2>2. /\ sensor' = [x \in Sensors |-> sensor'[x]]
        /\ \A x \in Sensors : sensor'[x] = IF x = s THEN v ELSE sensor[x]
    BY <1>1, <2>1
  <2>3. \A x \in Sensors : sensor'[x] \in Readings[x]
    BY <1>1, <2>2 DEF TypeOK
  <2>4. TypeOK'
    BY <1>1, <2>1, <2>3 DEF TypeOK, Loaded
  <2>5. Typed'
    BY <2>1, <2>2, <2>4 DEF Typed
  <2>6. QED
    BY <2>1, <2>5, QuietStep
<1>5. ASSUME NEW k \in Callers, NEW c \in Asked, NEW f \in Freqs, Request(k, c, f)
      PROVE  IInv'
  <2>1. /\ UNCHANGED <<phase, list, level, qos, par, sensor>>
        /\ phase \notin {"start", "probing"}
    BY <1>5 DEF Request, NodesThere
  <2>2. FloorPct(DeviceTemp) \in 0 .. UintMax
    <3>1. par \in Params
      BY <1>1 DEF TypeOK
    <3>2. par.crit_floor \in 0 .. UintMax /\ par.hot_floor \in 0 .. UintMax
          /\ par.floor \in 0 .. UintMax
      BY <3>1, LimitsAssumption
    <3>3. QED
      BY <3>2 DEF FloorPct
  <2>3. PICK j : /\ job' = [job EXCEPT ![k] = j]
                 /\ j.cpu = c /\ j.freq = f /\ j.pct = FloorPct(DeviceTemp)
    <3> DEFINE r == [cpu |-> c, freq |-> f, temp |-> DeviceTemp,
                     pct |-> FloorPct(DeviceTemp)]
    <3>1. job' = [job EXCEPT ![k] = r]
      BY <1>5 DEF Request
    <3>2. r.cpu = c /\ r.freq = f /\ r.pct = FloorPct(DeviceTemp)
      OBVIOUS
    <3> HIDE DEF r
    <3>3. QED
      BY <3>1, <3>2
  <2>4. /\ job' = [x \in Callers |-> job'[x]]
        /\ \A x \in Callers : job'[x] = IF x = k THEN j ELSE job[x]
    BY <1>1, <2>3
  <2>5. \A x \in Callers :
          job'[x] # Idle => /\ job'[x].cpu \in Asked /\ job'[x].freq \in Freqs
                            /\ job'[x].pct \in 0 .. UintMax
    BY <1>1, <2>2, <2>3, <2>4 DEF TypeOK, Typed
  <2>6. TypeOK'
    BY <1>1, <2>1, <2>5 DEF TypeOK, Loaded
  <2>7. Typed'
    BY <2>1, <2>4, <2>5, <2>6 DEF Typed
  <2>8. QED
    BY <2>1, <2>7, QuietStep
<1>6. ASSUME NEW k \in Callers,
             Apply(k) \/ \E p \in Params, early \in BOOLEAN : ApplyRaced(k, p, early)
      PROVE  IInv'
  <2>1. PICK at : Loads(at) /\ Move(k, at) /\ par' \in Params
    BY <1>1, <1>6, MovesLoad
  <2>2. Typed' /\ Held'
    BY <2>1, MoveTyped, MoveHeld
  <2>3. Listed'
    <3>1. UNCHANGED list
      BY <2>1 DEF Move
    <3>2. QED
      BY <3>1 DEF Listed
  <2>4. QED
    BY <2>2, <2>3
<1>7. CASE UNCHANGED vars
  <2>1. TypeOK'
    BY <1>1, <1>7 DEF vars, TypeOK, Loaded
  <2>2. Typed'
    BY <1>7, <2>1 DEF vars, Typed
  <2>3. QED
    BY <1>7, <2>2, QuietStep DEF vars
<1>8. QED
  BY <1>2, <1>3, <1>4, <1>5, <1>6, <1>7, ProbeKeeps, UnloadKeeps DEF Next

\* The inductive invariant holds throughout.
LEMMA Invariant == Spec => []IInv
<1>1. QED
  BY InitInvariant, NextInvariant, PTL DEF Spec

\* Types: no level is beyond its table although the step limit may wrap or be
\* written between two loads, and every request holds an unsigned int.
THEOREM TypeCorrect == Spec => []TypeOK
<1>1. IInv => TypeOK
  BY DEF IInv, Typed
<1>2. QED
  BY <1>1, Invariant, PTL

\* A cap in force is on the device that a request for its policy finds, while
\* there is a node to send the request to, unless the load failed.
THEOREM CapsReleasable == Spec => []CapIsReleasable
<1>1. ASSUME IInv, NEW c \in Cpus, qos[c] \notin {NotAdded, Table[c][0]}, phase # "failed"
      PROVE  NodesThere /\ Matching(c) # {} /\ list[First(Matching(c))] = c
  <2>1. /\ qos[c] = IF c <= Len(list) THEN Table[c][level[c]] ELSE NotAdded
        /\ c <= Len(list) /\ level[c] > 0 => Leads(c)
        /\ phase \in {"start", "probing"} => level[c] = 0
        /\ phase = "gone" => list = <<>>
    BY <1>1 DEF IInv, Held
  <2>2. /\ TypeOK /\ level[c] \in Nat /\ list \in Seq(Cpus) /\ Listed
    BY <1>1 DEF IInv, Typed, TypeOK
  <2>3. c <= Len(list) /\ level[c] # 0
    BY <1>1, <2>1
  <2>4. Leads(c)
    BY <2>1, <2>2, <2>3
  <2>5. NodesThere
    <3>1. phase # "gone"
      <4>1. list # <<>>
        BY <2>2, <2>3 DEF Cpus
      <4>2. QED
        BY <2>1, <4>1
    <3>2. QED
      BY <1>1, <2>1, <2>2, <2>3, <3>1 DEF TypeOK, Loaded, NodesThere
  <2>6. Matching(c) # {}
    BY <2>2, <2>3, NoneFound
  <2>7. PICK d : /\ d = list[First(Matching(c))]
                 /\ d \in Cpus /\ PolicyOf[d] = PolicyOf[c] /\ Leads(d)
    BY <2>2, <2>6, FoundLeads
  <2>8. c <= d /\ d <= c
    BY <2>3, <2>4, <2>7 DEF Leads
  <2>9. d = c
    BY <2>7, <2>8 DEF Cpus
  <2>10. QED
    BY <2>5, <2>6, <2>7, <2>9
<1>2. IInv => CapIsReleasable
  BY <1>1 DEF CapIsReleasable
<1>3. QED
  BY <1>2, Invariant, PTL

-----------------------------------------------------------------------------
\* A caller's job ends only in its own move.
LEMMA MoveOfCaller ==
  ASSUME IInv, [Next]_vars, NEW k \in Callers, Moves(k)
  PROVE  \E at : /\ Loads(at) /\ Move(k, at)
                 /\ at.test = par /\ at.assign = par'
                 /\ at.compare \in {par, par'}
<1>1. job[k] # Idle /\ job'[k] = Idle /\ job'[k] # job[k]
  BY DEF Moves
<1>2. job = [x \in Callers |-> job[x]] /\ Typed
  BY DEF IInv, Typed
<1>3. ~UNCHANGED job
  BY <1>1
<1>4. PICK x \in Callers :
        \/ Apply(x)
        \/ \E p \in Params, early \in BOOLEAN : ApplyRaced(x, p, early)
        \/ \E c \in Asked, f \in Freqs : Request(x, c, f)
  BY <1>3 DEF Next, vars, LoadStart, ProbeCpu, ProbeEnd, NodesDone, LoadFail,
              Unload, SetParams, SensorChange
<1>5. CASE \E c \in Asked, f \in Freqs : Request(x, c, f)
  <2>1. job[x] = Idle /\ \A y \in Callers : y # x => job'[y] = job[y]
    BY <1>2, <1>5 DEF Request
  <2>2. QED
    BY <1>1, <2>1
<1>6. CASE Apply(x) \/ \E p \in Params, early \in BOOLEAN : ApplyRaced(x, p, early)
  <2>1. PICK at : /\ Loads(at) /\ Move(x, at)
                  /\ at.test = par /\ at.assign = par'
                  /\ at.compare \in {par, par'}
    BY <1>2, <1>6, MovesLoad
  <2>2. job' = [job EXCEPT ![x] = Idle]
    BY <2>1 DEF Move
  <2>3. x = k
    BY <1>1, <1>2, <2>2
  <2>4. QED
    BY <2>1, <2>3
<1>7. QED
  BY <1>4, <1>5, <1>6

\* Below hot_temp, before and after the move, an update deepens a device by at
\* most max_step levels, or sets it to its deepest level as nothing fits.
LEMMA StepsLimited ==
  ASSUME IInv, [Next]_vars, NEW k \in Callers, NEW d \in Cpus, Moves(k),
         job[k].temp < Signed(par.hot_temp), job[k].temp < Signed(par'.hot_temp), par.step # 0
  PROVE  \/ level'[d] <= level[d] + par.step
         \/ level'[d] <= level[d] + par'.step
         \/ Fitting(d, job[k].freq, job[k].pct) = {} /\ level'[d] = MaxLevel(d)
<1>1. PICK at : /\ Loads(at) /\ Move(k, at)
                /\ at.test = par /\ at.assign = par'
                /\ at.compare \in {par, par'}
  BY MoveOfCaller
<1>2. /\ level \in [Cpus -> Nat] /\ job[k] # Idle
      /\ job[k].freq \in Nat /\ job[k].pct \in Nat
  BY JobTypes DEF IInv, Typed, Moves
<1>3. par.step \in Nat /\ par'.step \in Nat
  BY <1>1, <1>2, StepLimitProperties DEF Loads
<1>4. CASE level'[d] = level[d]
  BY <1>2, <1>3, <1>4
<1>5. ASSUME NEW e, NEW l, Sets(k, at, e, l), level'[d] # level[d]
      PROVE  \/ level'[d] <= level[d] + par.step
             \/ level'[d] <= level[d] + par'.step
             \/ Fitting(d, job[k].freq, job[k].pct) = {} /\ level'[d] = MaxLevel(d)
  <2>1. level' = [level EXCEPT ![e] = l] /\ e \in Cpus
    BY <1>5 DEF Sets
  <2>2. e = d /\ level'[d] = l
    BY <1>2, <1>5, <2>1
  <2>3. l = Target(d, job[k], at)
    BY <1>5, <2>2 DEF Sets
  <2>4. job[k].temp < Signed(at.compare.hot_temp) /\ at.test.step # 0
    BY <1>1
  <2>5. \/ Target(d, job[k], at) <= level[d] + at.compare.step
        \/ Target(d, job[k], at) <= level[d] + at.assign.step
        \/ /\ Fitting(d, job[k].freq, job[k].pct) = {}
           /\ Target(d, job[k], at) = MaxLevel(d)
    BY <1>1, <1>2, <2>4, TargetWithinStep
  <2>6. QED
    BY <1>1, <2>2, <2>3, <2>5
<1>6. QED
  BY <1>1, <1>4, <1>5, MoveSets

\* StepIsLimited holds of every step, whoever else moves or writes meanwhile.
THEOREM StepsAreLimited == Spec => StepIsLimited
<1>1. IInv /\ [Next]_vars =>
        [\A k \in Callers :
           /\ Moves(k) /\ par.step # 0 /\ par'.step # 0
           /\ job[k].temp < Signed(par.hot_temp) /\ job[k].temp < Signed(par'.hot_temp)
           => \A d \in Cpus :
                \/ level'[d] <= level[d] + par.step
                \/ level'[d] <= level[d] + par'.step
                \/ /\ Fitting(d, job[k].freq, job[k].pct) = {}
                   /\ level'[d] = MaxLevel(d)]_vars
  BY StepsLimited
<1>2. QED
  BY <1>1, Invariant, PTL DEF Spec, StepIsLimited

\* A request lightens a device only if asked to, or to a sum that wraps.
LEMMA LightensAsked ==
  ASSUME IInv, [Next]_vars, NEW k \in Callers, NEW d \in Cpus, Moves(k),
         level'[d] < level[d]
  PROVE  \/ job[k].freq = 0
         \/ level[d] - 1 \in Fitting(d, job[k].freq, job[k].pct)
         \/ level'[d] = StepLimit(d, par'.step)
<1>1. PICK at : Loads(at) /\ Move(k, at) /\ at.assign = par'
  BY MoveOfCaller
<1>2. /\ level \in [Cpus -> Nat] /\ job[k] # Idle
      /\ job[k].freq \in Nat /\ job[k].pct \in Nat
      /\ level[d] \in 0 .. MaxLevel(d)
  BY JobTypes DEF IInv, Typed, TypeOK, Moves
<1>3. level'[d] # level[d]
  BY <1>2
<1>4. ASSUME NEW e, NEW l, Sets(k, at, e, l)
      PROVE  level'[d] = Target(d, job[k], at)
  <2>1. level' = [level EXCEPT ![e] = l] /\ e \in Cpus
    BY <1>4 DEF Sets
  <2>2. e = d /\ level'[d] = l
    BY <1>2, <1>3, <2>1
  <2>3. l = Target(d, job[k], at)
    BY <1>3, <1>4, <2>2 DEF Sets
  <2>4. QED
    BY <2>2, <2>3
<1>5. level'[d] = Target(d, job[k], at)
  BY <1>1, <1>3, <1>4, MoveSets
<1>6. QED
  BY <1>1, <1>2, <1>5, TargetLightens

\* LightensOnlyWhenAsked holds of every step.
THEOREM LightensOnlyAsked == Spec => LightensOnlyWhenAsked
<1>1. IInv /\ [Next]_vars =>
        [\A k \in Callers :
           Moves(k) /\ job[k].freq # 0
             => \A d \in Cpus :
                  level'[d] < level[d]
                    => \/ level[d] - 1 \in Fitting(d, job[k].freq, job[k].pct)
                       \/ level'[d] = StepLimit(d, par'.step)]_vars
  BY LightensAsked
<1>2. QED
  BY <1>1, Invariant, PTL DEF Spec, LightensOnlyWhenAsked

\* A release takes the caps of all CPUs of the policy: the device it moves
\* leads the policy, and the others are at their top level.
LEMMA ReleaseUncaps ==
  ASSUME IInv, [Next]_vars, NEW k \in Callers, Moves(k), job[k].freq = 0,
         NEW d \in Devices, PolicyOf[d] = PolicyOf[job[k].cpu]
  PROVE  qos'[d] = Table[d][0]
<1>1. PICK at : Loads(at) /\ Move(k, at)
  BY MoveOfCaller
<1>2. /\ level \in [Cpus -> Nat] /\ qos \in [Cpus -> NotAdded .. UintMax]
      /\ list \in Seq(Cpus) /\ Listed /\ job[k] # Idle
      /\ job[k].cpu \in Cpus /\ job[k].freq \in Nat /\ job[k].pct \in Nat
  BY JobTypes DEF IInv, Typed, TypeOK, Moves
<1>3. d \in Cpus /\ d <= Len(list)
  <2>1. PICK i \in 1 .. Len(list) : d = list[i]
    BY <1>2 DEF Devices
  <2>2. d = Len(list) + 1 - i /\ Len(list) \in Nat /\ d \in Cpus
    BY <1>2, <2>1 DEF Listed
  <2>3. QED
    BY <2>2
<1>4. /\ qos[d] = Table[d][level[d]]
      /\ level[d] > 0 => Leads(d)
  BY <1>3 DEF IInv, Held
<1>5. Matching(job[k].cpu) # {}
  BY <1>2, <1>3, NoneFound
<1>6. PICK e, l : Sets(k, at, e, l)
  BY <1>1, <1>5, MoveSets
<1>7. /\ e \in Cpus /\ PolicyOf[e] = PolicyOf[job[k].cpu] /\ Leads(e)
      /\ qos' = [qos EXCEPT ![e] = Table[e][l]] /\ l \in Nat
      /\ MaxLevel(e) \in Nat
  BY <1>6, TableProperties DEF Sets
<1>8. Target(e, job[k], at) = 0
  BY DEF Target
<1>9. l = 0
  BY <1>6, <1>7, <1>8 DEF Sets
<1>10. CASE d = e
  BY <1>2, <1>7, <1>9, <1>10
<1>11. CASE d # e
  <2>1. qos'[d] = qos[d]
    BY <1>2, <1>3, <1>7, <1>11
  <2>2. ASSUME Leads(d) PROVE FALSE
    <3>1. e <= d /\ d <= e
      BY <1>3, <1>7, <2>2 DEF Leads
    <3>2. QED
      BY <1>3, <1>7, <1>11, <3>1 DEF Cpus
  <2>3. level[d] = 0
    BY <1>2, <1>3, <1>4, <2>2
  <2>4. QED
    BY <1>4, <2>1, <2>3
<1>12. QED
  BY <1>10, <1>11

\* ReleaseUncapsPolicy holds of every step, for any sharing of policies and
\* any number of devices probed.
THEOREM ReleasesUncapPolicy == Spec => ReleaseUncapsPolicy
<1>1. IInv /\ [Next]_vars =>
        [\A k \in Callers :
           Moves(k) /\ job[k].freq = 0
             => \A d \in Devices :
                  PolicyOf[d] = PolicyOf[job[k].cpu] => qos'[d] = Table[d][0]]_vars
  BY ReleaseUncaps
<1>2. QED
  BY <1>1, Invariant, PTL DEF Spec, ReleaseUncapsPolicy
=============================================================================
