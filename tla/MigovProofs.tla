---------------------------- MODULE MigovProofs ----------------------------
(***************************************************************************)
(* Proofs about Migov, for any CPUs, policies and memory.                  *)
(***************************************************************************)
EXTENDS Migov, TLAPS

IInv == TypeOK /\ MemoryIsAccountedFor /\ GovernedSeesOwn

-----------------------------------------------------------------------------
\* MemoryIsAccountedFor, elementwise: what is in use is owned, what is owned
\* is in use, by one policy.
LEMMA Accounted ==
  MemoryIsAccountedFor <=>
    /\ \A x \in heap : \E p \in Policies : x \in OwnedBy(p)
    /\ \A p \in Policies : OwnedBy(p) \subseteq heap
    /\ \A p, q \in Policies : p # q => OwnedBy(p) \cap OwnedBy(q) = {}
BY DEF MemoryIsAccountedFor

\* The same in the next state.
LEMMA AccountedAfter ==
  MemoryIsAccountedFor' <=>
    /\ \A x \in heap' : \E p \in Policies : x \in OwnedBy(p)'
    /\ \A p \in Policies : OwnedBy(p)' \subseteq heap'
    /\ \A p, q \in Policies : p # q => OwnedBy(p)' \cap OwnedBy(q)' = {}
BY DEF MemoryIsAccountedFor

\* A policy the governor is attached to has its structure in use.
LEMMA StructureInUse ==
  ASSUME IInv, NEW p \in Policies, state[p] # "none"
  PROVE  /\ governor_data[p] \in heap /\ governor_data[p] \in Memory
         /\ governor_data[p] # Null
         /\ OwnedBy(p) = {governor_data[p], tunables[governor_data[p]]}
<1>1. governor_data[p] # Null
  BY DEF IInv, TypeOK
<1>2. OwnedBy(p) = {governor_data[p], tunables[governor_data[p]]}
  BY <1>1 DEF OwnedBy
<1>3. governor_data[p] \in heap
  BY <1>2, Accounted DEF IInv
<1>4. QED
  BY <1>1, <1>2, <1>3 DEF IInv, TypeOK

\* Before the governor is attached to any policy nothing is allocated.
LEMMA InitIInv == Init => IInv
<1> SUFFICES ASSUME Init PROVE IInv
  OBVIOUS
<1>1. TypeOK
  BY GovAssumption DEF Init, TypeOK
<1>2. \A p \in Policies : OwnedBy(p) = {}
  BY DEF Init, OwnedBy
<1>3. MemoryIsAccountedFor
  BY <1>2, Accounted DEF Init
<1>4. GovernedSeesOwn
  BY DEF Init, GovernedSeesOwn
<1>5. QED
  BY <1>1, <1>3, <1>4 DEF IInv

(***************************************************************************)
(* Every step of the governor, the core and the user keeps the invariant.  *)
(* The three parts need each other: the structure a CPU points at is in    *)
(* use because its policy owns it, and what one policy frees is no other's *)
(* because no two own the same memory.                                     *)
(***************************************************************************)
LEMMA NextIInv == IInv /\ [Next]_vars => IInv'
<1> SUFFICES ASSUME IInv, [Next]_vars PROVE IInv'
  OBVIOUS
<1> USE GovAssumption DEF IInv, memVars
<1>1. ASSUME NEW p \in Policies, NEW a \in Memory, NEW t \in Memory, GovInit(p, a, t)
      PROVE  IInv'
  <2>1. TypeOK'
    BY <1>1 DEF GovInit, TypeOK
  <2>2. OwnedBy(p)' = {a, t} /\ OwnedBy(p) = {}
    BY <1>1 DEF GovInit, OwnedBy, TypeOK
  <2>3. \A q \in Policies \ {p} : OwnedBy(q)' = OwnedBy(q)
    <3> SUFFICES ASSUME NEW q \in Policies \ {p} PROVE OwnedBy(q)' = OwnedBy(q)
      OBVIOUS
    <3>1. governor_data'[q] = governor_data[q]
      BY <1>1 DEF GovInit, TypeOK
    <3>2. CASE governor_data[q] = Null
      BY <3>1, <3>2 DEF OwnedBy
    <3>3. CASE governor_data[q] # Null
      <4>1. governor_data[q] \in heap /\ governor_data[q] \in Memory
        BY <3>3, StructureInUse DEF TypeOK
      <4>2. governor_data[q] # a
        BY <1>1, <4>1 DEF GovInit
      <4>3. tunables'[governor_data[q]] = tunables[governor_data[q]]
        BY <1>1, <4>1, <4>2 DEF GovInit, TypeOK
      <4>4. QED
        BY <3>1, <4>3 DEF OwnedBy
    <3>4. QED
      BY <3>2, <3>3
  <2>4. MemoryIsAccountedFor'
    <3>1. heap' = heap \cup {a, t} /\ a \notin heap /\ t \notin heap
      BY <1>1 DEF GovInit
    <3>2. \A x \in heap' : \E q \in Policies : x \in OwnedBy(q)'
      <4>1. \A x \in heap : \E q \in Policies \ {p} : x \in OwnedBy(q)
        BY <2>2, Accounted
      <4>2. QED
        BY <2>2, <2>3, <3>1, <4>1
    <3>3. \A q \in Policies : OwnedBy(q)' \subseteq heap'
      BY <2>2, <2>3, <3>1, Accounted
    <3>4. \A q, r \in Policies : q # r => OwnedBy(q)' \cap OwnedBy(r)' = {}
      <4>1. \A q \in Policies \ {p} : OwnedBy(q)' \cap {a, t} = {}
        BY <2>3, <3>1, Accounted
      <4>2. \A q, r \in Policies \ {p} : q # r => OwnedBy(q)' \cap OwnedBy(r)' = {}
        BY <2>3, Accounted
      <4>3. QED
        BY <2>2, <4>1, <4>2
    <3>5. QED
      BY <3>2, <3>3, <3>4, AccountedAfter
  <2>5. GovernedSeesOwn'
    BY <1>1 DEF GovInit, GovernedSeesOwn, CpusOf, TypeOK
  <2>6. QED
    BY <2>1, <2>4, <2>5
<1>2. ASSUME NEW p \in Policies, GovExit(p)
      PROVE  IInv'
  <2>1. /\ governor_data[p] \in Memory /\ governor_data[p] # Null
        /\ OwnedBy(p) = {governor_data[p], tunables[governor_data[p]]}
        /\ heap' = heap \ OwnedBy(p)
    BY <1>2, StructureInUse DEF GovExit
  <2>2. TypeOK'
    BY <1>2 DEF GovExit, TypeOK
  <2>3. OwnedBy(p)' = {}
    BY <1>2 DEF GovExit, OwnedBy, TypeOK
  <2>4. \A q \in Policies \ {p} : OwnedBy(q)' = OwnedBy(q)
    <3> SUFFICES ASSUME NEW q \in Policies \ {p} PROVE OwnedBy(q)' = OwnedBy(q)
      OBVIOUS
    <3>1. governor_data'[q] = governor_data[q]
      BY <1>2 DEF GovExit, TypeOK
    <3>2. CASE governor_data[q] = Null
      BY <3>1, <3>2 DEF OwnedBy
    <3>3. CASE governor_data[q] # Null
      <4>1. governor_data[q] \in OwnedBy(q) /\ governor_data[q] \in Memory
        BY <3>3 DEF OwnedBy, TypeOK
      <4>2. governor_data[q] # governor_data[p]
        BY <2>1, <4>1, Accounted
      <4>3. tunables'[governor_data[q]] = tunables[governor_data[q]]
        BY <1>2, <4>1, <4>2 DEF GovExit, TypeOK
      <4>4. QED
        BY <3>1, <4>3 DEF OwnedBy
    <3>4. QED
      BY <3>2, <3>3
  <2>5. MemoryIsAccountedFor'
    <3>1. \A x \in heap' : \E q \in Policies : x \in OwnedBy(q)'
      BY <2>1, <2>4, Accounted
    <3>2. \A q \in Policies : OwnedBy(q)' \subseteq heap'
      BY <2>1, <2>3, <2>4, Accounted
    <3>3. \A q, r \in Policies : q # r => OwnedBy(q)' \cap OwnedBy(r)' = {}
      BY <2>3, <2>4, Accounted
    <3>4. QED
      BY <3>1, <3>2, <3>3, AccountedAfter
  <2>6. GovernedSeesOwn'
    <3>1. ASSUME NEW q \in Policies, state'[q] = "started", NEW c \in CpusOf(q)'
          PROVE  mg_policy'[c] = governor_data'[q] /\ mg_policy'[c] \in heap'
      <4>1. q # p /\ state[q] = "started" /\ governor_data'[q] = governor_data[q]
        BY <1>2, <3>1 DEF GovExit, TypeOK
      <4>2. c \in CpusOf(q) /\ mg_policy' = mg_policy
        BY <1>2, <3>1 DEF GovExit, CpusOf
      <4>3. mg_policy[c] = governor_data[q]
        BY <4>1, <4>2 DEF GovernedSeesOwn
      <4>4. governor_data[q] \in OwnedBy(q)'
        BY <2>4, <4>1, StructureInUse
      <4>5. governor_data[q] \in heap'
        BY <2>5, <4>4, AccountedAfter
      <4>6. QED
        BY <4>1, <4>2, <4>3, <4>5
    <3>2. QED
      BY <3>1 DEF GovernedSeesOwn
  <2>7. QED
    BY <2>2, <2>5, <2>6
<1>3. ASSUME NEW p \in Policies, GovStart(p)
      PROVE  IInv'
  <2>1. TypeOK'
    BY <1>3 DEF GovStart, TypeOK
  <2>2. MemoryIsAccountedFor'
    BY <1>3 DEF GovStart, MemoryIsAccountedFor, OwnedBy
  <2>3. governor_data[p] \in heap
    BY <1>3, StructureInUse DEF GovStart
  <2>4. \A q \in Policies : CpusOf(q)' = CpusOf(q)
    BY <1>3 DEF GovStart, CpusOf
  <2>5. ASSUME NEW q \in Policies, state'[q] = "started", NEW c \in CpusOf(q)
        PROVE  mg_policy'[c] = governor_data[q] /\ mg_policy'[c] \in heap
    <3>0. c \in Cpus
      BY DEF CpusOf, TypeOK
    <3>1. CASE q = p
      BY <1>3, <2>3, <3>0, <3>1 DEF GovStart
    <3>2. CASE q # p
      <4>1. state[q] = "started" /\ c \notin CpusOf(p)
        BY <1>3, <2>5, <3>2 DEF GovStart, TypeOK, CpusOf
      <4>2. mg_policy'[c] = mg_policy[c]
        BY <1>3, <3>0, <4>1 DEF GovStart
      <4>3. QED
        BY <4>1, <4>2 DEF GovernedSeesOwn
    <3>3. QED
      BY <3>1, <3>2
  <2>6. GovernedSeesOwn'
    BY <1>3, <2>4, <2>5 DEF GovStart, GovernedSeesOwn
  <2>7. QED
    BY <2>1, <2>2, <2>6
<1>4. ASSUME NEW p \in Policies, GovStop(p)
      PROVE  IInv'
  <2>1. TypeOK'
    BY <1>4 DEF GovStop, TypeOK
  <2>2. MemoryIsAccountedFor'
    BY <1>4 DEF GovStop, MemoryIsAccountedFor, OwnedBy
  <2>3. GovernedSeesOwn'
    BY <1>4 DEF GovStop, GovernedSeesOwn, CpusOf, TypeOK
  <2>4. QED
    BY <2>1, <2>2, <2>3
<1>5. ASSUME \/ \E p \in Policies, c \in Cpus, cur \in Freqs : GovLimits(p, c, cur)
             \/ \E c \in Cpus, val \in Freqs : WriteRecord(c, val)
      PROVE  IInv'
  <2>1. TypeOK'
    <3>1. mi_maxfreq' \in [Recorded -> Freqs \cup {0}]
      BY <1>5 DEF GovLimits, WriteRecord, TypeOK
    <3>2. UNCHANGED <<state, governor_data, tunables, heap, online, mg_policy>>
      BY <1>5 DEF GovLimits, WriteRecord
    <3>3. QED
      BY <3>1, <3>2 DEF TypeOK
  <2>2. MemoryIsAccountedFor'
    <3>1. UNCHANGED <<governor_data, tunables, heap>>
      BY <1>5 DEF GovLimits, WriteRecord
    <3>2. QED
      BY <3>1 DEF MemoryIsAccountedFor, OwnedBy
  <2>3. GovernedSeesOwn'
    BY <1>5 DEF GovLimits, WriteRecord, GovernedSeesOwn, CpusOf
  <2>4. QED
    BY <2>1, <2>2, <2>3
<1>6. ASSUME NEW c \in Cpus, Hotplug(c)
      PROVE  IInv'
  <2>1. TypeOK'
    BY <1>6 DEF Hotplug, TypeOK
  <2>2. MemoryIsAccountedFor'
    BY <1>6 DEF Hotplug, MemoryIsAccountedFor, OwnedBy
  <2>3. \A q \in Policies : state[q] = "started" => CpusOf(q)' = CpusOf(q)
    BY <1>6 DEF Hotplug, CpusOf
  <2>4. GovernedSeesOwn'
    BY <1>6, <2>3 DEF Hotplug, GovernedSeesOwn
  <2>5. QED
    BY <2>1, <2>2, <2>4
<1>7. CASE UNCHANGED vars
  <2>1. TypeOK' /\ MemoryIsAccountedFor'
    BY <1>7 DEF vars, TypeOK, MemoryIsAccountedFor, OwnedBy
  <2>2. GovernedSeesOwn'
    BY <1>7 DEF vars, GovernedSeesOwn, CpusOf
  <2>3. QED
    BY <2>1, <2>2
<1>8. QED
  BY <1>1, <1>2, <1>3, <1>4, <1>5, <1>6, <1>7 DEF Next

\* The inductive invariant holds in every state that can be reached.
LEMMA InvariantIInv == Spec => []IInv
BY InitIInv, NextIInv, PTL DEF Spec

\* The variables keep their types.
THEOREM TypeCorrect == Spec => []TypeOK
BY InvariantIInv, PTL DEF IInv

\* Stale per-CPU pointers are never those of a CPU that is governed.
THEOREM GovernedPointersFresh == Spec => []GovernedSeesOwn
BY InvariantIInv, PTL DEF IInv

\* init and exit leak nothing, free nothing twice and share nothing.
THEOREM MemoryAccounted == Spec => []MemoryIsAccountedFor
BY InvariantIInv, PTL DEF IInv
=============================================================================
