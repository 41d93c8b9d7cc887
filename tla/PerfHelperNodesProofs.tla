----------------------- MODULE PerfHelperNodesProofs -----------------------
(***************************************************************************)
(* Proofs about PerfHelperNodes, for any threads, buffer sizes and numbers *)
(* of writes and triggers.                                                 *)
(***************************************************************************)
EXTENDS PerfHelperNodes, TLAPS

\* A thread that holds the mutex of its node's family.
Inside(t) == pc[t] \in {"copy", "load", "store", "unlock"}
Mutex == \A t \in Threads : Inside(t) => lock[LockOf(node[t])] = t

\* The variables are functions, and a write has a text and blanks after it.
Text == [count : 0 .. LogSize, blanks : 0 .. 1]
Typed ==
  /\ TypeOK
  /\ buff = [d \in Nodes |-> buff[d]] /\ at \in [Threads -> Nat]
  /\ writes \in Seq(Text)
  /\ Len(writes) <= MaxWrites
  /\ \A i \in 1 .. Len(writes) : writes[i].blanks <= writes[i].count

\* Where the threads are in their handlers.
Working ==
  \A t \in Threads :
    /\ pc[t] \in {"lock", "copy", "load", "store", "unlock"} => msg[t] \in 1 .. Len(writes)
    /\ pc[t] = "lock" => at[t] = 1
    /\ pc[t] = "copy" => at[t] <= CopyLen(t) + 1
    /\ pc[t] \in {"show", "load", "store"} => node[t] = "global_reclaim"

\* The last byte of every buffer is NUL.
LastIsNul == \A d \in Nodes : buff[d][SizeOf(d)] = Nul

\* The bytes a writer has copied so far are its own.
Copied ==
  \A t \in Threads :
    pc[t] = "copy" =>
      \A i \in 1 .. at[t] - 1 : buff[node[t]][i] = ByteOf(msg[t], i)

\* Node d holds the beginning of one text.
OneText(d) ==
  \E m \in 0 .. Len(writes) : \A i \in TextOf(d) : buff[d][i] = ByteOf(m, i)

\* So does every node nobody is copying to, locked or not.
WholeTexts ==
  \A d \in Nodes : (\A t \in Threads : ~(pc[t] = "copy" /\ node[t] = d)) => OneText(d)

\* What the threads that are about to store have loaded.
Loaded ==
  \A t \in Threads :
    /\ pc[t] = "store" /\ triggers = 0 => seen[t] = reclaim_count
    /\ pc[t] \in {"store", "tstore"} => seen[t] <= done
    /\ pc[t] = "tstore" => triggers > 0

\* The inductive invariant.
BuffInv == Typed /\ Mutex /\ Working /\ LastIsNul /\ Copied /\ WholeTexts
CountInv == Loaded /\ CountLosesOnlyToTriggers
IInv == BuffInv /\ CountInv

-----------------------------------------------------------------------------
\* Every buffer has room for its NUL.
LEMMA SizeType ==
  ASSUME NEW d \in Nodes
  PROVE  SizeOf(d) \in Nat /\ SizeOf(d) >= 1 /\ 1 \in 1 .. SizeOf(d)
BY NodesAssumption DEF SizeOf

\* perf_helper_copy_user copies less than the buffer, and strim cuts inside.
LEMMA CopyLenType ==
  ASSUME Typed, NEW t \in Threads, msg[t] \in 1 .. Len(writes)
  PROVE  /\ CopyLen(t) \in Nat /\ CopyLen(t) + 1 <= SizeOf(node[t])
         /\ CopyLen(t) <= LogSize
         /\ KeptLen(t) \in Nat /\ KeptLen(t) <= CopyLen(t)
<1>1. node[t] \in Nodes
  BY DEF Typed, TypeOK
<1>2. SizeOf(node[t]) \in Nat /\ SizeOf(node[t]) >= 1 /\ LogSize \in Nat
  BY <1>1, SizeType, NodesAssumption
<1>3. /\ writes[msg[t]] \in [count : 0 .. LogSize, blanks : 0 .. 1]
      /\ writes[msg[t]].blanks <= writes[msg[t]].count
  <2>1. writes \in Seq(Text)
    BY DEF Typed
  <2>2. \A i \in 1 .. Len(writes) : writes[i].blanks <= writes[i].count
    BY DEF Typed
  <2>3. \A i \in 1 .. Len(writes) : writes[i] \in Text
    BY <2>1
  <2>4. QED
    BY <2>2, <2>3, Zenon DEF Text
<1>4. PICK count \in Nat, blanks \in Nat :
        /\ writes[msg[t]].count = count /\ writes[msg[t]].blanks = blanks
        /\ count <= LogSize /\ blanks <= count
  BY <1>2, <1>3
<1>5. CopyLen(t) = IF count < SizeOf(node[t]) THEN count ELSE SizeOf(node[t]) - 1
  BY <1>4 DEF CopyLen
<1>6. /\ CopyLen(t) \in Nat /\ CopyLen(t) + 1 <= SizeOf(node[t])
      /\ CopyLen(t) <= LogSize
  BY <1>2, <1>4, <1>5
<1>7. KeptLen(t) = IF count - blanks < CopyLen(t) THEN count - blanks ELSE CopyLen(t)
  BY <1>4 DEF KeptLen
<1>8. KeptLen(t) \in Nat /\ KeptLen(t) <= CopyLen(t)
  BY <1>4, <1>6, <1>7
<1>9. QED
  BY <1>6, <1>8

\* At load every buffer is empty.
LEMMA InitInvariant == Init => IInv
<1> SUFFICES ASSUME Init PROVE IInv
  OBVIOUS
<1>1. \A d \in Nodes : SizeOf(d) \in Nat /\ SizeOf(d) >= 1
  BY SizeType
<1>2. \A d \in Nodes : /\ buff[d] = [i \in 1 .. SizeOf(d) |-> Nul]
                       /\ \A i \in 1 .. SizeOf(d) : buff[d][i] = Nul
  BY DEF Init
<1>3. /\ pc = [t \in Threads |-> "idle"] /\ msg = [t \in Threads |-> 0]
      /\ node = [t \in Threads |-> "mimdlog"] /\ at = [t \in Threads |-> 1]
      /\ seen = [t \in Threads |-> 0] /\ lock = [l \in Locks |-> NoOwner]
      /\ writes = <<>> /\ reclaim_count = 0 /\ done = 0 /\ triggers = 0
  BY DEF Init
<1>4. /\ MaxWrites \in Nat /\ MaxTriggers \in Nat /\ LogSize \in Nat
      /\ "mimdlog" \in Nodes
  BY NodesAssumption DEF Nodes
<1>5. TypeOK
  <2>1. \A d \in Nodes : buff[d] \in
          [1 .. SizeOf(d) -> {Nul} \cup [msg : 1 .. MaxWrites, pos : 1 .. LogSize]]
    BY <1>2
  <2>2. \A t \in Threads : at[t] \in 1 .. SizeOf(node[t])
    BY <1>1, <1>3, <1>4
  <2>3. /\ msg \in [Threads -> 0 .. MaxWrites] /\ triggers \in 0 .. MaxTriggers
        /\ seen \in [Threads -> Nat] /\ reclaim_count \in Nat /\ done \in Nat
    BY <1>3, <1>4
  <2>4. QED
    BY <1>3, <1>4, <2>1, <2>2, <2>3 DEF TypeOK
<1>6. Typed
  <2>1. buff = [d \in Nodes |-> buff[d]] /\ at \in [Threads -> Nat]
    BY <1>3 DEF Init
  <2>2. /\ writes \in Seq(Text)
        /\ Len(writes) = 0
    BY <1>3
  <2>3. QED
    BY <1>4, <1>5, <2>1, <2>2 DEF Typed
<1>7. Mutex /\ Working /\ Copied /\ Loaded
  BY <1>3 DEF Mutex, Inside, Working, Copied, Loaded
<1>8. LastIsNul
  <2>1. \A d \in Nodes : SizeOf(d) \in 1 .. SizeOf(d)
    BY <1>1
  <2>2. QED
    BY <1>2, <2>1 DEF LastIsNul
<1>9. WholeTexts
  <2>1. ASSUME NEW d \in Nodes PROVE OneText(d)
    <3>1. TextOf(d) = {}
      <4>1. \A i \in 1 .. SizeOf(d) : i \in 1 .. i
        BY <1>1
      <4>2. QED
        BY <1>2, <4>1 DEF TextOf
    <3>2. 0 \in 0 .. Len(writes)
      BY <1>3
    <3>3. QED
      BY <3>1, <3>2 DEF OneText
  <2>2. QED
    BY <2>1 DEF WholeTexts
<1>10. CountLosesOnlyToTriggers
  BY <1>3 DEF CountLosesOnlyToTriggers
<1>11. QED
  BY <1>6, <1>7, <1>8, <1>9, <1>10 DEF IInv, BuffInv, CountInv

\* A text stays one while other writes are called.
LEMMA OneTextKept ==
  ASSUME Typed, NEW d \in Nodes, OneText(d), buff'[d] = buff[d],
         Len(writes') \in Nat, Len(writes) <= Len(writes')
  PROVE  OneText(d)'
<1>1. PICK m \in 0 .. Len(writes) : \A i \in TextOf(d) : buff[d][i] = ByteOf(m, i)
  BY DEF OneText
<1>2. TextOf(d)' = TextOf(d)
  BY DEF TextOf
<1>3. m \in 0 .. Len(writes')
  <2>1. Len(writes) \in Nat
    BY DEF Typed
  <2>2. QED
    BY <2>1
<1>4. QED
  BY <1>1, <1>2, <1>3 DEF OneText

\* Steps that leave the buffers and the threads that copy alone, but may let
\* one begin.
LEMMA Unwritten ==
  ASSUME BuffInv, UNCHANGED buff, Len(writes') \in Nat, Len(writes) <= Len(writes'),
         \A u \in Threads :
           pc[u] = "copy" => pc'[u] = "copy" /\ node'[u] = node[u]
                             /\ msg'[u] = msg[u] /\ at'[u] = at[u],
         \A u \in Threads : pc'[u] = "copy" => pc[u] = "copy" \/ at'[u] = 1
  PROVE  LastIsNul' /\ Copied' /\ WholeTexts'
<1>1. LastIsNul'
  BY DEF BuffInv, LastIsNul
<1>2. Copied'
  <2>1. ASSUME NEW u \in Threads, pc'[u] = "copy", NEW i \in 1 .. at'[u] - 1
        PROVE  buff'[node'[u]][i] = ByteOf(msg'[u], i)
    <3>1. pc[u] = "copy"
      <4>1. at'[u] = 1 => 1 .. at'[u] - 1 = {}
        OBVIOUS
      <4>2. QED
        BY <2>1, <4>1
    <3>2. QED
      BY <2>1, <3>1 DEF BuffInv, Copied
  <2>2. QED
    BY <2>1 DEF Copied
<1>3. WholeTexts'
  <2>1. ASSUME NEW d \in Nodes, \A u \in Threads : ~(pc'[u] = "copy" /\ node'[u] = d)
        PROVE  OneText(d)'
    <3>1. \A u \in Threads : ~(pc[u] = "copy" /\ node[u] = d)
      BY <2>1
    <3>2. OneText(d)
      BY <3>1 DEF BuffInv, WholeTexts
    <3>3. Typed /\ buff'[d] = buff[d]
      BY DEF BuffInv
    <3>4. QED
      BY <3>2, <3>3, OneTextKept
  <2>2. QED
    BY <2>1 DEF WholeTexts
<1>4. QED
  BY <1>1, <1>2, <1>3

\* What BuffInv says of the types, for the proofs below.
LEMMA Shapes ==
  ASSUME Typed
  PROVE  /\ pc \in [Threads -> {"idle", "lock", "copy", "load", "store", "unlock",
                                "tstore", "show"}]
         /\ node \in [Threads -> Nodes] /\ msg \in [Threads -> 0 .. MaxWrites]
         /\ at \in [Threads -> Nat] /\ seen \in [Threads -> Nat]
         /\ lock \in [Locks -> Threads \cup {NoOwner}]
         /\ Len(writes) \in Nat /\ MaxWrites \in Nat
         /\ \A d : LockOf(d) \in Locks
         /\ NoOwner \notin Threads
<1>1. \A d : LockOf(d) \in Locks
  BY DEF LockOf, Locks
<1>2. Len(writes) \in Nat
  BY DEF Typed
<1>3. QED
  BY <1>1, <1>2, NodesAssumption DEF Typed, TypeOK

\* A write is called.
LEMMA WriteCallKeeps ==
  ASSUME BuffInv, NEW t \in Threads, NEW d \in Nodes, NEW c \in 0 .. LogSize,
         NEW b \in 0 .. 1, WriteCall(t, d, c, b)
  PROVE  BuffInv'
<1> DEFINE w == [count |-> c, blanks |-> b]
<1>1. /\ pc[t] = "idle" /\ Len(writes) < MaxWrites /\ b <= c
      /\ writes' = Append(writes, w)
      /\ msg' = [msg EXCEPT ![t] = Len(writes) + 1]
      /\ node' = [node EXCEPT ![t] = d] /\ at' = [at EXCEPT ![t] = 1]
      /\ pc' = [pc EXCEPT ![t] = "lock"]
      /\ UNCHANGED <<buff, lock, reclaim_count, seen, done, triggers>>
  BY DEF WriteCall, countVars
<1>2. w \in Text /\ w.count = c /\ w.blanks = b
  BY DEF Text
<1> HIDE DEF w
<1>3. Typed /\ TypeOK
  BY DEF BuffInv, Typed
<1>4. /\ pc \in [Threads -> {"idle", "lock", "copy", "load", "store", "unlock",
                             "tstore", "show"}]
      /\ node \in [Threads -> Nodes] /\ msg \in [Threads -> 0 .. MaxWrites]
      /\ at \in [Threads -> Nat]
      /\ Len(writes) \in Nat /\ MaxWrites \in Nat
  BY <1>3, Shapes
<1>5. \A u \in Threads :
        /\ pc'[u] = IF u = t THEN "lock" ELSE pc[u]
        /\ node'[u] = IF u = t THEN d ELSE node[u]
        /\ at'[u] = IF u = t THEN 1 ELSE at[u]
        /\ msg'[u] = IF u = t THEN Len(writes) + 1 ELSE msg[u]
  BY <1>1, <1>4
<1>6. /\ writes' \in Seq(Text) /\ Len(writes') = Len(writes) + 1
      /\ \A i \in 1 .. Len(writes) : writes'[i] = writes[i]
      /\ writes'[Len(writes) + 1] = w
  <2>1. writes \in Seq(Text)
    BY <1>3 DEF Typed
  <2>2. QED
    BY <1>1, <1>2, <2>1
<1>7. Typed'
  <2>1. \A u \in Threads : at'[u] \in 1 .. SizeOf(node'[u])
    <3>1. 1 \in 1 .. SizeOf(d)
      BY SizeType
    <3>2. QED
      BY <1>3, <1>5, <3>1 DEF TypeOK
  <2>2. /\ msg' \in [Threads -> 0 .. MaxWrites] /\ at' \in [Threads -> Nat]
        /\ node' \in [Threads -> Nodes]
    BY <1>1, <1>4
  <2>3. pc' \in [Threads -> {"idle", "lock", "copy", "load", "store", "unlock",
                             "tstore", "show"}]
    BY <1>1, <1>4
  <2>4. TypeOK'
    BY <1>1, <1>3, <2>1, <2>2, <2>3 DEF TypeOK
  <2>5. Len(writes') <= MaxWrites
    BY <1>1, <1>4, <1>6
  <2>6. ASSUME NEW i \in 1 .. Len(writes') PROVE writes'[i].blanks <= writes'[i].count
    <3>1. CASE i = Len(writes) + 1
      BY <1>1, <1>2, <1>6, <3>1
    <3>2. CASE i # Len(writes) + 1
      <4>1. i \in 1 .. Len(writes)
        BY <1>4, <1>6, <3>2
      <4>2. QED
        BY <1>3, <1>6, <4>1 DEF Typed
    <3>3. QED
      BY <3>1, <3>2
  <2>7. buff' = [x \in Nodes |-> buff'[x]]
    BY <1>1, <1>3 DEF Typed
  <2>8. QED
    BY <1>6, <2>2, <2>4, <2>5, <2>6, <2>7 DEF Typed
<1>8. Mutex'
  BY <1>1, <1>5 DEF BuffInv, Mutex, Inside
<1>9. Working'
  <2>1. ASSUME NEW u \in Threads
        PROVE  /\ pc'[u] \in {"lock", "copy", "load", "store", "unlock"} =>
                    msg'[u] \in 1 .. Len(writes')
               /\ pc'[u] = "lock" => at'[u] = 1
               /\ pc'[u] = "copy" => at'[u] <= CopyLen(u)' + 1
               /\ pc'[u] \in {"show", "load", "store"} => node'[u] = "global_reclaim"
    <3>1. CASE u = t
      BY <1>4, <1>5, <1>6, <3>1
    <3>2. CASE u # t
      <4>1. /\ pc'[u] = pc[u] /\ node'[u] = node[u] /\ at'[u] = at[u] /\ msg'[u] = msg[u]
        BY <1>5, <3>2
      <4>2. msg[u] \in 1 .. Len(writes) => CopyLen(u)' = CopyLen(u)
        BY <1>6, <4>1 DEF CopyLen
      <4>3. msg[u] \in 1 .. Len(writes) => msg[u] \in 1 .. Len(writes')
        BY <1>4, <1>6
      <4>4. /\ pc[u] \in {"lock", "copy", "load", "store", "unlock"} =>
                 msg[u] \in 1 .. Len(writes)
            /\ pc[u] = "lock" => at[u] = 1
            /\ pc[u] = "copy" => at[u] <= CopyLen(u) + 1
            /\ pc[u] \in {"show", "load", "store"} => node[u] = "global_reclaim"
        BY DEF BuffInv, Working
      <4>5. QED
        BY <4>1, <4>2, <4>3, <4>4
    <3>3. QED
      BY <3>1, <3>2
  <2>2. QED
    BY <2>1 DEF Working
<1>10. LastIsNul' /\ Copied' /\ WholeTexts'
  <2>1. Len(writes') \in Nat /\ Len(writes) <= Len(writes')
    BY <1>4, <1>6
  <2>2. /\ \A u \in Threads :
             pc[u] = "copy" => pc'[u] = "copy" /\ node'[u] = node[u]
                               /\ msg'[u] = msg[u] /\ at'[u] = at[u]
        /\ \A u \in Threads : pc'[u] = "copy" => pc[u] = "copy"
    BY <1>1, <1>5
  <2>3. QED
    BY <1>1, <2>1, <2>2, Unwritten
<1>11. QED
  BY <1>7, <1>8, <1>9, <1>10 DEF BuffInv

\* A step of thread t that writes to no buffer, and takes or gives back its
\* own mutex at most.
StepOf(t) ==
  /\ UNCHANGED <<buff, msg, writes>>
  /\ pc' \in [Threads -> {"idle", "lock", "copy", "load", "store", "unlock",
                          "tstore", "show"}]
  /\ node' \in [Threads -> Nodes] /\ at' \in [Threads -> Nat]
  /\ lock' \in [Locks -> Threads \cup {NoOwner}]
  /\ triggers' \in 0 .. MaxTriggers
  /\ reclaim_count' \in Nat /\ done' \in Nat /\ seen' \in [Threads -> Nat]
  /\ \A u \in Threads : u # t =>
       /\ pc'[u] = pc[u] /\ node'[u] = node[u] /\ at'[u] = at[u]
       /\ Inside(u) => lock'[LockOf(node[u])] = u
  /\ pc[t] # "copy" /\ pc'[t] # "lock"
  /\ pc'[t] = "copy" => at'[t] = 1 /\ node'[t] = node[t]
  /\ at'[t] \in 1 .. SizeOf(node'[t])
  /\ pc'[t] \in {"copy", "load", "store", "unlock"} =>
       msg[t] \in 1 .. Len(writes) /\ lock'[LockOf(node'[t])] = t
  /\ pc'[t] \in {"show", "load", "store"} => node'[t] = "global_reclaim"

\* Such a step keeps the invariant.
LEMMA StepKeeps ==
  ASSUME BuffInv, NEW t \in Threads, StepOf(t)
  PROVE  BuffInv'
<1>1. Typed /\ TypeOK
  BY DEF BuffInv, Typed
<1>2. /\ UNCHANGED <<buff, msg, writes>> /\ pc[t] # "copy"
      /\ \A u \in Threads : u # t =>
           /\ pc'[u] = pc[u] /\ node'[u] = node[u] /\ at'[u] = at[u]
           /\ Inside(u) => lock'[LockOf(node[u])] = u
      /\ pc'[t] = "copy" => at'[t] = 1 /\ node'[t] = node[t]
      /\ pc'[t] \in {"copy", "load", "store", "unlock"} =>
           msg[t] \in 1 .. Len(writes) /\ lock'[LockOf(node'[t])] = t
  BY DEF StepOf
<1>3. Typed'
  <2>1. \A u \in Threads : at'[u] \in 1 .. SizeOf(node'[u])
    BY <1>1 DEF StepOf, TypeOK
  <2>2. TypeOK'
    BY <1>1, <2>1 DEF StepOf, TypeOK
  <2>3. QED
    BY <1>1, <2>2 DEF StepOf, Typed
<1>4. Mutex'
  BY <1>2 DEF BuffInv, Mutex, Inside
<1>5. Working'
  <2>1. ASSUME NEW u \in Threads
        PROVE  /\ pc'[u] \in {"lock", "copy", "load", "store", "unlock"} =>
                    msg'[u] \in 1 .. Len(writes')
               /\ pc'[u] = "lock" => at'[u] = 1
               /\ pc'[u] = "copy" => at'[u] <= CopyLen(u)' + 1
               /\ pc'[u] \in {"show", "load", "store"} => node'[u] = "global_reclaim"
    <3>1. CASE u = t
      <4>1. pc'[t] = "copy" => CopyLen(t)' = CopyLen(t) /\ CopyLen(t) \in Nat
        BY <1>1, <1>2, CopyLenType DEF CopyLen
      <4>2. pc'[t] = "copy" => at'[t] <= CopyLen(t)' + 1
        BY <1>2, <4>1
      <4>3. QED
        BY <3>1, <4>2 DEF StepOf
    <3>2. CASE u # t
      <4>1. /\ pc'[u] = pc[u] /\ node'[u] = node[u] /\ at'[u] = at[u] /\ msg'[u] = msg[u]
            /\ writes' = writes
        BY <1>2, <3>2
      <4>2. CopyLen(u)' = CopyLen(u)
        BY <4>1 DEF CopyLen
      <4>3. QED
        BY <4>1, <4>2 DEF BuffInv, Working
    <3>3. QED
      BY <3>1, <3>2
  <2>2. QED
    BY <2>1 DEF Working
<1>6. LastIsNul' /\ Copied' /\ WholeTexts'
  <2>1. Len(writes') \in Nat /\ Len(writes) <= Len(writes')
    BY <1>1, <1>2, Shapes
  <2>2. /\ \A u \in Threads :
             pc[u] = "copy" => pc'[u] = "copy" /\ node'[u] = node[u]
                               /\ msg'[u] = msg[u] /\ at'[u] = at[u]
        /\ \A u \in Threads : pc'[u] = "copy" => pc[u] = "copy" \/ at'[u] = 1
    BY <1>2
  <2>3. QED
    BY <1>2, <2>1, <2>2, Unwritten
<1>7. QED
  BY <1>3, <1>4, <1>5, <1>6 DEF BuffInv

\* Taking the mutex, which nobody holds.
LEMMA WriteLockSteps ==
  ASSUME BuffInv, NEW t \in Threads, WriteLock(t)
  PROVE  StepOf(t)
<1>1. /\ pc[t] = "lock" /\ lock[LockOf(node[t])] = NoOwner
      /\ lock' = [lock EXCEPT ![LockOf(node[t])] = t]
      /\ pc' = [pc EXCEPT ![t] = "copy"]
      /\ UNCHANGED <<buff, node, msg, at, reclaim_count, seen, done, triggers, writes>>
  BY DEF WriteLock, countVars
<1>2. Typed /\ TypeOK /\ Mutex /\ Working
  BY DEF BuffInv, Typed
<1>3. /\ msg[t] \in 1 .. Len(writes) /\ at[t] = 1
  BY <1>1, <1>2 DEF Working
<1>4. /\ node \in [Threads -> Nodes] /\ lock \in [Locks -> Threads \cup {NoOwner}]
      /\ LockOf(node[t]) \in Locks /\ NoOwner \notin Threads
      /\ pc \in [Threads -> {"idle", "lock", "copy", "load", "store", "unlock",
                             "tstore", "show"}]
      /\ at \in [Threads -> Nat] /\ seen \in [Threads -> Nat]
  BY <1>2, Shapes
<1>5. lock' \in [Locks -> Threads \cup {NoOwner}] /\ lock'[LockOf(node[t])] = t
  BY <1>1, <1>4
<1>6. ASSUME NEW u \in Threads, u # t, Inside(u) PROVE lock'[LockOf(node[u])] = u
  <2>1. lock[LockOf(node[u])] = u /\ LockOf(node[u]) \in Locks
    BY <1>2, <1>6, Shapes DEF Mutex
  <2>2. LockOf(node[u]) # LockOf(node[t])
    BY <1>1, <1>4, <2>1
  <2>3. QED
    BY <1>1, <1>4, <2>1, <2>2
<1>7. /\ pc' \in [Threads -> {"idle", "lock", "copy", "load", "store", "unlock",
                              "tstore", "show"}]
      /\ pc'[t] = "copy" /\ \A u \in Threads : u # t => pc'[u] = pc[u]
  BY <1>1, <1>4
<1>8. /\ at[t] \in 1 .. SizeOf(node[t]) /\ triggers \in 0 .. MaxTriggers
      /\ reclaim_count \in Nat /\ done \in Nat
  BY <1>2 DEF TypeOK
<1>9. QED
  BY <1>1, <1>3, <1>4, <1>5, <1>6, <1>7, <1>8 DEF StepOf

\* Giving it back.
LEMMA WriteUnlockSteps ==
  ASSUME BuffInv, NEW t \in Threads, WriteUnlock(t)
  PROVE  StepOf(t)
<1>1. /\ pc[t] = "unlock"
      /\ lock' = [lock EXCEPT ![LockOf(node[t])] = NoOwner]
      /\ pc' = [pc EXCEPT ![t] = "idle"] /\ at' = [at EXCEPT ![t] = 1]
      /\ UNCHANGED <<buff, node, msg, reclaim_count, seen, done, triggers, writes>>
  BY DEF WriteUnlock, countVars
<1>2. Typed /\ TypeOK /\ Mutex
  BY DEF BuffInv, Typed
<1>3. /\ node \in [Threads -> Nodes] /\ lock \in [Locks -> Threads \cup {NoOwner}]
      /\ LockOf(node[t]) \in Locks /\ NoOwner \notin Threads
      /\ pc \in [Threads -> {"idle", "lock", "copy", "load", "store", "unlock",
                             "tstore", "show"}]
      /\ at \in [Threads -> Nat] /\ seen \in [Threads -> Nat]
  BY <1>2, Shapes
<1>4. lock[LockOf(node[t])] = t
  BY <1>1, <1>2 DEF Mutex, Inside
<1>5. lock' \in [Locks -> Threads \cup {NoOwner}]
  BY <1>1, <1>3
<1>6. ASSUME NEW u \in Threads, u # t, Inside(u) PROVE lock'[LockOf(node[u])] = u
  <2>1. lock[LockOf(node[u])] = u /\ LockOf(node[u]) \in Locks
    BY <1>2, <1>6, Shapes DEF Mutex
  <2>2. LockOf(node[u]) # LockOf(node[t])
    BY <1>4, <1>6, <2>1
  <2>3. QED
    BY <1>1, <1>3, <2>1, <2>2
<1>7. /\ pc' \in [Threads -> {"idle", "lock", "copy", "load", "store", "unlock",
                              "tstore", "show"}]
      /\ at' \in [Threads -> Nat] /\ pc'[t] = "idle" /\ at'[t] = 1
      /\ \A u \in Threads : u # t => pc'[u] = pc[u] /\ at'[u] = at[u]
  BY <1>1, <1>3
<1>8. /\ 1 \in 1 .. SizeOf(node[t]) /\ triggers \in 0 .. MaxTriggers
      /\ reclaim_count \in Nat /\ done \in Nat
  BY <1>2, <1>3, SizeType DEF TypeOK
<1>9. QED
  BY <1>1, <1>3, <1>5, <1>6, <1>7, <1>8 DEF StepOf

\* The counter's steps and the unlocked show, which leave the mutexes alone.
LEMMA OtherSteps ==
  ASSUME BuffInv, NEW t \in Threads,
         \/ Load(t) \/ TriggerCall(t) \/ Store(t)
         \/ ShowCall(t) \/ ShowByte(t) \/ ShowEnd(t)
  PROVE  StepOf(t)
<1>1. Typed /\ TypeOK /\ Mutex /\ Working /\ LastIsNul
  BY DEF BuffInv, Typed
<1>2. /\ node \in [Threads -> Nodes] /\ lock \in [Locks -> Threads \cup {NoOwner}]
      /\ pc \in [Threads -> {"idle", "lock", "copy", "load", "store", "unlock",
                             "tstore", "show"}]
      /\ at \in [Threads -> Nat] /\ seen \in [Threads -> Nat]
  BY <1>1, Shapes
<1>3. \A u \in Threads : Inside(u) => lock[LockOf(node[u])] = u
  BY <1>1 DEF Mutex
<1>4. /\ at[t] \in 1 .. SizeOf(node[t]) /\ triggers \in 0 .. MaxTriggers
      /\ reclaim_count \in Nat /\ done \in Nat /\ MaxTriggers \in Nat
  BY <1>1, NodesAssumption DEF TypeOK
<1>5. /\ pc[t] \in {"load", "store"} =>
           msg[t] \in 1 .. Len(writes) /\ node[t] = "global_reclaim"
      /\ pc[t] = "show" => node[t] = "global_reclaim"
  BY <1>1 DEF Working
<1>6. "global_reclaim" \in Nodes
  BY DEF Nodes
<1>7. CASE Load(t)
  <2>1. /\ pc[t] = "load" /\ pc' = [pc EXCEPT ![t] = "store"]
        /\ seen' = [seen EXCEPT ![t] = reclaim_count]
        /\ UNCHANGED <<buff, lock, node, msg, at, reclaim_count, done, triggers, writes>>
    BY <1>7 DEF Load
  <2>2. /\ seen' \in [Threads -> Nat]
        /\ pc' \in [Threads -> {"idle", "lock", "copy", "load", "store", "unlock",
                                "tstore", "show"}]
        /\ pc'[t] = "store" /\ \A u \in Threads : u # t => pc'[u] = pc[u]
    BY <1>2, <1>4, <2>1
  <2>3. lock[LockOf(node[t])] = t
    BY <1>3, <2>1 DEF Inside
  <2>4. QED
    BY <1>2, <1>3, <1>4, <1>5, <2>1, <2>2, <2>3 DEF StepOf
<1>8. CASE TriggerCall(t)
  <2>1. /\ pc[t] = "idle" /\ pc' = [pc EXCEPT ![t] = "tstore"]
        /\ triggers < MaxTriggers /\ triggers' = triggers + 1
        /\ seen' = [seen EXCEPT ![t] = reclaim_count]
        /\ UNCHANGED <<buff, lock, node, msg, at, reclaim_count, done, writes>>
    BY <1>8 DEF TriggerCall
  <2>2. /\ seen' \in [Threads -> Nat]
        /\ pc' \in [Threads -> {"idle", "lock", "copy", "load", "store", "unlock",
                                "tstore", "show"}]
        /\ pc'[t] = "tstore" /\ \A u \in Threads : u # t => pc'[u] = pc[u]
    BY <1>2, <1>4, <2>1
  <2>3. triggers' \in 0 .. MaxTriggers
    BY <1>4, <2>1
  <2>4. QED
    BY <1>2, <1>3, <1>4, <2>1, <2>2, <2>3 DEF StepOf
<1>9. CASE Store(t)
  <2>1. /\ pc[t] \in {"store", "tstore"}
        /\ pc' = [pc EXCEPT ![t] = IF pc[t] = "store" THEN "unlock" ELSE "idle"]
        /\ reclaim_count' = seen[t] + 1 /\ done' = done + 1
        /\ UNCHANGED <<buff, lock, node, msg, at, seen, triggers, writes>>
    BY <1>9 DEF Store
  <2>2. /\ reclaim_count' \in Nat /\ done' \in Nat
    BY <1>2, <1>4, <2>1
  <2>3. /\ pc' \in [Threads -> {"idle", "lock", "copy", "load", "store", "unlock",
                                "tstore", "show"}]
        /\ \A u \in Threads : u # t => pc'[u] = pc[u]
        /\ pc'[t] = IF pc[t] = "store" THEN "unlock" ELSE "idle"
    BY <1>2, <2>1
  <2>4. pc[t] = "store" => lock[LockOf(node[t])] = t
    BY <1>3 DEF Inside
  <2>5. QED
    BY <1>2, <1>3, <1>4, <1>5, <2>1, <2>2, <2>3, <2>4 DEF StepOf
<1>10. CASE ShowCall(t)
  <2>1. /\ pc[t] = "idle" /\ pc' = [pc EXCEPT ![t] = "show"]
        /\ node' = [node EXCEPT ![t] = "global_reclaim"]
        /\ at' = [at EXCEPT ![t] = 1]
        /\ UNCHANGED <<buff, lock, msg, reclaim_count, seen, done, triggers, writes>>
    BY <1>10 DEF ShowCall, countVars
  <2>2. /\ pc' \in [Threads -> {"idle", "lock", "copy", "load", "store", "unlock",
                                "tstore", "show"}]
        /\ node' \in [Threads -> Nodes] /\ at' \in [Threads -> Nat]
        /\ pc'[t] = "show" /\ node'[t] = "global_reclaim" /\ at'[t] = 1
        /\ \A u \in Threads :
             u # t => pc'[u] = pc[u] /\ node'[u] = node[u] /\ at'[u] = at[u]
    BY <1>2, <1>6, <2>1
  <2>3. 1 \in 1 .. SizeOf("global_reclaim")
    BY <1>6, SizeType
  <2>4. QED
    BY <1>2, <1>3, <1>4, <2>1, <2>2, <2>3 DEF StepOf
<1>11. CASE ShowByte(t)
  <2>1. /\ pc[t] = "show" /\ buff["global_reclaim"][at[t]] # Nul
        /\ at' = [at EXCEPT ![t] = at[t] + 1]
        /\ UNCHANGED <<buff, lock, pc, node, msg, reclaim_count, seen, done, triggers, writes>>
    BY <1>11 DEF ShowByte, countVars
  <2>2. at[t] # SizeOf(node[t])
    BY <1>1, <1>5, <1>6, <2>1 DEF LastIsNul
  <2>3. SizeOf(node[t]) \in Nat
    BY <1>2, SizeType
  <2>4. at[t] + 1 \in 1 .. SizeOf(node[t])
    BY <1>4, <2>2, <2>3
  <2>5. /\ at' \in [Threads -> Nat] /\ at'[t] = at[t] + 1
        /\ \A u \in Threads : u # t => at'[u] = at[u]
    BY <1>2, <2>1
  <2>6. QED
    BY <1>2, <1>3, <1>4, <1>5, <2>1, <2>4, <2>5 DEF StepOf
<1>12. CASE ShowEnd(t)
  <2>1. /\ pc[t] = "show" /\ pc' = [pc EXCEPT ![t] = "idle"]
        /\ at' = [at EXCEPT ![t] = 1]
        /\ UNCHANGED <<buff, lock, node, msg, reclaim_count, seen, done, triggers, writes>>
    BY <1>12 DEF ShowEnd, countVars
  <2>2. /\ pc' \in [Threads -> {"idle", "lock", "copy", "load", "store", "unlock",
                                "tstore", "show"}]
        /\ at' \in [Threads -> Nat] /\ pc'[t] = "idle" /\ at'[t] = 1
        /\ \A u \in Threads : u # t => pc'[u] = pc[u] /\ at'[u] = at[u]
    BY <1>2, <2>1
  <2>3. 1 \in 1 .. SizeOf(node[t])
    BY <1>2, SizeType
  <2>4. QED
    BY <1>2, <1>3, <1>4, <2>1, <2>2, <2>3 DEF StepOf
<1>13. QED
  BY <1>7, <1>8, <1>9, <1>10, <1>11, <1>12

-----------------------------------------------------------------------------
\* Of the threads that copy, one writes to a node: the owner of its mutex.
LEMMA SoleCopier ==
  ASSUME Mutex, NEW t \in Threads, NEW u \in Threads, pc[t] = "copy", pc[u] = "copy",
         node[t] = node[u]
  PROVE  t = u
BY DEF Mutex, Inside

\* A step of thread t, which copies, that changes its node's buffer only.
Writes(t, b) ==
  /\ pc[t] = "copy"
  /\ b \in [1 .. SizeOf(node[t]) -> {Nul} \cup [msg : 1 .. MaxWrites, pos : 1 .. LogSize]]
  /\ b[SizeOf(node[t])] = Nul
  /\ buff' = [buff EXCEPT ![node[t]] = b]
  /\ UNCHANGED <<lock, node, msg, reclaim_count, seen, done, triggers, writes>>

\* copy_from_user, one byte.
LEMMA CopyByteWrites ==
  ASSUME BuffInv, NEW t \in Threads, CopyByte(t)
  PROVE  Writes(t, [buff[node[t]] EXCEPT ![at[t]] = ByteOf(msg[t], at[t])])
<1> DEFINE d == node[t]
           b == [buff[d] EXCEPT ![at[t]] = ByteOf(msg[t], at[t])]
<1>1. /\ pc[t] = "copy" /\ at[t] <= CopyLen(t)
      /\ buff' = [buff EXCEPT ![d] = b]
      /\ UNCHANGED <<lock, pc, node, msg, reclaim_count, seen, done, triggers, writes>>
  BY DEF CopyByte, countVars
<1>2. Typed /\ TypeOK /\ Working /\ LastIsNul
  BY DEF BuffInv, Typed
<1>3. d \in Nodes /\ at[t] \in Nat /\ at[t] \in 1 .. SizeOf(d) /\ MaxWrites \in Nat
  BY <1>2, Shapes DEF TypeOK
<1>4. msg[t] \in 1 .. Len(writes) /\ Len(writes) <= MaxWrites /\ Len(writes) \in Nat
  BY <1>1, <1>2, Shapes DEF Working, Typed
<1>5. /\ CopyLen(t) \in Nat /\ CopyLen(t) + 1 <= SizeOf(d) /\ CopyLen(t) <= LogSize
      /\ SizeOf(d) \in Nat /\ LogSize \in Nat
  BY <1>2, <1>3, <1>4, CopyLenType, SizeType, NodesAssumption
<1>6. at[t] # SizeOf(d) /\ at[t] \in 1 .. LogSize /\ msg[t] \in 1 .. MaxWrites
  BY <1>1, <1>3, <1>4, <1>5
<1> DEFINE B == {Nul} \cup [msg : 1 .. MaxWrites, pos : 1 .. LogSize]
<1>7. ByteOf(msg[t], at[t]) \in B
  BY <1>6 DEF ByteOf
<1>8. buff[d] \in [1 .. SizeOf(d) -> B] /\ buff[d][SizeOf(d)] = Nul
  BY <1>2, <1>3 DEF TypeOK, LastIsNul
<1>9. SizeOf(d) \in 1 .. SizeOf(d)
  BY <1>3, <1>5
<1> HIDE DEF B
<1>10. b \in [1 .. SizeOf(d) -> B] /\ b[SizeOf(d)] = Nul
  BY <1>3, <1>6, <1>7, <1>8, <1>9
<1>11. QED
  BY <1>1, <1>10 DEF Writes, B

\* copy_from_user faults.
LEMMA CopyFaultWrites ==
  ASSUME BuffInv, NEW t \in Threads, CopyFault(t)
  PROVE  Writes(t, [i \in DOMAIN buff[node[t]] |->
                      IF i \in at[t] .. CopyLen(t) THEN Nul ELSE buff[node[t]][i]])
<1> DEFINE d == node[t]
           b == [i \in DOMAIN buff[d] |->
                   IF i \in at[t] .. CopyLen(t) THEN Nul ELSE buff[d][i]]
           B == {Nul} \cup [msg : 1 .. MaxWrites, pos : 1 .. LogSize]
<1>1. /\ pc[t] = "copy"
      /\ UNCHANGED <<lock, node, msg, reclaim_count, seen, done, triggers, writes>>
  BY DEF CopyFault, countVars
<1>2. Typed /\ TypeOK /\ LastIsNul
  BY DEF BuffInv, Typed
<1>3. d \in Nodes
  BY <1>2, Shapes
<1>4. buff[d] \in [1 .. SizeOf(d) -> B] /\ buff[d][SizeOf(d)] = Nul /\ Nul \in B
  BY <1>2, <1>3 DEF TypeOK, LastIsNul
<1>5. SizeOf(d) \in 1 .. SizeOf(d)
  BY <1>3, SizeType
<1> HIDE DEF B
<1>6. b \in [1 .. SizeOf(d) -> B] /\ b[SizeOf(d)] = Nul
  BY <1>4, <1>5
<1>7. buff' = [buff EXCEPT ![d] = b]
  BY <1>2, <1>3 DEF CopyFault, Typed
<1>8. QED
  BY <1>1, <1>6, <1>7 DEF Writes, B

\* The NUL after the text, and the one strim puts in.
LEMMA FinishWrites ==
  ASSUME BuffInv, NEW t \in Threads, Finish(t)
  PROVE  Writes(t, [buff[node[t]] EXCEPT ![CopyLen(t) + 1] = Nul, ![KeptLen(t) + 1] = Nul])
<1> DEFINE d == node[t]
           b == [buff[d] EXCEPT ![CopyLen(t) + 1] = Nul, ![KeptLen(t) + 1] = Nul]
           B == {Nul} \cup [msg : 1 .. MaxWrites, pos : 1 .. LogSize]
<1>1. /\ pc[t] = "copy" /\ buff' = [buff EXCEPT ![d] = b]
      /\ UNCHANGED <<lock, node, msg, reclaim_count, seen, done, triggers, writes>>
  BY DEF Finish, countVars
<1>2. Typed /\ TypeOK /\ LastIsNul
  BY DEF BuffInv, Typed
<1>3. d \in Nodes
  BY <1>2, Shapes
<1>4. buff[d] \in [1 .. SizeOf(d) -> B] /\ buff[d][SizeOf(d)] = Nul /\ Nul \in B
  BY <1>2, <1>3 DEF TypeOK, LastIsNul
<1>5. SizeOf(d) \in 1 .. SizeOf(d)
  BY <1>3, SizeType
<1> HIDE DEF B
<1>6. b \in [1 .. SizeOf(d) -> B] /\ b[SizeOf(d)] = Nul
  BY <1>4, <1>5
<1>7. QED
  BY <1>1, <1>6 DEF Writes, B

\* What thread t is at after such a step: it goes on copying with only its own
\* bytes behind it, or it is done and a NUL follows them.
Ends(t, b) ==
  /\ pc' \in [Threads -> {"idle", "lock", "copy", "load", "store", "unlock",
                          "tstore", "show"}]
  /\ at' \in [Threads -> Nat] /\ at'[t] \in 1 .. SizeOf(node[t])
  /\ \A u \in Threads : u # t => pc'[u] = pc[u] /\ at'[u] = at[u]
  /\ pc'[t] \in {"copy", "load", "unlock"}
  /\ pc'[t] = "load" => node[t] = "global_reclaim"
  /\ \/ /\ pc'[t] = "copy" /\ at'[t] <= CopyLen(t) + 1
        /\ \A i \in 1 .. at'[t] - 1 : b[i] = ByteOf(msg[t], i)
     \/ /\ pc'[t] # "copy"
        /\ \E n \in Nat : /\ n + 1 \in 1 .. SizeOf(node[t]) /\ b[n + 1] = Nul
                          /\ \A i \in 1 .. n : b[i] \in {Nul, ByteOf(msg[t], i)}

\* A step that writes to a buffer keeps the invariant.
LEMMA WritesKeep ==
  ASSUME BuffInv, NEW t \in Threads, NEW b, Writes(t, b), Ends(t, b)
  PROVE  BuffInv'
<1> DEFINE d == node[t]
<1>1. Typed /\ TypeOK /\ Mutex /\ Working /\ LastIsNul /\ Copied /\ WholeTexts
  BY DEF BuffInv, Typed
<1>2. /\ pc[t] = "copy" /\ d \in Nodes /\ node \in [Threads -> Nodes]
      /\ Len(writes) \in Nat /\ SizeOf(d) \in Nat
  BY <1>1, Shapes, SizeType DEF Writes
<1>3. /\ UNCHANGED <<lock, node, msg, reclaim_count, seen, done, triggers, writes>>
      /\ buff' = [buff EXCEPT ![d] = b]
  BY DEF Writes
<1>4. /\ buff' = [e \in Nodes |-> buff'[e]] /\ buff'[d] = b
      /\ \A e \in Nodes : e # d => buff'[e] = buff[e]
  BY <1>1, <1>2, <1>3 DEF Typed
<1>5. /\ pc' \in [Threads -> {"idle", "lock", "copy", "load", "store", "unlock",
                              "tstore", "show"}]
      /\ at' \in [Threads -> Nat] /\ at'[t] \in 1 .. SizeOf(d)
      /\ \A u \in Threads : u # t => pc'[u] = pc[u] /\ at'[u] = at[u]
      /\ pc'[t] \in {"copy", "load", "unlock"}
      /\ pc'[t] = "load" => d = "global_reclaim"
  BY DEF Ends
<1>6. Typed'
  <2>1. \A e \in Nodes : buff'[e] \in
          [1 .. SizeOf(e) -> {Nul} \cup [msg : 1 .. MaxWrites, pos : 1 .. LogSize]]
    BY <1>1, <1>4 DEF TypeOK, Writes
  <2>2. \A u \in Threads : at'[u] \in 1 .. SizeOf(node'[u])
    BY <1>1, <1>3, <1>5 DEF TypeOK
  <2>3. TypeOK'
    BY <1>1, <1>3, <1>5, <2>1, <2>2 DEF TypeOK
  <2>4. QED
    BY <1>1, <1>3, <1>4, <1>5, <2>3 DEF Typed
<1>7. Mutex'
  BY <1>1, <1>2, <1>3, <1>5 DEF Mutex, Inside
<1>8. Working'
  <2>1. \A u \in Threads : CopyLen(u)' = CopyLen(u)
    BY <1>3 DEF CopyLen
  <2>2. pc'[t] = "copy" => at'[t] <= CopyLen(t) + 1
    BY DEF Ends
  <2>3. QED
    BY <1>1, <1>2, <1>3, <1>5, <2>1, <2>2 DEF Working
<1>9. LastIsNul'
  BY <1>1, <1>4 DEF LastIsNul, Writes
<1>10. Copied'
  <2>1. ASSUME NEW u \in Threads, pc'[u] = "copy", NEW i \in 1 .. at'[u] - 1
        PROVE  buff'[node'[u]][i] = ByteOf(msg'[u], i)
    <3>1. CASE u = t
      BY <1>3, <1>4, <2>1, <3>1 DEF Ends
    <3>2. CASE u # t
      <4>1. pc[u] = "copy" /\ at'[u] = at[u]
        BY <1>5, <2>1, <3>2
      <4>2. node[u] # d /\ node[u] \in Nodes
        BY <1>1, <1>2, <3>2, <4>1, SoleCopier
      <4>3. buff'[node[u]] = buff[node[u]]
        BY <1>4, <4>2
      <4>4. QED
        BY <1>1, <1>3, <2>1, <4>1, <4>3 DEF Copied
    <3>3. QED
      BY <3>1, <3>2
  <2>2. QED
    BY <2>1 DEF Copied
<1>11. WholeTexts'
  <2>1. ASSUME NEW e \in Nodes, \A u \in Threads : ~(pc'[u] = "copy" /\ node'[u] = e)
        PROVE  OneText(e)'
    <3>1. CASE e = d
      <4>1. pc'[t] # "copy"
        BY <1>3, <2>1, <3>1
      <4>2. PICK n \in Nat : /\ n + 1 \in 1 .. SizeOf(d) /\ b[n + 1] = Nul
                             /\ \A i \in 1 .. n : b[i] \in {Nul, ByteOf(msg[t], i)}
        BY <4>1 DEF Ends
      <4>3. TextOf(e)' = {i \in 1 .. SizeOf(d) : \A j \in 1 .. i : b[j] # Nul}
        BY <1>4, <3>1 DEF TextOf
      <4>4. ASSUME NEW i \in TextOf(e)' PROVE b[i] = ByteOf(msg[t], i)
        <5>1. i \in 1 .. SizeOf(d) /\ i \in Nat /\ \A j \in 1 .. i : b[j] # Nul
          BY <1>2, <4>3
        <5>2. ~(n + 1 \in 1 .. i)
          BY <4>2, <5>1
        <5>3. i \in 1 .. n /\ i \in 1 .. i
          BY <5>1, <5>2
        <5>4. QED
          BY <4>2, <5>1, <5>3
      <4>5. msg[t] \in 0 .. Len(writes)
        <5>1. msg[t] \in 1 .. Len(writes)
          BY <1>1, <1>2 DEF Working
        <5>2. QED
          BY <1>2, <5>1
      <4>6. QED
        BY <1>3, <1>4, <3>1, <4>4, <4>5 DEF OneText
    <3>2. CASE e # d
      <4>1. \A u \in Threads : ~(pc[u] = "copy" /\ node[u] = e)
        BY <1>3, <1>5, <2>1, <3>2
      <4>2. OneText(e) /\ buff'[e] = buff[e]
        BY <1>1, <1>4, <3>2, <4>1 DEF WholeTexts
      <4>3. Len(writes') \in Nat /\ Len(writes) <= Len(writes')
        BY <1>2, <1>3
      <4>4. QED
        BY <1>1, <4>2, <4>3, OneTextKept
    <3>3. QED
      BY <3>1, <3>2
  <2>2. QED
    BY <2>1 DEF WholeTexts
<1>12. QED
  BY <1>6, <1>7, <1>8, <1>9, <1>10, <1>11 DEF BuffInv

\* The three steps of perf_helper_copy_user.
LEMMA CopyKeeps ==
  ASSUME BuffInv, NEW t \in Threads, CopyByte(t) \/ CopyFault(t) \/ Finish(t)
  PROVE  BuffInv'
<1> DEFINE d == node[t]
           a == at[t]
           l == CopyLen(t)
           B == {Nul} \cup [msg : 1 .. MaxWrites, pos : 1 .. LogSize]
<1>1. Typed /\ TypeOK /\ Working /\ Copied /\ pc[t] = "copy"
  BY DEF BuffInv, Typed, CopyByte, CopyFault, Finish
<1>2. /\ pc \in [Threads -> {"idle", "lock", "copy", "load", "store", "unlock",
                             "tstore", "show"}]
      /\ at \in [Threads -> Nat] /\ d \in Nodes
  BY <1>1, Shapes
<1>3. msg[t] \in 1 .. Len(writes) /\ a <= l + 1
  BY <1>1 DEF Working
<1>4. /\ l \in Nat /\ l + 1 <= SizeOf(d) /\ SizeOf(d) \in Nat
      /\ KeptLen(t) \in Nat /\ KeptLen(t) <= l
  BY <1>1, <1>2, <1>3, CopyLenType, SizeType
<1>5. /\ a \in Nat /\ a \in 1 .. SizeOf(d)
      /\ buff[d] \in [1 .. SizeOf(d) -> B]
      /\ \A i \in 1 .. a - 1 : buff[d][i] = ByteOf(msg[t], i)
  BY <1>1, <1>2 DEF TypeOK, Copied
<1> HIDE DEF B, l
<1>6. CASE CopyByte(t)
  <2> DEFINE b == [buff[d] EXCEPT ![a] = ByteOf(msg[t], a)]
  <2>1. a <= l /\ at' = [at EXCEPT ![t] = a + 1] /\ UNCHANGED pc
    BY <1>6 DEF CopyByte, l
  <2>2. /\ at' \in [Threads -> Nat] /\ at'[t] = a + 1
        /\ \A u \in Threads : u # t => at'[u] = at[u]
    BY <1>2, <1>5, <2>1
  <2>3. a + 1 \in 1 .. SizeOf(d) /\ a + 1 <= l + 1
    BY <1>4, <1>5, <2>1
  <2>4. ASSUME NEW i \in 1 .. (a + 1) - 1 PROVE b[i] = ByteOf(msg[t], i)
    <3>1. i \in 1 .. SizeOf(d) /\ (i # a => i \in 1 .. a - 1)
      BY <1>4, <1>5
    <3>2. QED
      BY <1>5, <3>1
  <2>5. Writes(t, b)
    BY <1>6, CopyByteWrites
  <2> HIDE DEF b
  <2>6. Ends(t, b)
    BY <1>1, <1>2, <2>1, <2>2, <2>3, <2>4 DEF Ends, l
  <2>7. QED
    BY <2>5, <2>6, WritesKeep
<1>7. CASE CopyFault(t)
  <2> DEFINE b == [i \in DOMAIN buff[d] |->
                     IF i \in a .. CopyLen(t) THEN Nul ELSE buff[d][i]]
  <2>1. a <= l /\ pc' = [pc EXCEPT ![t] = "unlock"] /\ UNCHANGED at
    BY <1>7 DEF CopyFault, l
  <2>2. /\ pc' \in [Threads -> {"idle", "lock", "copy", "load", "store", "unlock",
                                "tstore", "show"}]
        /\ pc'[t] = "unlock" /\ \A u \in Threads : u # t => pc'[u] = pc[u]
    BY <1>2, <2>1
  <2>3. \E n \in Nat : /\ n + 1 \in 1 .. SizeOf(d) /\ b[n + 1] = Nul
                       /\ \A i \in 1 .. n : b[i] \in {Nul, ByteOf(msg[t], i)}
    <3>1. a - 1 \in Nat /\ (a - 1) + 1 = a /\ a \in a .. l
      BY <1>4, <1>5, <2>1
    <3>2. b[a] = Nul
      BY <1>5, <3>1 DEF l
    <3>3. ASSUME NEW i \in 1 .. a - 1 PROVE b[i] \in {Nul, ByteOf(msg[t], i)}
      <4>1. i \in 1 .. SizeOf(d)
        BY <1>4, <1>5
      <4>2. QED
        BY <1>5, <4>1
    <3> HIDE DEF b
    <3>4. QED
      BY <1>5, <3>1, <3>2, <3>3
  <2>4. Writes(t, b)
    BY <1>7, CopyFaultWrites
  <2> HIDE DEF b
  <2>5. Ends(t, b)
    BY <1>2, <1>5, <2>1, <2>2, <2>3 DEF Ends
  <2>6. QED
    BY <2>4, <2>5, WritesKeep
<1>8. CASE Finish(t)
  <2> DEFINE b == [buff[d] EXCEPT ![CopyLen(t) + 1] = Nul, ![KeptLen(t) + 1] = Nul]
  <2>1. a > l /\ pc' = [pc EXCEPT ![t] = AfterCopy(t)] /\ UNCHANGED at
    BY <1>8 DEF Finish, l
  <2>2. AfterCopy(t) \in {"load", "unlock"} /\ (AfterCopy(t) = "load" => d = "global_reclaim")
    BY DEF AfterCopy
  <2>3. /\ pc' \in [Threads -> {"idle", "lock", "copy", "load", "store", "unlock",
                                "tstore", "show"}]
        /\ pc'[t] = AfterCopy(t) /\ \A u \in Threads : u # t => pc'[u] = pc[u]
    BY <1>2, <2>1, <2>2
  <2>4. \E n \in Nat : /\ n + 1 \in 1 .. SizeOf(d) /\ b[n + 1] = Nul
                       /\ \A i \in 1 .. n : b[i] \in {Nul, ByteOf(msg[t], i)}
    <3>1. l + 1 \in 1 .. SizeOf(d)
      BY <1>4
    <3>2. b[l + 1] = Nul
      BY <1>5, <3>1 DEF l
    <3>3. ASSUME NEW i \in 1 .. l PROVE b[i] \in {Nul, ByteOf(msg[t], i)}
      <4>1. i \in 1 .. SizeOf(d) /\ i \in 1 .. a - 1
        BY <1>3, <1>4, <1>5, <2>1
      <4>2. b[i] \in {Nul, buff[d][i]}
        BY <1>5, <4>1
      <4>3. QED
        BY <1>5, <4>1, <4>2
    <3> HIDE DEF b
    <3>4. QED
      BY <1>4, <3>1, <3>2, <3>3
  <2>5. Writes(t, b)
    BY <1>8, FinishWrites
  <2> HIDE DEF b
  <2>6. Ends(t, b)
    BY <1>2, <1>5, <2>1, <2>2, <2>3, <2>4 DEF Ends
  <2>7. QED
    BY <2>5, <2>6, WritesKeep
<1>9. QED
  BY <1>6, <1>7, <1>8

\* Every step keeps the buffers' part of the invariant.
LEMMA BuffInvariant == BuffInv /\ [Next]_vars => BuffInv'
<1> SUFFICES ASSUME BuffInv, [Next]_vars PROVE BuffInv'
  OBVIOUS
<1>1. ASSUME NEW t \in Threads,
             \/ WriteLock(t) \/ WriteUnlock(t) \/ Load(t) \/ TriggerCall(t)
             \/ Store(t) \/ ShowCall(t) \/ ShowByte(t) \/ ShowEnd(t)
      PROVE  BuffInv'
  <2>1. StepOf(t)
    BY <1>1, WriteLockSteps, WriteUnlockSteps, OtherSteps
  <2>2. QED
    BY <2>1, StepKeeps
<1>2. CASE UNCHANGED vars
  <2>1. /\ UNCHANGED <<buff, lock, pc, node, msg, at, reclaim_count, seen, done,
                       triggers, writes>>
    BY <1>2 DEF vars, callVars, countVars
  <2>2. Typed'
    BY <2>1 DEF BuffInv, Typed, TypeOK
  <2>3. Mutex' /\ LastIsNul' /\ Copied'
    BY <2>1 DEF BuffInv, Mutex, Inside, LastIsNul, Copied
  <2>4. Working'
    BY <2>1 DEF BuffInv, Working, CopyLen
  <2>5. WholeTexts'
    BY <2>1 DEF BuffInv, WholeTexts, OneText, TextOf
  <2>6. QED
    BY <2>2, <2>3, <2>4, <2>5 DEF BuffInv
<1>3. QED
  BY <1>1, <1>2, WriteCallKeeps, CopyKeeps DEF Next

-----------------------------------------------------------------------------
\* mimd_lock orders the increments of global_reclaim_write.
LEMMA SoleCounter ==
  ASSUME BuffInv, NEW t \in Threads, NEW u \in Threads,
         pc[t] \in {"load", "store"}, pc[u] \in {"load", "store"}
  PROVE  t = u
BY DEF BuffInv, Mutex, Inside, Working

\* Every step keeps the counter's part of the invariant.
LEMMA CountInvariant == BuffInv /\ CountInv /\ [Next]_vars => CountInv'
<1> SUFFICES ASSUME BuffInv, CountInv, [Next]_vars PROVE CountInv'
  OBVIOUS
<1>1. /\ Loaded
      /\ triggers = 0 => reclaim_count = done
      /\ reclaim_count <= done
      /\ done > 0 => reclaim_count > 0
  BY DEF CountInv, CountLosesOnlyToTriggers
<1>2. Typed
  BY DEF BuffInv
<1>3. /\ pc \in [Threads -> {"idle", "lock", "copy", "load", "store", "unlock",
                             "tstore", "show"}]
      /\ seen \in [Threads -> Nat]
      /\ reclaim_count \in Nat /\ done \in Nat /\ triggers \in Nat
  BY <1>2, Shapes, NodesAssumption DEF Typed, TypeOK
<1>4. ASSUME UNCHANGED <<reclaim_count, seen, done, triggers>>,
             \A u \in Threads : pc'[u] \in {"store", "tstore"} => pc'[u] = pc[u]
      PROVE  CountInv'
  BY <1>1, <1>4 DEF CountInv, Loaded, CountLosesOnlyToTriggers
<1>5. ASSUME NEW t \in Threads, Load(t) PROVE CountInv'
  <2>1. /\ pc' = [pc EXCEPT ![t] = "store"] /\ seen' = [seen EXCEPT ![t] = reclaim_count]
        /\ UNCHANGED <<reclaim_count, done, triggers>>
    BY <1>5 DEF Load
  <2>2. \A u \in Threads : /\ pc'[u] = IF u = t THEN "store" ELSE pc[u]
                           /\ seen'[u] = IF u = t THEN reclaim_count ELSE seen[u]
    BY <1>3, <2>1
  <2>3. QED
    BY <1>1, <2>1, <2>2 DEF CountInv, Loaded, CountLosesOnlyToTriggers
<1>6. ASSUME NEW t \in Threads, TriggerCall(t) PROVE CountInv'
  <2>1. /\ pc' = [pc EXCEPT ![t] = "tstore"] /\ seen' = [seen EXCEPT ![t] = reclaim_count]
        /\ triggers' = triggers + 1 /\ UNCHANGED <<reclaim_count, done>>
    BY <1>6 DEF TriggerCall
  <2>2. \A u \in Threads : /\ pc'[u] = IF u = t THEN "tstore" ELSE pc[u]
                           /\ seen'[u] = IF u = t THEN reclaim_count ELSE seen[u]
    BY <1>3, <2>1
  <2>3. triggers' > 0 /\ triggers' # 0
    BY <1>3, <2>1
  <2>4. QED
    BY <1>1, <2>1, <2>2, <2>3 DEF CountInv, Loaded, CountLosesOnlyToTriggers
<1>7. ASSUME NEW t \in Threads, Store(t) PROVE CountInv'
  <2>1. /\ pc[t] \in {"store", "tstore"}
        /\ pc' = [pc EXCEPT ![t] = IF pc[t] = "store" THEN "unlock" ELSE "idle"]
        /\ reclaim_count' = seen[t] + 1 /\ done' = done + 1
        /\ UNCHANGED <<seen, triggers>>
    BY <1>7 DEF Store
  <2>2. /\ pc'[t] \in {"unlock", "idle"}
        /\ \A u \in Threads : u # t => pc'[u] = pc[u]
    BY <1>3, <2>1
  <2>3. /\ seen[t] <= done /\ seen[t] \in Nat
        /\ triggers = 0 => pc[t] = "store" /\ seen[t] = reclaim_count
    BY <1>1, <1>3, <2>1 DEF Loaded
  <2>4. CountLosesOnlyToTriggers'
    BY <1>1, <1>3, <2>1, <2>3 DEF CountLosesOnlyToTriggers
  <2>5. ASSUME NEW u \in Threads
        PROVE  /\ pc'[u] = "store" /\ triggers' = 0 => seen'[u] = reclaim_count'
               /\ pc'[u] \in {"store", "tstore"} => seen'[u] <= done'
               /\ pc'[u] = "tstore" => triggers' > 0
    <3>1. CASE u = t
      BY <2>2, <3>1
    <3>2. CASE u # t
      <4>1. pc'[u] = pc[u] /\ seen'[u] = seen[u] /\ seen[u] \in Nat
        BY <1>3, <2>1, <2>2, <3>2
      <4>2. ~(pc[u] = "store" /\ triggers = 0)
        BY <2>3, <3>2, SoleCounter
      <4>3. pc[u] \in {"store", "tstore"} => seen[u] <= done
        BY <1>1 DEF Loaded
      <4>4. pc'[u] \in {"store", "tstore"} => seen'[u] <= done'
        BY <1>3, <2>1, <4>1, <4>3
      <4>5. pc[u] = "tstore" => triggers > 0
        BY <1>1 DEF Loaded
      <4>6. QED
        BY <2>1, <4>1, <4>2, <4>4, <4>5
    <3>3. QED
      BY <3>1, <3>2
  <2>6. QED
    BY <2>4, <2>5 DEF CountInv, Loaded
<1>8. ASSUME NEW t \in Threads,
             \/ \E d \in Nodes, c \in 0 .. LogSize, b \in 0 .. 1 : WriteCall(t, d, c, b)
             \/ WriteLock(t) \/ CopyByte(t) \/ CopyFault(t) \/ Finish(t) \/ WriteUnlock(t)
             \/ ShowCall(t) \/ ShowByte(t) \/ ShowEnd(t)
      PROVE  CountInv'
  <2>1. UNCHANGED <<reclaim_count, seen, done, triggers>>
    BY <1>8 DEF WriteCall, WriteLock, CopyByte, CopyFault, Finish, WriteUnlock, ShowCall,
       ShowByte, ShowEnd, countVars
  <2>2. \/ UNCHANGED pc
        \/ \E p \in {"lock", "copy", "unlock", "load", "idle", "show"} :
             pc' = [pc EXCEPT ![t] = p]
    <3>1. AfterCopy(t) \in {"load", "unlock"}
      BY DEF AfterCopy
    <3>2. QED
      BY <1>8, <3>1 DEF WriteCall, WriteLock, CopyByte, CopyFault, Finish, WriteUnlock,
         ShowCall, ShowByte, ShowEnd
  <2>3. \A u \in Threads : pc'[u] \in {"store", "tstore"} => pc'[u] = pc[u]
    BY <1>3, <2>2
  <2>4. QED
    BY <1>4, <2>1, <2>3
<1>9. CASE UNCHANGED vars
  BY <1>4, <1>9 DEF vars, callVars, countVars
<1>10. QED
  BY <1>5, <1>6, <1>7, <1>8, <1>9 DEF Next

\* The inductive invariant holds throughout.
LEMMA Invariant == Spec => []IInv
<1>1. IInv /\ [Next]_vars => IInv'
  BY BuffInvariant, CountInvariant DEF IInv
<1>2. QED
  BY <1>1, InitInvariant, PTL DEF Spec

-----------------------------------------------------------------------------
\* Types: every index is inside its buffer, whichever size the buffer has.
THEOREM TypeCorrect == Spec => []TypeOK
<1>1. IInv => TypeOK
  BY DEF IInv, BuffInv, Typed
<1>2. QED
  BY <1>1, Invariant, PTL

\* A show finds a NUL in the buffer at any time, global_reclaim_show too,
\* which takes no mutex.
THEOREM ShowsEnd == Spec => []AlwaysTerminated
<1>1. ASSUME IInv, NEW d \in Nodes
      PROVE  /\ SizeOf(d) \in 1 .. SizeOf(d) /\ buff[d][SizeOf(d)] = Nul
             /\ \A t \in Threads : pc[t] = "show" /\ node[t] = d => at[t] <= SizeOf(d)
  <2>1. SizeOf(d) \in Nat /\ SizeOf(d) \in 1 .. SizeOf(d)
    BY SizeType
  <2>2. LastIsNul /\ TypeOK
    BY <1>1 DEF IInv, BuffInv, Typed
  <2>3. \A t \in Threads : at[t] \in 1 .. SizeOf(node[t])
    BY <2>2 DEF TypeOK
  <2>4. \A t \in Threads : node[t] = d => at[t] <= SizeOf(d)
    BY <2>1, <2>3
  <2>5. QED
    BY <2>1, <2>2, <2>4 DEF LastIsNul
<1>2. IInv => AlwaysTerminated
  BY <1>1 DEF AlwaysTerminated
<1>3. QED
  BY <1>2, Invariant, PTL

\* Under the mutex a node holds the beginning of one write's text, also after
\* a write that faulted.
THEOREM ShowsOneText == Spec => []LockedShowIsOneText
<1>1. ASSUME IInv, NEW d \in Nodes, lock[LockOf(d)] = NoOwner
      PROVE  OneText(d)
  <2>1. Mutex /\ WholeTexts /\ NoOwner \notin Threads
    BY <1>1, NodesAssumption DEF IInv, BuffInv
  <2>2. \A t \in Threads : ~(pc[t] = "copy" /\ node[t] = d)
    BY <1>1, <2>1 DEF Mutex, Inside
  <2>3. QED
    BY <2>1, <2>2 DEF WholeTexts
<1>2. IInv => LockedShowIsOneText
  BY <1>1 DEF LockedShowIsOneText, OneText
<1>3. QED
  BY <1>2, Invariant, PTL

\* reclaim_count misses an increment only when mimdtrigger_store, which takes
\* no mutex, was called.
THEOREM CountKept == Spec => []CountLosesOnlyToTriggers
<1>1. IInv => CountLosesOnlyToTriggers
  BY DEF IInv, CountInv
<1>2. QED
  BY <1>1, Invariant, PTL
=============================================================================
