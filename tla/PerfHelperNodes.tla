-------------------------- MODULE PerfHelperNodes --------------------------
(***************************************************************************)
(* The text nodes and the reclaim counter of perf_helper.c.  A write copies*)
(* user bytes into the node's static buffer under the mutex of its family, *)
(* a show prints the buffer up to its NUL under the same mutex, except     *)
(* global_reclaim_show, which takes no mutex.  reclaim_count is increased  *)
(* by global_reclaim_write under mimd_lock and by mimdtrigger_store        *)
(* without it.                                                             *)
(*                                                                         *)
(* A byte is tagged with the write it comes from and its place in it, so   *)
(* that a text put together from two writes can be told from a whole one.  *)
(***************************************************************************)
EXTENDS Naturals, Sequences, FiniteSets

CONSTANTS
  Threads,
  NoOwner,
  LogSize,   \* PERF_HELPER_LOG_SIZE
  BufSize,   \* PERF_HELPER_BUF_SIZE
  MaxWrites, \* bound: how many writes a behaviour makes
  MaxTriggers \* bound: how many times mimdtrigger is written to

ASSUME NodesAssumption ==
  /\ NoOwner \notin Threads
  /\ {LogSize, BufSize} \subseteq Nat \ {0}
  /\ {MaxWrites, MaxTriggers} \subseteq Nat

Nodes == {"perflock_records", "perflock_exception", "mimdlog", "global_reclaim"}
Locks == {"perflock_lock", "mimd_lock"}
LockOf(d) == IF d \in {"mimdlog", "global_reclaim"} THEN "mimd_lock" ELSE "perflock_lock"
SizeOf(d) == IF d = "global_reclaim" THEN BufSize ELSE LogSize

VARIABLES
  buff,    \* the buffer of each node, SizeOf of them bytes
  lock,    \* who owns each mutex
  reclaim_count,
  pc,      \* where each thread is in its handler
  node,    \* the node it writes or shows
  msg,     \* the write it performs
  at,      \* the next byte it copies or prints
  seen,    \* the value of reclaim_count it read
  writes,  \* history: the writes called so far, each with its count and
           \* the number of blanks the text ends in
  done,    \* history: increments finished
  triggers \* history: how often mimdtrigger was written to

callVars == <<pc, node, msg, at>>
countVars == <<reclaim_count, seen, done, triggers>>
vars == <<buff, lock, callVars, countVars, writes>>

Nul == [msg |-> 0, pos |-> 0]
ByteOf(m, i) == [msg |-> m, pos |-> i]

Init ==
  /\ buff = [d \in Nodes |-> [i \in 1 .. SizeOf(d) |-> Nul]]
  /\ lock = [l \in Locks |-> NoOwner]
  /\ pc = [t \in Threads |-> "idle"]
  /\ node = [t \in Threads |-> "mimdlog"]
  /\ msg = [t \in Threads |-> 0] /\ at = [t \in Threads |-> 1]
  /\ seen = [t \in Threads |-> 0]
  /\ writes = <<>>
  /\ reclaim_count = 0 /\ done = 0 /\ triggers = 0

\* Mutant: min(count, dst_size).
CopyLenTooMany(t) ==
  LET count == writes[msg[t]].count
  IN  IF count < SizeOf(node[t]) THEN count ELSE SizeOf(node[t])

\* min(count, dst_size - 1): the last byte of the buffer stays NUL.
CopyLen(t) ==
  LET count == writes[msg[t]].count
  IN  IF count < SizeOf(node[t]) THEN count ELSE SizeOf(node[t]) - 1

-----------------------------------------------------------------------------
\* The write handlers: mutex_lock, then perf_helper_copy_user.
WriteCall(t, d, count, blanks) ==
  /\ pc[t] = "idle"
  /\ Len(writes) < MaxWrites
  /\ blanks <= count
  /\ writes' = Append(writes, [count |-> count, blanks |-> blanks])
  /\ msg' = [msg EXCEPT ![t] = Len(writes) + 1]
  /\ node' = [node EXCEPT ![t] = d]
  /\ at' = [at EXCEPT ![t] = 1]
  /\ pc' = [pc EXCEPT ![t] = "lock"]
  /\ UNCHANGED <<buff, lock, countVars>>

\* Mutant: global_reclaim_write takes no mutex either.
WriteLockNotReclaim(t) ==
  /\ pc[t] = "lock"
  /\ lock[LockOf(node[t])] = NoOwner \/ node[t] = "global_reclaim"
  /\ lock' = [lock EXCEPT ![LockOf(node[t])] = t]
  /\ pc' = [pc EXCEPT ![t] = "copy"]
  /\ UNCHANGED <<buff, node, msg, at, countVars, writes>>

WriteLock(t) ==
  /\ pc[t] = "lock"
  /\ lock[LockOf(node[t])] = NoOwner
  /\ lock' = [lock EXCEPT ![LockOf(node[t])] = t]
  /\ pc' = [pc EXCEPT ![t] = "copy"]
  /\ UNCHANGED <<buff, node, msg, at, countVars, writes>>

\* copy_from_user, one byte.
CopyByte(t) ==
  /\ pc[t] = "copy"
  /\ at[t] <= CopyLen(t)
  /\ buff' = [buff EXCEPT ![node[t]][at[t]] = ByteOf(msg[t], at[t])]
  /\ at' = [at EXCEPT ![t] = @ + 1]
  /\ UNCHANGED <<lock, pc, node, msg, countVars, writes>>

\* copy_from_user faults: it clears what it could not copy and the write
\* returns -EFAULT.
CopyFault(t) ==
  /\ pc[t] = "copy"
  /\ at[t] <= CopyLen(t)
  /\ buff' = [buff EXCEPT ![node[t]] =
                [i \in DOMAIN @ |-> IF i \in at[t] .. CopyLen(t) THEN Nul ELSE @[i]]]
  /\ pc' = [pc EXCEPT ![t] = "unlock"]
  /\ UNCHANGED <<lock, node, msg, at, countVars, writes>>

\* strim: the blanks the copied text ends in are cut.  The user's text is
\* cut at CopyLen first, so that fewer of its blanks may be left to cut.
KeptLen(t) ==
  LET w == writes[msg[t]]
      text == w.count - w.blanks
  IN  IF text < CopyLen(t) THEN text ELSE CopyLen(t)

\* What follows dst[len] = 0 and strim; only a write of something counts.
AfterCopy(t) ==
  IF node[t] = "global_reclaim" /\ writes[msg[t]].count > 0 THEN "load" ELSE "unlock"

\* Mutant: the text is not terminated.
FinishOpen(t) ==
  /\ pc[t] = "copy"
  /\ at[t] > CopyLen(t)
  /\ pc' = [pc EXCEPT ![t] = AfterCopy(t)]
  /\ UNCHANGED <<buff, lock, node, msg, at, countVars, writes>>

Finish(t) ==
  /\ pc[t] = "copy"
  /\ at[t] > CopyLen(t)
  /\ buff' = [buff EXCEPT ![node[t]] =
                [@ EXCEPT ![CopyLen(t) + 1] = Nul, ![KeptLen(t) + 1] = Nul]]
  /\ pc' = [pc EXCEPT ![t] = AfterCopy(t)]
  /\ UNCHANGED <<lock, node, msg, at, countVars, writes>>

WriteUnlock(t) ==
  /\ pc[t] = "unlock"
  /\ lock' = [lock EXCEPT ![LockOf(node[t])] = NoOwner]
  /\ pc' = [pc EXCEPT ![t] = "idle"]
  /\ at' = [at EXCEPT ![t] = 1]
  /\ UNCHANGED <<buff, node, msg, countVars, writes>>

-----------------------------------------------------------------------------
\* reclaim_count++ of a plain long, a load and a store.  mimdtrigger_store
\* does it without any lock, which pc "tstore" stands for.
Load(t) ==
  /\ pc[t] = "load"
  /\ seen' = [seen EXCEPT ![t] = reclaim_count]
  /\ pc' = [pc EXCEPT ![t] = "store"]
  /\ UNCHANGED <<buff, lock, node, msg, at, reclaim_count, done, triggers, writes>>

TriggerCall(t) ==
  /\ pc[t] = "idle"
  /\ triggers < MaxTriggers
  /\ seen' = [seen EXCEPT ![t] = reclaim_count]
  /\ triggers' = triggers + 1
  /\ pc' = [pc EXCEPT ![t] = "tstore"]
  /\ UNCHANGED <<buff, lock, node, msg, at, reclaim_count, done, writes>>

Store(t) ==
  /\ pc[t] \in {"store", "tstore"}
  /\ reclaim_count' = seen[t] + 1
  /\ done' = done + 1
  /\ pc' = [pc EXCEPT ![t] = IF @ = "store" THEN "unlock" ELSE "idle"]
  /\ UNCHANGED <<buff, lock, node, msg, at, seen, triggers, writes>>

-----------------------------------------------------------------------------
\* global_reclaim_show prints the buffer byte by byte while writers go on;
\* every other show holds the mutex and changes nothing: it is no action, and
\* LockedShowIsOneText says what it prints.
ShowCall(t) ==
  /\ pc[t] = "idle"
  /\ node' = [node EXCEPT ![t] = "global_reclaim"]
  /\ at' = [at EXCEPT ![t] = 1]
  /\ pc' = [pc EXCEPT ![t] = "show"]
  /\ UNCHANGED <<buff, lock, msg, countVars, writes>>

ShowByte(t) ==
  /\ pc[t] = "show"
  /\ buff["global_reclaim"][at[t]] # Nul
  /\ at' = [at EXCEPT ![t] = @ + 1]
  /\ UNCHANGED <<buff, lock, pc, node, msg, countVars, writes>>

ShowEnd(t) ==
  /\ pc[t] = "show"
  /\ buff["global_reclaim"][at[t]] = Nul
  /\ pc' = [pc EXCEPT ![t] = "idle"]
  /\ at' = [at EXCEPT ![t] = 1]
  /\ UNCHANGED <<buff, lock, node, msg, countVars, writes>>

-----------------------------------------------------------------------------
Next ==
  \E t \in Threads :
    \/ \E d \in Nodes, c \in 0 .. LogSize, b \in 0 .. 1 : WriteCall(t, d, c, b)
    \/ WriteLock(t) \/ CopyByte(t) \/ CopyFault(t) \/ Finish(t) \/ WriteUnlock(t)
    \/ Load(t) \/ TriggerCall(t) \/ Store(t)
    \/ ShowCall(t) \/ ShowByte(t) \/ ShowEnd(t)

Spec == Init /\ [][Next]_vars

-----------------------------------------------------------------------------
\* The types of the variables; every index is inside its buffer.
TypeOK ==
  /\ \A d \in Nodes : buff[d] \in
       [1 .. SizeOf(d) -> {Nul} \cup [msg : 1 .. MaxWrites, pos : 1 .. LogSize]]
  /\ lock \in [Locks -> Threads \cup {NoOwner}]
  /\ pc \in [Threads -> {"idle", "lock", "copy", "load", "store", "unlock",
                         "tstore", "show"}]
  /\ node \in [Threads -> Nodes] /\ msg \in [Threads -> 0 .. MaxWrites]
  /\ \A t \in Threads : at[t] \in 1 .. SizeOf(node[t])
  /\ triggers \in 0 .. MaxTriggers
  /\ reclaim_count \in Nat /\ done \in Nat /\ seen \in [Threads -> Nat]

(***************************************************************************)
(* A show finds a NUL inside the buffer at any time, the unlocked one of   *)
(* global_reclaim in the middle of a copy too: the last byte is never      *)
(* written to with anything else.                                          *)
(***************************************************************************)
AlwaysTerminated ==
  \A d \in Nodes : \E i \in 1 .. SizeOf(d) :
    buff[d][i] = Nul /\ \A t \in Threads : pc[t] = "show" /\ node[t] = d => at[t] <= i

\* The text a show prints: the bytes before the first NUL.
TextOf(d) == {i \in 1 .. SizeOf(d) : \A j \in 1 .. i : buff[d][j] # Nul}

(***************************************************************************)
(* A show that holds the mutex prints the beginning of ONE written text:   *)
(* never the head of one write followed by the tail of an older one, not   *)
(* even after a write that failed half way with -EFAULT.                   *)
(***************************************************************************)
LockedShowIsOneText ==
  \A d \in Nodes :
    lock[LockOf(d)] = NoOwner =>
      \E m \in 0 .. Len(writes) :
        \A i \in TextOf(d) : buff[d][i] = ByteOf(m, i)

(***************************************************************************)
(* Increments by global_reclaim_write alone are all counted, as mimd_lock  *)
(* orders them.  With mimdtrigger_store, which does not take it, some may  *)
(* be lost; the counter never shows more than there were, and at least one.*)
(***************************************************************************)
CountLosesOnlyToTriggers ==
  /\ triggers = 0 => reclaim_count = done
  /\ reclaim_count <= done
  /\ done > 0 => reclaim_count > 0
=============================================================================
