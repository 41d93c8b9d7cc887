----------------------------- MODULE MievProofs -----------------------------
(***************************************************************************)
(* Proofs about the queue, the event builder and the two together, for any *)
(* number of readers and writers and any queue that holds at least one     *)
(* record of maximal size.                                                 *)
(***************************************************************************)
EXTENDS MievSystem, SequenceTheorems, FiniteSetTheorems, WellFoundedInduction, TLAPS

\* The inductive invariant.
IInv == TypeOK /\ CriticalSectionStable /\ NoLostWakeup

-----------------------------------------------------------------------------
\* Prefix(m, n) is the sequence of the first n bytes of record m.
LEMMA PrefixProperties ==
  ASSUME NEW m \in 1 .. MaxWrites, NEW n \in 0 .. MaxEvent
  PROVE  /\ Prefix(m, n) \in Seq(Byte)
         /\ Len(Prefix(m, n)) = n
         /\ \A i \in 1 .. n : Prefix(m, n)[i] = [msg |-> m, pos |-> i]
<1>1. Prefix(m, n) \in [1 .. n -> Byte]
  BY QueueAssumption DEF Prefix, Byte
<1>2. QED
  BY <1>1 DEF Prefix

\* Splitting a sequence and joining the parts gives it back: the bytes
\* kfifo_to_user takes and the ones it leaves are the bytes that were there.
LEMMA SplitQueue ==
  ASSUME NEW f \in Seq(Byte), NEW n \in 0 .. Len(f)
  PROVE  /\ SubSeq(f, 1, n) \in Seq(Byte)
         /\ SubSeq(f, n + 1, Len(f)) \in Seq(Byte)
         /\ Len(SubSeq(f, n + 1, Len(f))) = Len(f) - n
         /\ SubSeq(f, 1, n) \o SubSeq(f, n + 1, Len(f)) = f
<1>1. \A i \in 1 .. Len(f) : f[i] \in Byte
  OBVIOUS
<1>2. SubSeq(f, 1, n) \in Seq(Byte)
  BY <1>1, SubSeqProperties
<1>3. /\ SubSeq(f, n + 1, Len(f)) \in Seq(Byte)
      /\ Len(SubSeq(f, n + 1, Len(f))) = Len(f) - n
  <2>1. \A i \in n + 1 .. Len(f) : f[i] \in Byte
    BY <1>1
  <2>2. n + 1 \in Int /\ Len(f) \in Int
    OBVIOUS
  <2>3. /\ SubSeq(f, n + 1, Len(f)) \in Seq(Byte)
        /\ Len(SubSeq(f, n + 1, Len(f)))
             = IF n + 1 <= Len(f) THEN Len(f) - (n + 1) + 1 ELSE 0
    BY <2>1, <2>2, SubSeqProperties
  <2>4. QED
    BY <2>3
<1>4. SubSeq(f, 1, n) \o SubSeq(f, n + 1, Len(f)) = SubSeq(f, 1, Len(f))
  <2>1. 1 \in 1 .. Len(f) + 1 /\ n \in 1 - 1 .. Len(f) /\ Len(f) \in n .. Len(f)
    OBVIOUS
  <2>2. QED
    BY <2>1, ConcatAdjacentSubSeq
<1>5. QED
  BY <1>2, <1>3, <1>4, SubSeqFull

\* Concatenation of byte sequences is associative.
LEMMA Associative ==
  ASSUME NEW s \in Seq(Byte), NEW t \in Seq(Byte), NEW u \in Seq(Byte)
  PROVE  (s \o t) \o u = s \o (t \o u)
BY ConcatAssociative, SMTT(30)

\* Moving the boundary between taken and queued bytes keeps their sequence.
LEMMA JoinQueue ==
  ASSUME NEW t \in Seq(Byte), NEW f \in Seq(Byte), NEW n \in 0 .. Len(f)
  PROVE  (t \o SubSeq(f, 1, n)) \o SubSeq(f, n + 1, Len(f)) = t \o f
<1>1. PICK g \in Seq(Byte), h \in Seq(Byte) :
        /\ g = SubSeq(f, 1, n) /\ h = SubSeq(f, n + 1, Len(f))
        /\ g \o h = f
  BY SplitQueue
<1>2. (t \o g) \o h = t \o (g \o h)
  BY Associative
<1>3. QED
  BY <1>1, <1>2

\* A concatenation is empty only when its parts are.
LEMMA EmptyConcat ==
  ASSUME NEW s \in Seq(Byte), NEW t \in Seq(Byte), s \o t = <<>>
  PROVE  s = <<>>
BY ConcatEqualIffEmpty

\* Room never promises more than asked for or than there is room for.
LEMMA RoomProperties ==
  ASSUME NEW len \in 1 .. MaxEvent, Len(fifo) \in 0 .. FifoSize
  PROVE  /\ Room(len) \in 0 .. len
         /\ Room(len) + Len(fifo) <= FifoSize
         /\ Len(fifo) = 0 => Room(len) = len
BY QueueAssumption DEF Room, Least

\* What kfifo_in adds to the queue is the writer's own record, as far as it
\* fits: nobody wrote to the slots since the writer copied it there.
LEMMA PutIsOwn ==
  ASSUME IInv, NEW w \in Writers, WPut(w)
  PROVE  fifo' = fifo \o Prefix(wmsg[w], wput[w])
<1>1. wput[w] \in 0 .. MaxEvent
  BY DEF IInv, TypeOK, WriterType
<1>2. \A i \in 1 .. wput[w] : slots[i] = [msg |-> wmsg[w], pos |-> i]
  BY DEF IInv, CriticalSectionStable, WPut
<1>3. [i \in 1 .. wput[w] |-> slots[i]] = Prefix(wmsg[w], wput[w])
  BY <1>1, <1>2 DEF Prefix
<1>4. QED
  BY <1>3 DEF WPut, WAdvance

-----------------------------------------------------------------------------
\* The inductive invariant holds of the freshly initialised device.
LEMMA InitIInv == Init => IInv
BY QueueAssumption DEF Init, IInv, TypeOK, QueueType, ReaderType, WriterType,
    CriticalSectionStable, NoLostWakeup

(***************************************************************************)
(* One step of any thread preserves the invariant.  The two interesting    *)
(* cases: WPut puts data in an empty queue only when the whole record fits *)
(* (MaxEvent <= FifoSize), so it goes on to wake; and a short WPut finds   *)
(* data there already, so the writer that owes the wake-up is another one. *)
(***************************************************************************)
LEMMA NextIInv == IInv /\ [Next]_vars => IInv'
<1> SUFFICES ASSUME IInv, [Next]_vars PROVE IInv'
  OBVIOUS
<1> USE QueueAssumption DEF IInv, rvars, wvars
<1>1. ASSUME NEW w \in Writers, NEW len \in 1 .. MaxEvent, WriteCall(w, len)
      PROVE  IInv'
  <2>1. TypeOK'
    <3>1. QueueType' /\ ReaderType'
      BY <1>1 DEF WriteCall, TypeOK, QueueType, ReaderType
    <3>2. WriterType'
      BY <1>1 DEF WriteCall, TypeOK, WriterType
    <3>3. QED
      BY <3>1, <3>2 DEF TypeOK
  <2>2. CriticalSectionStable'
    <3>1. \A v \in Writers : wpc'[v] \in {"copy", "put"} =>
            wpc[v] = wpc'[v] /\ wmsg'[v] = wmsg[v] /\ lens'[wmsg[v]] = lens[wmsg[v]]
      <4>1. \A v \in Writers \ {w} : wpc'[v] = wpc[v] /\ wmsg'[v] = wmsg[v]
        BY <1>1 DEF WriteCall, TypeOK, WriterType
      <4>2. wpc'[w] = "lock"
        BY <1>1 DEF WriteCall, TypeOK, WriterType
      <4>3. \A v \in Writers : wpc[v] # "idle" => lens'[wmsg[v]] = lens[wmsg[v]]
        BY <1>1 DEF WriteCall, TypeOK, WriterType
      <4>4. QED
        BY <4>1, <4>2, <4>3
    <3>2. UNCHANGED <<fifo, slots, lock, wput, rpc, rlen>>
      BY <1>1 DEF WriteCall
    <3>3. QED
      BY <3>1, <3>2 DEF CriticalSectionStable, Room
  <2>3. NoLostWakeup'
    BY <1>1 DEF WriteCall, TypeOK, WriterType, NoLostWakeup
  <2>4. QED
    BY <2>1, <2>2, <2>3
<1>2. ASSUME NEW w \in Writers, WLock(w)
      PROVE  IInv'
  <2>1. Room(lens[wmsg[w]]) \in 0 .. MaxEvent
    <3>1. lens[wmsg[w]] \in 1 .. MaxEvent
      BY <1>2 DEF WLock, TypeOK, QueueType, ReaderType, WriterType
    <3>2. Len(fifo) \in 0 .. FifoSize
      BY DEF TypeOK, QueueType
    <3>3. Room(lens[wmsg[w]]) \in 0 .. lens[wmsg[w]]
      BY <3>1, <3>2, RoomProperties
    <3>4. QED
      BY <3>1, <3>3
  <2>2. TypeOK'
    BY <1>2, <2>1 DEF WLock, TypeOK, QueueType, ReaderType, WriterType
  <2>3. CriticalSectionStable'
    BY <1>2 DEF WLock, TypeOK, QueueType, ReaderType, WriterType, CriticalSectionStable, Room, Least
  <2>4. NoLostWakeup'
    BY <1>2 DEF WLock, TypeOK, QueueType, ReaderType, WriterType, NoLostWakeup
  <2>5. QED
    BY <2>2, <2>3, <2>4
<1>3. ASSUME NEW w \in Writers, WPut(w)
      PROVE  IInv'
  <2> DEFINE m == wmsg[w]
             n == wput[w]
  <2>1. /\ m \in 1 .. MaxWrites /\ lens[m] \in 1 .. MaxEvent
        /\ n = Room(lens[m]) /\ lock = w
    <3>1. m \in 1 .. calls /\ calls \in 0 .. MaxWrites
      BY <1>3 DEF WPut, TypeOK, WriterType
    <3>2. lens[m] \in 1 .. MaxEvent
      BY <3>1 DEF TypeOK, WriterType
    <3>3. QED
      BY <1>3, <3>1, <3>2 DEF WPut, CriticalSectionStable
  <2>2. /\ n \in 0 .. MaxEvent /\ n + Len(fifo) <= FifoSize
        /\ Len(fifo) = 0 => n = lens[m]
    BY <2>1, RoomProperties DEF TypeOK, QueueType, ReaderType, WriterType
  <2>3. /\ Prefix(m, n) \in Seq(Byte) /\ Len(Prefix(m, n)) = n
    BY <2>1, <2>2, PrefixProperties
  <2>4. fifo' \in Seq(Byte) /\ Len(fifo') = Len(fifo) + n
    <3>1. fifo' = fifo \o Prefix(m, n) /\ fifo \in Seq(Byte)
      BY <1>3, PutIsOwn DEF TypeOK, QueueType
    <3>2. QED
      BY <2>3, <3>1, ConcatProperties
  <2>5. TypeOK'
    <3>1. QueueType' /\ ReaderType'
      BY <1>3, <2>2, <2>4 DEF WPut, WPutDone, TypeOK, QueueType, ReaderType
    <3>2. WriterType'
      <4>1. refused' \subseteq 1 .. calls
        BY <1>3 DEF WPut, WPutDone, TypeOK, WriterType
      <4>2. wpc' \in [Writers -> {"idle", "lock", "copy", "put", "wake"}]
        BY <1>3 DEF WPut, WPutDone, TypeOK, WriterType
      <4>3. \A v \in Writers : wpc'[v] # "idle" => wpc[v] # "idle"
        BY <1>3 DEF WPut, WPutDone, TypeOK, WriterType
      <4>4. slots' \in [1 .. MaxEvent -> Byte \cup {Stale}]
        BY <1>3 DEF WPut, WAdvance
      <4>5. wput' \in [Writers -> 0 .. MaxEvent]
        BY <1>3 DEF WPut, WPutDone, TypeOK, WriterType
      <4>6. UNCHANGED <<wmsg, calls, lens, acked>>
        BY <1>3 DEF WPut, WPutDone
      <4>7. QED
        BY <4>1, <4>2, <4>3, <4>4, <4>5, <4>6 DEF TypeOK, WriterType
    <3>3. QED
      BY <3>1, <3>2 DEF TypeOK
  <2>6. CriticalSectionStable'
    BY <1>3, <2>1 DEF WPut, WPutDone, TypeOK, QueueType, ReaderType, WriterType, CriticalSectionStable
  <2>7. NoLostWakeup'
    <3>1. CASE n = lens[m]
      BY <1>3, <3>1 DEF WPut, WPutDone, TypeOK, QueueType, ReaderType, WriterType, NoLostWakeup
    <3>2. CASE n # lens[m]
      <4>1. fifo # <<>>
        BY <2>2, <3>2 DEF TypeOK, QueueType, ReaderType, WriterType
      <4>2. \A v \in Writers : wpc[v] = "wake" => wpc'[v] = "wake"
        BY <1>3 DEF WPut, WPutDone, TypeOK, QueueType, ReaderType, WriterType
      <4>3. UNCHANGED <<rpc, waiters>>
        BY <1>3 DEF WPut, WPutDone
      <4>4. QED
        BY <4>1, <4>2, <4>3 DEF NoLostWakeup
    <3>3. QED
      BY <3>1, <3>2
  <2>8. QED
    BY <2>5, <2>6, <2>7
<1>4. ASSUME NEW w \in Writers, WWake(w)
      PROVE  IInv'
  <2>1. TypeOK'
    BY <1>4 DEF WWake, TypeOK, QueueType, ReaderType, WriterType
  <2>2. CriticalSectionStable'
    BY <1>4 DEF WWake, TypeOK, QueueType, ReaderType, WriterType, CriticalSectionStable, Room, Least
  <2>3. NoLostWakeup'
    BY <1>4 DEF WWake, NoLostWakeup
  <2>4. QED
    BY <2>1, <2>2, <2>3
<1>10. ASSUME NEW w \in Writers, WCopy(w)
       PROVE  IInv'
  <2>1. /\ wmsg[w] \in 1 .. MaxWrites /\ wput[w] \in 0 .. MaxEvent /\ lock = w
        /\ UNCHANGED <<fifo, lock, wmsg, wput, lens, rpc, rlen, waiters>>
    <3>1. wmsg[w] \in 1 .. calls /\ calls \in 0 .. MaxWrites /\ wput[w] \in 0 .. MaxEvent
      BY <1>10 DEF WCopy, TypeOK, WriterType
    <3>2. wmsg[w] \in 1 .. MaxWrites
      BY <3>1
    <3>3. QED
      BY <1>10, <3>1, <3>2 DEF WCopy, CriticalSectionStable
  <2>2. /\ wpc' \in [Writers -> {"idle", "lock", "copy", "put", "wake"}]
        /\ wpc[w] = "copy" /\ wpc'[w] = "put"
        /\ \A v \in Writers \ {w} : wpc'[v] = wpc[v]
    BY <1>10 DEF WCopy, TypeOK, WriterType
  <2>3. slots' \in [1 .. MaxEvent -> Byte \cup {Stale}]
    <3>1. \A i \in 1 .. MaxEvent : [msg |-> wmsg[w], pos |-> i] \in Byte
      BY <2>1 DEF Byte
    <3>2. QED
      BY <1>10, <3>1 DEF WCopy, TypeOK, WriterType
  <2>4. TypeOK'
    <3>1. QueueType' /\ ReaderType'
      BY <1>10 DEF WCopy, TypeOK, QueueType, ReaderType
    <3>2. WriterType'
      BY <1>10, <2>2, <2>3 DEF WCopy, TypeOK, WriterType
    <3>3. QED
      BY <3>1, <3>2 DEF TypeOK
  <2>5. CriticalSectionStable'
    <3>1. \A v \in Writers : wpc'[v] \in {"copy", "put"} => v = w
      BY <2>1, <2>2 DEF CriticalSectionStable
    <3>2. \A i \in 1 .. wput[w] : slots'[i] = [msg |-> wmsg[w], pos |-> i]
      BY <1>10, <2>1 DEF WCopy
    <3>3. wput[w] = Room(lens[wmsg[w]])
      BY <2>2 DEF CriticalSectionStable
    <3>4. QED
      BY <2>1, <3>1, <3>2, <3>3 DEF CriticalSectionStable, Room
  <2>6. NoLostWakeup'
    <3>1. \A v \in Writers : wpc[v] = "wake" => wpc'[v] = "wake"
      BY <2>2
    <3>2. QED
      BY <2>1, <3>1 DEF NoLostWakeup
  <2>7. QED
    BY <2>4, <2>5, <2>6
<1>5. ASSUME NEW r \in Readers,
             \/ \E c \in Counts, b \in BOOLEAN : ReadCall(r, c, b)
             \/ PollCall(r) \/ RPrepare(r) \/ RCheck(r) \/ RResume(r) \/ RSignal(r)
      PROVE  IInv'
  <2> USE DEF ReadCall, PollCall, RPrepare, RCheck, RResume, RSignal, Proceed
  <2>1. TypeOK'
    <3>1. QueueType' /\ WriterType'
      <4>1. UNCHANGED <<fifo, lock, taken>> /\ UNCHANGED wvars
        BY <1>5
      <4>2. QED
        BY <4>1 DEF TypeOK, QueueType, WriterType
    <3>2. ReaderType'
      <4>1. waiters' \subseteq Readers
        BY <1>5 DEF TypeOK, ReaderType
      <4>2. rpc' \in [Readers -> {"idle", "prepare", "check", "sleep", "lock", "take"}]
        BY <1>5 DEF TypeOK, ReaderType
      <4>3. rop' \in [Readers -> {"read", "poll"}] /\ rlen' \in [Readers -> Nat]
        BY <1>5 DEF TypeOK, ReaderType
      <4>4. QED
        BY <4>1, <4>2, <4>3 DEF ReaderType
    <3>3. QED
      BY <3>1, <3>2 DEF TypeOK
  <2>2. CriticalSectionStable'
    <3>1. UNCHANGED <<fifo, slots, lock, wpc, wmsg, wput, lens>>
      BY <1>5
    <3>2. \A q \in Readers : rpc'[q] = "take" => rpc[q] = "take" /\ rlen'[q] = rlen[q]
      BY <1>5 DEF TypeOK, ReaderType
    <3>3. QED
      BY <3>1, <3>2 DEF CriticalSectionStable, Room
  <2>3. NoLostWakeup'
    BY <1>5 DEF TypeOK, QueueType, ReaderType, WriterType, NoLostWakeup
  <2>4. QED
    BY <2>1, <2>2, <2>3
<1>6. ASSUME NEW r \in Readers, RLock(r)
      PROVE  IInv'
  <2>1. TypeOK'
    BY <1>6 DEF RLock, Least, TypeOK, QueueType, ReaderType, WriterType
  <2>2. CriticalSectionStable'
    BY <1>6 DEF RLock, TypeOK, QueueType, ReaderType, WriterType, CriticalSectionStable, Room, Least
  <2>3. NoLostWakeup'
    BY <1>6 DEF RLock, TypeOK, QueueType, ReaderType, WriterType, NoLostWakeup
  <2>4. QED
    BY <2>1, <2>2, <2>3
<1>7. ASSUME NEW r \in Readers, NEW n \in 0 .. FifoSize, RTake(r, n)
      PROVE  IInv'
  <2>1. n \in 0 .. Len(fifo) /\ lock = r
    BY <1>7 DEF RTake, TypeOK, QueueType, ReaderType, WriterType, CriticalSectionStable
  <2>2. /\ fifo' \in Seq(Byte) /\ Len(fifo') = Len(fifo) - n
        /\ SubSeq(fifo, 1, n) \in Seq(Byte)
    BY <1>7, <2>1, SplitQueue DEF RTake, TypeOK, QueueType, ReaderType, WriterType
  <2>3. taken' \in Seq(Byte)
    BY <1>7, <2>2, ConcatProperties DEF RTake, TypeOK, QueueType
  <2>4. TypeOK'
    <3>1. QueueType'
      BY <1>7, <2>1, <2>2, <2>3 DEF RTake, TypeOK, QueueType
    <3>2. WriterType'
      <4>1. UNCHANGED wvars
        BY <1>7 DEF RTake
      <4>2. QED
        BY <4>1 DEF TypeOK, WriterType
    <3>3. ReaderType'
      BY <1>7 DEF RTake, TypeOK, ReaderType
    <3>4. QED
      BY <3>1, <3>2, <3>3 DEF TypeOK
  <2>5. CriticalSectionStable'
    BY <1>7, <2>1 DEF RTake, TypeOK, QueueType, ReaderType, WriterType, CriticalSectionStable
  <2>6. NoLostWakeup'
    <3>1. fifo = <<>> => fifo' = <<>>
      BY <2>1, <2>2 DEF TypeOK, QueueType, ReaderType, WriterType
    <3>2. \A q \in Readers : rpc'[q] = "sleep" => rpc[q] = "sleep"
      BY <1>7 DEF RTake, TypeOK, QueueType, ReaderType, WriterType
    <3>3. UNCHANGED <<waiters, wpc>>
      BY <1>7 DEF RTake
    <3>4. QED
      BY <3>1, <3>2, <3>3 DEF NoLostWakeup
  <2>7. QED
    BY <2>4, <2>5, <2>6
<1>8. CASE UNCHANGED vars
  BY <1>8 DEF vars, TypeOK, QueueType, ReaderType, WriterType,
         CriticalSectionStable, NoLostWakeup, Room, Least
<1>9. QED
  BY <1>1, <1>2, <1>3, <1>4, <1>5, <1>6, <1>7, <1>8, <1>10
     DEF Next, WStep, RStep, RTakeAny

\* The inductive invariant holds in every state the device can reach.
LEMMA InvariantIInv == Spec => []IInv
BY InitIInv, NextIInv, PTL DEF Spec

\* The variables keep their types and the kfifo its bound.
THEOREM TypeCorrect == Spec => []TypeOK
BY InvariantIInv, PTL DEF IInv

\* No sleeper misses data: the wake-up is always still to come.
THEOREM WakeupNeverLost == Spec => []NoLostWakeup
BY InvariantIInv, PTL DEF IInv

\* The mutex makes kfifo_in and kfifo_to_user atomic.
THEOREM CriticalSectionSafe == Spec => []CriticalSectionStable
BY InvariantIInv, PTL DEF IInv

-----------------------------------------------------------------------------
\* kfifo_in appends the first bytes of the writer's record to the stream, as
\* many as there is room for.
LEMMA PutStream ==
  ASSUME IInv, NEW w \in Writers, WPut(w)
  PROVE  /\ wmsg[w] \in 1 .. calls /\ wmsg[w] \in 1 .. MaxWrites
         /\ lens[wmsg[w]] \in 1 .. MaxEvent
         /\ wput[w] = Room(lens[wmsg[w]])
         /\ wput[w] \in 0 .. MaxEvent
         /\ Stream' = Stream \o Prefix(wmsg[w], wput[w])
<1> USE QueueAssumption DEF IInv
<1> DEFINE m == wmsg[w]
           k == wput[w]
<1>1. m \in 1 .. calls /\ calls \in 0 .. MaxWrites /\ k \in 0 .. MaxEvent
  BY DEF WPut, TypeOK, WriterType
<1>2. lens[m] \in 1 .. MaxEvent /\ k = Room(lens[m])
  <2>1. lens[m] \in 1 .. MaxEvent
    BY <1>1 DEF TypeOK, WriterType
  <2>2. k = Room(lens[m])
    BY DEF WPut, CriticalSectionStable
  <2>3. QED
    BY <2>1, <2>2
<1>3. m \in 1 .. MaxWrites /\ Prefix(m, k) \in Seq(Byte)
  <2>1. m \in 1 .. MaxWrites
    BY <1>1
  <2>2. QED
    BY <1>1, <2>1, PrefixProperties
<1>4. /\ fifo \in Seq(Byte) /\ taken \in Seq(Byte)
      /\ fifo' = fifo \o Prefix(m, k) /\ taken' = taken
  <2>1. fifo' = fifo \o Prefix(m, k)
    BY PutIsOwn
  <2>2. QED
    BY <2>1 DEF WPut, WPutDone, TypeOK, QueueType
<1>5. taken \o (fifo \o Prefix(m, k)) = (taken \o fifo) \o Prefix(m, k)
  <2>1. PICK p \in Seq(Byte) : p = Prefix(m, k)
    BY <1>3
  <2>2. taken \o (fifo \o p) = (taken \o fifo) \o p
    BY <1>4, Associative
  <2>3. QED
    BY <2>1, <2>2
<1>6. Stream' = Stream \o Prefix(m, k)
  BY <1>4, <1>5 DEF Stream
<1>7. QED
  BY <1>1, <1>2, <1>3, <1>6

\* kfifo_to_user moves the boundary between what was taken and what is queued.
LEMMA TakeStream ==
  ASSUME IInv, NEW r \in Readers, NEW k \in 0 .. FifoSize, RTake(r, k)
  PROVE  /\ k \in 0 .. Len(fifo)
         /\ Stream' = Stream
         /\ Len(taken') = Len(taken) + k
<1> USE QueueAssumption DEF IInv
<1>1. k \in 0 .. Len(fifo)
  BY DEF RTake, TypeOK, QueueType, ReaderType, CriticalSectionStable
<1>2. fifo \in Seq(Byte) /\ taken \in Seq(Byte)
  BY DEF TypeOK, QueueType
<1>3. /\ taken' = taken \o SubSeq(fifo, 1, k)
      /\ fifo' = SubSeq(fifo, k + 1, Len(fifo))
  BY DEF RTake
<1>4. Stream' = Stream
  BY <1>1, <1>2, <1>3, JoinQueue DEF Stream
<1>5. SubSeq(fifo, 1, k) \in Seq(Byte) /\ Len(SubSeq(fifo, 1, k)) = k
  <2>1. SubSeq(fifo, 1, k) \in Seq(Byte)
    BY <1>1, <1>2, SplitQueue
  <2>2. Len(SubSeq(fifo, 1, k)) = IF 1 <= k THEN k - 1 + 1 ELSE 0
    <3>1. \A i \in 1 .. k : fifo[i] \in Byte
      BY <1>1, <1>2
    <3>2. 1 \in Int /\ k \in Int
      OBVIOUS
    <3>3. QED
      BY <1>2, <3>1, <3>2, SubSeqProperties
  <2>3. QED
    BY <2>1, <2>2
<1>6. Len(taken') = Len(taken) + k
  BY <1>2, <1>3, <1>5, ConcatProperties
<1>7. QED
  BY <1>1, <1>4, <1>6

\* Nothing else touches the stream.
LEMMA StreamSteps ==
  ASSUME IInv, [Next]_vars
  PROVE  \/ Stream' = Stream
         \/ \E m \in 1 .. MaxWrites, k \in 0 .. MaxEvent :
              Stream' = Stream \o Prefix(m, k)
<1>1. ASSUME NEW w \in Writers, WPut(w)
      PROVE  \E m \in 1 .. MaxWrites, k \in 0 .. MaxEvent :
               Stream' = Stream \o Prefix(m, k)
  BY <1>1, PutStream
<1>2. ASSUME NEW r \in Readers, NEW k \in 0 .. FifoSize, RTake(r, k)
      PROVE  Stream' = Stream
  BY <1>2, TakeStream
<1>3. ASSUME UNCHANGED <<fifo, taken>>
      PROVE  Stream' = Stream
  BY <1>3 DEF Stream
<1>4. QED
  BY <1>1, <1>2, <1>3
     DEF Next, WStep, RStep, RTakeAny, vars, WriteCall, WLock, WCopy, WWake, ReadCall,
         PollCall, RPrepare, RCheck, RResume, RSignal, RLock

\* The head of a record may follow anything.
LEMMA ContiguousAppend ==
  ASSUME NEW s \in Seq(Byte), Contiguous(s),
         NEW m \in 1 .. MaxWrites, NEW n \in 0 .. MaxEvent
  PROVE  Contiguous(s \o Prefix(m, n))
<1> DEFINE p == Prefix(m, n)
           t == s \o p
<1>1. /\ p \in Seq(Byte) /\ Len(p) = n
      /\ \A i \in 1 .. n : p[i] = [msg |-> m, pos |-> i]
  BY PrefixProperties
<1> HIDE DEF p
<1>2. /\ Len(t) = Len(s) + n
      /\ \A i \in 1 .. Len(s) + n : t[i] = IF i <= Len(s) THEN s[i] ELSE p[i - Len(s)]
  BY <1>1, ConcatProperties
<1> HIDE DEF t
<1>3. ASSUME NEW i \in 1 .. Len(t)
      PROVE  t[i].pos = 1 \/ (i > 1 /\ t[i-1].msg = t[i].msg /\ t[i-1].pos = t[i].pos - 1)
  <2>1. CASE i <= Len(s)
    <3>1. i \in 1 .. Len(s) /\ Len(s) \in Nat
      BY <1>2, <2>1
    <3>2. t[i] = s[i] /\ (i > 1 => t[i-1] = s[i-1])
      BY <1>2, <3>1
    <3>3. s[i].pos = 1 \/ (i > 1 /\ s[i-1].msg = s[i].msg /\ s[i-1].pos = s[i].pos - 1)
      BY <3>1 DEF Contiguous
    <3>4. QED
      BY <3>2, <3>3
  <2>2. CASE i = Len(s) + 1
    BY <1>1, <1>2, <2>2
  <2>3. CASE i > Len(s) + 1
    <3>1. i - Len(s) \in 1 .. n /\ (i - 1) - Len(s) \in 1 .. n
      BY <1>2, <2>3
    <3>2. t[i] = p[i - Len(s)] /\ t[i-1] = p[(i - 1) - Len(s)]
      BY <1>2, <2>3
    <3>3. /\ t[i] = [msg |-> m, pos |-> i - Len(s)]
          /\ t[i-1] = [msg |-> m, pos |-> (i - 1) - Len(s)]
      BY <1>1, <3>1, <3>2
    <3>4. QED
      BY <2>3, <3>3
  <2>4. QED
    BY <2>1, <2>2, <2>3
<1>4. QED
  BY <1>3 DEF Contiguous, t, p

(***************************************************************************)
(* Whatever the interleaving, records are never mixed in the stream.  The  *)
(* slots a record is copied to are open to every writer until `in' is past *)
(* them; that they hold one record then is CriticalSectionStable.          *)
(***************************************************************************)
THEOREM RecordsNeverMixed == Spec => []RecordsContiguous
<1>1. Init => RecordsContiguous
  <2>1. Init => Stream = <<>>
    BY ConcatEmptySeq DEF Init, Stream
  <2>2. QED
    BY <2>1 DEF RecordsContiguous, Contiguous
<1>2. IInv /\ RecordsContiguous /\ [Next]_vars => RecordsContiguous'
  <2> SUFFICES ASSUME IInv, RecordsContiguous, [Next]_vars
               PROVE  RecordsContiguous'
    OBVIOUS
  <2>1. Stream \in Seq(Byte)
    BY ConcatProperties DEF IInv, TypeOK, QueueType, Stream
  <2>2. Contiguous(Stream)
    BY DEF RecordsContiguous
  <2>3. Contiguous(Stream')
    BY <2>1, <2>2, StreamSteps, ContiguousAppend
  <2>4. QED
    BY <2>3 DEF RecordsContiguous, Contiguous
<1>3. QED
  BY <1>1, <1>2, InvariantIInv, PTL DEF Spec

-----------------------------------------------------------------------------
\* The mutex is free, or its owner is where its next steps, which wait for
\* nothing, release it.
OwnerReleases ==
  \/ lock = NoOwner
  \/ lock \in Writers /\ wpc[lock] \in {"copy", "put"}
  \/ lock \in Readers /\ rpc[lock] = "take"

(***************************************************************************)
(* miev_dev->lock is never left locked: every way out of write_buf_inner   *)
(* and miev_read, -ENOSPC, -EFAULT and signals included, has unlocked it.  *)
(* It is the safety half of WriterReturns: no thread waits for ever for a  *)
(* mutex that nobody will release.                                         *)
(***************************************************************************)
THEOREM MutexNeverLeaks == Spec => []OwnerReleases
<1>1. Init => OwnerReleases
  BY DEF Init, OwnerReleases
<1>2. IInv /\ OwnerReleases /\ [Next]_vars => OwnerReleases'
  <2> SUFFICES ASSUME IInv, OwnerReleases, [Next]_vars PROVE OwnerReleases'
    OBVIOUS
  <2> USE QueueAssumption DEF OwnerReleases, rvars, wvars
  <2>1. /\ wpc \in [Writers -> {"idle", "lock", "copy", "put", "wake"}]
        /\ rpc \in [Readers -> {"idle", "prepare", "check", "sleep", "lock", "take"}]
    BY DEF IInv, TypeOK, ReaderType, WriterType
  <2>2. ASSUME NEW w \in Writers, NEW len \in 1 .. MaxEvent, WriteCall(w, len)
        PROVE  OwnerReleases'
    BY <2>1, <2>2 DEF WriteCall
  <2>3. ASSUME NEW w \in Writers, WLock(w) PROVE OwnerReleases'
    BY <2>1, <2>3 DEF WLock
  <2>11. ASSUME NEW w \in Writers, WCopy(w) PROVE OwnerReleases'
    BY <2>1, <2>11 DEF WCopy
  <2>4. ASSUME NEW w \in Writers, WPut(w) PROVE OwnerReleases'
    BY <2>4 DEF WPut, WPutDone
  <2>5. ASSUME NEW w \in Writers, WWake(w) PROVE OwnerReleases'
    BY <2>1, <2>5 DEF WWake
  <2>6. ASSUME NEW r \in Readers,
               \/ \E c \in Counts, b \in BOOLEAN : ReadCall(r, c, b)
               \/ PollCall(r) \/ RPrepare(r) \/ RCheck(r) \/ RResume(r) \/ RSignal(r)
        PROVE  OwnerReleases'
    <3>1. UNCHANGED <<lock, wpc>> /\ rpc[r] # "take"
      BY <2>6 DEF ReadCall, PollCall, RPrepare, RCheck, RResume, RSignal
    <3>2. \A q \in Readers : q # r => rpc'[q] = rpc[q]
      BY <2>1, <2>6 DEF ReadCall, PollCall, RPrepare, RCheck, RResume, RSignal
    <3>3. QED
      BY <3>1, <3>2
  <2>7. ASSUME NEW r \in Readers, RLock(r) PROVE OwnerReleases'
    BY <2>1, <2>7 DEF RLock
  <2>8. ASSUME NEW r \in Readers, NEW n \in 0 .. FifoSize, RTake(r, n) PROVE OwnerReleases'
    BY <2>8 DEF RTake
  <2>9. CASE UNCHANGED vars
    BY <2>9 DEF vars
  <2>10. QED
    BY <2>2, <2>3, <2>4, <2>5, <2>6, <2>7, <2>8, <2>9, <2>11
       DEF Next, WStep, RStep, RTakeAny
<1>3. QED
  BY <1>1, <1>2, InvariantIInv, PTL DEF Spec

-----------------------------------------------------------------------------
\* A lone reader that saw data still finds it when it has the mutex.
THEOREM SoleReaderSafe == Spec => []SoleReaderFindsData
<1>1. Init => SoleReaderFindsData
  BY DEF Init, SoleReaderFindsData
<1>2. IInv /\ SoleReaderFindsData /\ [Next]_vars => SoleReaderFindsData'
  <2> SUFFICES ASSUME IInv, SoleReaderFindsData, [Next]_vars
               PROVE  SoleReaderFindsData'
    OBVIOUS
  <2> USE QueueAssumption DEF IInv, rvars, wvars
  <2>1. ASSUME NEW w \in Writers, WPut(w)
        PROVE  SoleReaderFindsData'
    <3>1. fifo' = <<>> => fifo = <<>>
      <4>1. wmsg[w] \in 1 .. MaxWrites /\ wput[w] \in 0 .. MaxEvent
        BY <2>1 DEF WPut, TypeOK, WriterType
      <4>2. Prefix(wmsg[w], wput[w]) \in Seq(Byte) /\ fifo \in Seq(Byte)
        BY <4>1, PrefixProperties DEF TypeOK, QueueType
      <4>3. fifo' = fifo \o Prefix(wmsg[w], wput[w])
        BY <2>1, PutIsOwn
      <4>4. QED
        BY <4>2, <4>3, EmptyConcat
    <3>2. UNCHANGED rpc
      BY <2>1 DEF WPut, WPutDone
    <3>3. QED
      BY <3>1, <3>2 DEF SoleReaderFindsData
  <2>2. ASSUME NEW w \in Writers,
               \/ \E len \in 1 .. MaxEvent : WriteCall(w, len)
               \/ WLock(w) \/ WCopy(w) \/ WWake(w)
        PROVE  SoleReaderFindsData'
    BY <2>2 DEF SoleReaderFindsData, WriteCall, WLock, WCopy, WWake
  <2>3. ASSUME NEW r \in Readers,
               \/ \E c \in Counts, b \in BOOLEAN : ReadCall(r, c, b)
               \/ PollCall(r) \/ RPrepare(r) \/ RCheck(r) \/ RResume(r)
               \/ RSignal(r) \/ RLock(r)
        PROVE  SoleReaderFindsData'
    BY <2>3 DEF SoleReaderFindsData, ReadCall, PollCall, RPrepare, RCheck,
                RResume, RSignal, RLock, Proceed, TypeOK, ReaderType
  <2>4. ASSUME NEW r \in Readers, NEW n \in 0 .. FifoSize, RTake(r, n)
        PROVE  SoleReaderFindsData'
    <3>1. rpc' = [rpc EXCEPT ![r] = "idle"] /\ DOMAIN rpc = Readers
      BY <2>4 DEF RTake, TypeOK, ReaderType
    <3>2. \A q \in Readers : rpc'[q] \in {"lock", "take"} => q # r
      BY <3>1
    <3>3. QED
      BY <3>2 DEF SoleReaderFindsData
  <2>5. CASE UNCHANGED vars
    BY <2>5 DEF vars, SoleReaderFindsData
  <2>6. QED
    BY <2>1, <2>2, <2>3, <2>4, <2>5 DEF Next, WStep, RStep, RTakeAny
<1>3. QED
  BY <1>1, <1>2, InvariantIInv, PTL DEF Spec

-----------------------------------------------------------------------------
(***************************************************************************)
(* Who a record belongs to: two writers inside write_buf_inner never have  *)
(* the same record, and the record of such a writer is not answered yet.   *)
(***************************************************************************)
RecordsOwned ==
  /\ \A v, w \in Writers :
       wpc[v] # "idle" /\ wpc[w] # "idle" /\ wmsg[v] = wmsg[w] => v = w
  /\ \A w \in Writers : wpc[w] # "idle" => wmsg[w] \notin acked \cup refused

\* The records stored whole, answered or not: MievStream's stored.
StoredRecords == acked \cup {wmsg[w] : w \in Waking}

\* The writers and readers keep the ownership of records.
LEMMA NextRecordsOwned == IInv /\ RecordsOwned /\ [Next]_vars => RecordsOwned'
<1> SUFFICES ASSUME IInv, RecordsOwned, [Next]_vars PROVE RecordsOwned'
  OBVIOUS
<1> USE QueueAssumption DEF IInv, TypeOK, WriterType, rvars, wvars, RecordsOwned
<1>1. ASSUME NEW w \in Writers, NEW len \in 1 .. MaxEvent, WriteCall(w, len)
      PROVE  RecordsOwned'
  <2>1. \A v \in Writers : wpc[v] # "idle" => wmsg[v] # calls + 1
    OBVIOUS
  <2>2. calls + 1 \notin acked \cup refused
    OBVIOUS
  <2>3. /\ wmsg'[w] = calls + 1
        /\ \A v \in Writers \ {w} : wpc'[v] = wpc[v] /\ wmsg'[v] = wmsg[v]
        /\ UNCHANGED <<acked, refused>>
    BY <1>1 DEF WriteCall
  <2>4. QED
    BY <2>1, <2>2, <2>3
<1>2. ASSUME NEW w \in Writers, WLock(w) \/ WCopy(w)
      PROVE  RecordsOwned'
  BY <1>2 DEF WLock, WCopy
<1>3. ASSUME NEW w \in Writers, WPut(w)
      PROVE  RecordsOwned'
  <2>1. CASE wput[w] = lens[wmsg[w]]
    BY <1>3, <2>1 DEF WPut, WPutDone
  <2>2. CASE wput[w] # lens[wmsg[w]]
    <3>1. /\ wpc'[w] = "idle" /\ refused' = refused \cup {wmsg[w]}
          /\ \A v \in Writers \ {w} : wpc'[v] = wpc[v]
          /\ UNCHANGED <<wmsg, acked>>
      BY <1>3, <2>2 DEF WPut, WPutDone
    <3>2. wpc[w] # "idle"
      BY <1>3 DEF WPut
    <3>3. QED
      BY <3>1, <3>2
  <2>3. QED
    BY <2>1, <2>2
<1>4. ASSUME NEW w \in Writers, WWake(w)
      PROVE  RecordsOwned'
  <2>1. /\ wpc'[w] = "idle" /\ acked' = acked \cup {wmsg[w]}
        /\ \A v \in Writers \ {w} : wpc'[v] = wpc[v]
        /\ UNCHANGED <<wmsg, refused>>
    BY <1>4 DEF WWake
  <2>2. wpc[w] # "idle"
    BY <1>4 DEF WWake
  <2>3. QED
    BY <2>1, <2>2
<1>5. CASE UNCHANGED <<wpc, wmsg, acked, refused>>
  BY <1>5
<1>6. QED
  BY <1>1, <1>2, <1>3, <1>4, <1>5
     DEF Next, WStep, RStep, RTakeAny, vars, ReadCall, PollCall, RPrepare,
         RCheck, RResume, RSignal, RLock, RTake

\* A record belongs to one writer until its write is answered.
LEMMA InvariantRecordsOwned == Spec => []RecordsOwned
<1>1. Init => RecordsOwned
  BY DEF Init, RecordsOwned
<1>2. QED
  BY <1>1, NextRecordsOwned, InvariantIInv, PTL DEF Spec

\* How the steps of a writer change the records stored whole.
LEMMA StoredSteps ==
  ASSUME IInv, RecordsOwned, NEW w \in Writers
  PROVE  /\ \A len \in 1 .. MaxEvent : WriteCall(w, len) => StoredRecords' = StoredRecords
         /\ WLock(w) \/ WCopy(w) => StoredRecords' = StoredRecords
         /\ WPut(w) /\ wput[w] = lens[wmsg[w]] => StoredRecords' = StoredRecords \cup {wmsg[w]}
         /\ WPut(w) /\ wput[w] # lens[wmsg[w]] => StoredRecords' = StoredRecords
         /\ WPut(w) => wmsg[w] \notin StoredRecords \cup refused
         /\ WWake(w) => StoredRecords' = StoredRecords /\ wmsg[w] \in StoredRecords \ acked
<1> USE DEF StoredRecords, Waking, IInv, TypeOK, WriterType
<1>1. ASSUME NEW len \in 1 .. MaxEvent, WriteCall(w, len) PROVE StoredRecords' = StoredRecords
  BY <1>1 DEF WriteCall
<1>2. ASSUME WLock(w) \/ WCopy(w) PROVE StoredRecords' = StoredRecords
  BY <1>2 DEF WLock, WCopy
<1>3. ASSUME WPut(w), wput[w] = lens[wmsg[w]] PROVE StoredRecords' = StoredRecords \cup {wmsg[w]}
  BY <1>3 DEF WPut, WPutDone
<1>4. ASSUME WPut(w), wput[w] # lens[wmsg[w]] PROVE StoredRecords' = StoredRecords
  BY <1>4 DEF WPut, WPutDone
<1>5. ASSUME WPut(w) PROVE wmsg[w] \notin StoredRecords \cup refused
  BY <1>5 DEF WPut, RecordsOwned
<1>6. ASSUME WWake(w) PROVE StoredRecords' = StoredRecords /\ wmsg[w] \in StoredRecords \ acked
  BY <1>6 DEF WWake, RecordsOwned
<1>7. QED
  BY <1>1, <1>2, <1>3, <1>4, <1>5, <1>6

\* The bytes readers have yet to get are the ones in the kfifo.
LEMMA WaitingBytes == ASSUME IInv PROVE Promise!Waiting = Len(fifo)
<1>1. fifo \in Seq(Byte) /\ taken \in Seq(Byte)
  BY DEF IInv, TypeOK, QueueType
<1>2. Len(taken \o fifo) = Len(taken) + Len(fifo)
  BY <1>1, ConcatProperties
<1>3. Len(taken) \in Nat /\ Len(fifo) \in Nat
  BY <1>1
<1>4. QED
  BY <1>2, <1>3 DEF Promise!Waiting, Stream

(***************************************************************************)
(* Every step of a thread is a step of the stream or leaves it as it is:   *)
(* the store under the mutex is where a write takes effect, the take where *)
(* a read does, the wake-up where a write returns 0.                       *)
(***************************************************************************)
LEMMA StepRefines ==
  ASSUME IInv, RecordsOwned, [Next]_vars
  PROVE  [Promise!Next]_(Promise!vars)
<1> USE QueueAssumption
<1> DEFINE Same == UNCHANGED <<Stream, Len(taken), lens, StoredRecords, acked, refused>>
<1>0. Same => UNCHANGED Promise!vars
  BY DEF Promise!vars, StoredRecords
<1>1. ASSUME NEW w \in Writers, NEW len \in 1 .. MaxEvent, WriteCall(w, len)
      PROVE  Promise!Next
  <2>1. calls + 1 \in 1 .. MaxWrites /\ lens[calls + 1] = 0
    BY <1>1 DEF WriteCall, IInv, TypeOK, WriterType
  <2>2. /\ lens' = [lens EXCEPT ![calls + 1] = len]
        /\ UNCHANGED <<Stream, Len(taken), StoredRecords, acked, refused>>
    BY <1>1, StoredSteps DEF WriteCall, Stream
  <2>3. Promise!Call(calls + 1, len)
    BY <2>1, <2>2 DEF Promise!Call, StoredRecords
  <2>4. QED
    BY <2>1, <2>3 DEF Promise!Next, Promise!Records
<1>2. ASSUME NEW w \in Writers, WLock(w) \/ WCopy(w)
      PROVE  Same
  BY <1>2, StoredSteps DEF WLock, WCopy, Stream
<1>3. ASSUME NEW w \in Writers, WPut(w)
      PROVE  Promise!Next
  <2>1. PICK m \in Promise!Records, k \in 0 .. MaxEvent : m = wmsg[w] /\ k = wput[w]
    BY <1>3, PutStream DEF Promise!Records
  <2>2. WPut(w) /\ wput[w] = k /\ wmsg[w] = m
    BY <1>3, <2>1
  <2>3. /\ Stream' = Stream \o Prefix(m, k)
        /\ m \notin StoredRecords \cup refused
    BY <2>2, PutStream, StoredSteps
  <2>4. UNCHANGED <<Len(taken), lens, acked>>
    BY <2>2 DEF WPut, WPutDone
  <2>5. Promise!Waiting = Len(fifo)
    BY WaitingBytes
  <2>6. /\ lens[m] \in 1 .. MaxEvent /\ Len(fifo) \in 0 .. FifoSize
        /\ k = IF lens[m] < FifoSize - Len(fifo) THEN lens[m] ELSE FifoSize - Len(fifo)
    <3>1. lens[m] \in 1 .. MaxEvent /\ k = Room(lens[m])
      BY <2>2, PutStream
    <3>2. Len(fifo) \in 0 .. FifoSize
      BY DEF IInv, TypeOK, QueueType
    <3>3. QED
      BY <3>1, <3>2 DEF Room, Least
  <2>7. CASE k = lens[m]
    <3>1. lens[m] <= FifoSize - Len(fifo)
      BY <2>6, <2>7
    <3>2. StoredRecords' = StoredRecords \cup {m} /\ refused' = refused
      BY <2>2, <2>7, StoredSteps DEF WPut, WPutDone
    <3>3. Stream' = Stream \o Promise!FirstBytes(m, lens[m])
      BY <2>3, <2>7 DEF Prefix, Promise!FirstBytes
    <3>4. lens[m] > 0 /\ lens[m] <= FifoSize - Promise!Waiting
      BY <2>6, <2>5, <3>1
    <3>5. Promise!Accept(m)
      BY <2>3, <2>4, <3>2, <3>3, <3>4, Zenon DEF Promise!Accept, StoredRecords
    <3>6. QED
      BY <3>5, Zenon DEF Promise!Next
  <2>8. CASE k # lens[m]
    <3>1. lens[m] > FifoSize - Len(fifo) /\ k = FifoSize - Len(fifo)
      BY <2>6, <2>8
    <3>2. StoredRecords' = StoredRecords /\ refused' = refused \cup {m}
      BY <2>2, <2>8, StoredSteps DEF WPut, WPutDone
    <3>3. Stream' = Stream \o Promise!FirstBytes(m, FifoSize - Promise!Waiting)
      BY <2>3, <2>5, <3>1 DEF Prefix, Promise!FirstBytes
    <3>4. lens[m] > 0 /\ lens[m] > FifoSize - Promise!Waiting
      BY <2>6, <2>5, <3>1
    <3>5. Promise!Cut(m)
      BY <2>3, <2>4, <3>2, <3>3, <3>4, Zenon DEF Promise!Cut, StoredRecords
    <3>6. QED
      BY <3>5, Zenon DEF Promise!Next
  <2>9. QED
    BY <2>7, <2>8
<1>4. ASSUME NEW w \in Writers, WWake(w)
      PROVE  Promise!Next
  <2>1. wmsg[w] \in 1 .. MaxWrites
    BY <1>4 DEF WWake, IInv, TypeOK, WriterType
  <2>2. /\ StoredRecords' = StoredRecords /\ wmsg[w] \in StoredRecords \ acked
        /\ acked' = acked \cup {wmsg[w]}
        /\ UNCHANGED <<Stream, Len(taken), lens, refused>>
    BY <1>4, StoredSteps DEF WWake, Stream
  <2>3. Promise!Return(wmsg[w])
    BY <2>2 DEF Promise!Return, StoredRecords
  <2>4. QED
    BY <2>1, <2>3 DEF Promise!Next, Promise!Records
<1>5. ASSUME NEW r \in Readers, NEW k \in 0 .. FifoSize, RTake(r, k)
      PROVE  Promise!Next
  <2>1. /\ k \in 0 .. Len(fifo) /\ Stream' = Stream
        /\ Len(taken') = Len(taken) + k
    BY <1>5, TakeStream
  <2>2. UNCHANGED <<lens, StoredRecords, acked, refused>>
    BY <1>5 DEF RTake, wvars, StoredRecords, Waking
  <2>3. Promise!Give(k)
    BY <2>1, <2>2, WaitingBytes DEF Promise!Give, StoredRecords
  <2>4. QED
    BY <2>3 DEF Promise!Next
<1>6. ASSUME UNCHANGED <<fifo, taken, wvars>>
      PROVE  Same
  BY <1>6 DEF wvars, Stream, StoredRecords, Waking
<1>7. QED
  BY <1>0, <1>1, <1>2, <1>3, <1>4, <1>5, <1>6
     DEF Next, WStep, RStep, RTakeAny, vars, ReadCall, PollCall, RPrepare,
         RCheck, RResume, RSignal, RLock

\* The device implements one stream of bytes, for any number of threads.
THEOREM StreamImplemented == Spec => ImplementsStream
<1>1. Init => Promise!Init
  <2>1. Init => Stream = <<>> /\ Len(taken) = 0
    BY ConcatEmptySeq DEF Init, Stream
  <2>2. Init => StoredRecords = {}
    BY DEF Init, StoredRecords, Waking
  <2>3. QED
    BY <2>1, <2>2 DEF Init, Promise!Init, Promise!Records, StoredRecords
<1>2. IInv /\ RecordsOwned /\ [Next]_vars => [Promise!Next]_(Promise!vars)
  BY StepRefines
<1>3. QED
  BY <1>1, <1>2, InvariantIInv, InvariantRecordsOwned, PTL
     DEF Spec, ImplementsStream, Promise!Spec

-----------------------------------------------------------------------------
\* Byte k of record m is in s.
HasByte(s, m, k) == \E i \in 1 .. Len(s) : s[i] = [msg |-> m, pos |-> k]

\* Every byte of t is one of s or belongs to record m.
AddsOnly(t, s, m) ==
  \A i \in 1 .. Len(t) : t[i].msg = m \/ \E j \in 1 .. Len(s) : t[i] = s[j]

(***************************************************************************)
(* TornOnlyWhenRefused is not inductive: a write is only answered after    *)
(* its record was stored, and a length may only be set for a record with   *)
(* no bytes in the stream.                                                 *)
(***************************************************************************)
RecordsWhole ==
  /\ \A m \in StoredRecords : HasByte(Stream, m, lens[m])
  /\ \A i \in 1 .. Len(Stream) :
       /\ Stream[i].msg \in 1 .. calls
       /\ \/ HasByte(Stream, Stream[i].msg, lens[Stream[i].msg])
          \/ Stream[i].msg \in refused

\* What appending the first k bytes of record m does to the bytes of a stream.
LEMMA AppendBytes ==
  ASSUME NEW s \in Seq(Byte), NEW m \in 1 .. MaxWrites, NEW k \in 0 .. MaxEvent,
         NEW t, t = s \o Prefix(m, k)
  PROVE  /\ \A x, y : HasByte(s, x, y) => HasByte(t, x, y)
         /\ k > 0 => HasByte(t, m, k)
         /\ AddsOnly(t, s, m)
<1> DEFINE p == Prefix(m, k)
<1>1. /\ p \in Seq(Byte) /\ Len(p) = k
      /\ \A i \in 1 .. k : p[i] = [msg |-> m, pos |-> i]
  BY PrefixProperties
<1>2. t = s \o p
  OBVIOUS
<1> HIDE DEF p
<1>3. /\ Len(t) = Len(s) + k
      /\ \A i \in 1 .. Len(s) + k : t[i] = IF i <= Len(s) THEN s[i] ELSE p[i - Len(s)]
  <2>1. p \in Seq(Byte) /\ Len(p) = k
    BY <1>1
  <2>2. /\ Len(s \o p) = Len(s) + Len(p)
        /\ \A i \in 1 .. Len(s) + Len(p) :
             (s \o p)[i] = IF i <= Len(s) THEN s[i] ELSE p[i - Len(s)]
    BY <2>1, ConcatProperties, Zenon
  <2>3. QED
    BY <1>2, <2>1, <2>2, Zenon
<1>4. Len(s) \in Nat /\ k \in Nat
  BY QueueAssumption
<1>5. \A i \in 1 .. Len(s) : t[i] = s[i] /\ i \in 1 .. Len(t)
  BY <1>3, <1>4
<1>6. ASSUME NEW x, NEW y, HasByte(s, x, y) PROVE HasByte(t, x, y)
  BY <1>5, <1>6 DEF HasByte
<1>7. ASSUME k > 0 PROVE HasByte(t, m, k)
  <2>1. /\ Len(s) + k \in 1 .. Len(t)
        /\ ~(Len(s) + k <= Len(s)) /\ (Len(s) + k) - Len(s) = k /\ k \in 1 .. k
    BY <1>3, <1>4, <1>7
  <2>2. t[Len(s) + k] = [msg |-> m, pos |-> k]
    BY <1>1, <1>3, <2>1
  <2>3. QED
    BY <2>1, <2>2 DEF HasByte
<1>8. ASSUME NEW i \in 1 .. Len(t)
      PROVE  t[i].msg = m \/ \E j \in 1 .. Len(s) : t[i] = s[j]
  <2>1. CASE i <= Len(s)
    BY <1>3, <1>4, <2>1
  <2>2. CASE ~(i <= Len(s))
    <3>1. i - Len(s) \in 1 .. k
      BY <1>3, <1>4, <2>2
    <3>2. t[i] = p[i - Len(s)]
      BY <1>3, <1>4, <2>2
    <3>3. QED
      BY <1>1, <3>1, <3>2
  <2>3. QED
    BY <2>1, <2>2
<1>9. AddsOnly(t, s, m)
  BY <1>8 DEF AddsOnly
<1>10. QED
  BY <1>6, <1>7, <1>9

\* No step leaves a torn record in the stream without refusing it.
LEMMA NextRecordsWhole ==
  ASSUME IInv, RecordsOwned, RecordsWhole, [Next]_vars
  PROVE  RecordsWhole'
<1> USE QueueAssumption
<1>1. StoredRecords \subseteq 1 .. calls /\ Stream \in Seq(Byte) /\ calls \in 0 .. MaxWrites
  <2>1. StoredRecords \subseteq 1 .. calls /\ calls \in 0 .. MaxWrites
    BY DEF IInv, TypeOK, WriterType, StoredRecords, Waking
  <2>2. Stream \in Seq(Byte)
    BY ConcatProperties DEF IInv, TypeOK, QueueType, Stream
  <2>3. QED
    BY <2>1, <2>2
<1>2. ASSUME Stream' = Stream, StoredRecords' = StoredRecords, refused' = refused,
             calls' \in Nat, calls' >= calls,
             \A m \in 1 .. calls : lens'[m] = lens[m]
      PROVE  RecordsWhole'
  <2>1. \A m \in StoredRecords : lens'[m] = lens[m]
    BY <1>1, <1>2
  <2>2. \A i \in 1 .. Len(Stream) :
          /\ Stream[i].msg \in 1 .. calls'
          /\ lens'[Stream[i].msg] = lens[Stream[i].msg]
    BY <1>1, <1>2 DEF RecordsWhole
  <2>3. \A m \in StoredRecords' : HasByte(Stream', m, lens'[m])
    BY <1>2, <2>1 DEF RecordsWhole
  <2>4. \A i \in 1 .. Len(Stream') :
          /\ Stream'[i].msg \in 1 .. calls'
          /\ \/ HasByte(Stream', Stream'[i].msg, lens'[Stream'[i].msg])
             \/ Stream'[i].msg \in refused'
    BY <1>2, <2>2 DEF RecordsWhole
  <2>5. QED
    BY <2>3, <2>4, Zenon DEF RecordsWhole, HasByte
<1>3. ASSUME NEW w \in Writers, NEW len \in 1 .. MaxEvent, WriteCall(w, len)
      PROVE  RecordsWhole'
  <2>1. Stream' = Stream /\ StoredRecords' = StoredRecords /\ refused' = refused
    BY <1>3, StoredSteps DEF WriteCall, Stream
  <2>2. calls' \in Nat /\ calls' >= calls
    BY <1>3 DEF WriteCall, IInv, TypeOK, WriterType
  <2>3. \A m \in 1 .. calls : lens'[m] = lens[m]
    BY <1>3 DEF WriteCall, IInv, TypeOK, WriterType
  <2>4. QED
    BY <1>2, <2>1, <2>2, <2>3
<1>4. ASSUME NEW w \in Writers, WLock(w) \/ WCopy(w)
      PROVE  RecordsWhole'
  <2>1. Stream' = Stream /\ StoredRecords' = StoredRecords /\ UNCHANGED <<refused, calls, lens>>
    BY <1>4, StoredSteps DEF WLock, WCopy, Stream
  <2>2. QED
    BY <1>1, <1>2, <2>1
<1>5. ASSUME NEW w \in Writers, WWake(w)
      PROVE  RecordsWhole'
  <2>1. Stream' = Stream /\ StoredRecords' = StoredRecords /\ UNCHANGED <<refused, calls, lens>>
    BY <1>5, StoredSteps DEF WWake, Stream
  <2>2. QED
    BY <1>1, <1>2, <2>1
<1>6. ASSUME NEW w \in Writers, WPut(w)
      PROVE  RecordsWhole'
  <2>1. PICK m \in 1 .. MaxWrites, k \in 0 .. MaxEvent : m = wmsg[w] /\ k = wput[w]
    BY <1>6, PutStream
  <2>2. /\ m \in 1 .. calls /\ lens[m] \in 1 .. MaxEvent
        /\ Stream' = Stream \o Prefix(m, k)
    BY <1>6, <2>1, PutStream
  <2>3. UNCHANGED <<calls, lens>>
    BY <1>6 DEF WPut, WPutDone
  <2>4. PICK t : t = Stream' /\ t = Stream \o Prefix(m, k)
    BY <2>2
  <2>5. /\ \A x, y : HasByte(Stream, x, y) => HasByte(t, x, y)
        /\ k > 0 => HasByte(t, m, k)
        /\ \A i \in 1 .. Len(t) :
             t[i].msg = m \/ \E j \in 1 .. Len(Stream) : t[i] = Stream[j]
    <3>1. PICK s \in Seq(Byte) : s = Stream
      BY <1>1
    <3>2. t = s \o Prefix(m, k)
      BY <2>4, <3>1
    <3>3. \A x, y : HasByte(s, x, y) => HasByte(t, x, y)
      BY <3>2, AppendBytes
    <3>4. k > 0 => HasByte(t, m, k)
      BY <3>2, AppendBytes
    <3>5. AddsOnly(t, s, m)
      BY <3>2, AppendBytes
    <3>6. QED
      BY <3>1, <3>3, <3>4, <3>5, Zenon DEF AddsOnly
  <2>6. CASE k = lens[m]
    <3>1. StoredRecords' = StoredRecords \cup {m} /\ refused' = refused
      BY <1>6, <2>1, <2>6, StoredSteps DEF WPut, WPutDone
    <3>2. HasByte(t, m, lens[m])
      BY <2>2, <2>5, <2>6
    <3>3. \A x \in StoredRecords' : HasByte(t, x, lens[x])
      BY <2>5, <3>1, <3>2 DEF RecordsWhole
    <3>4. \A i \in 1 .. Len(t) :
            /\ t[i].msg \in 1 .. calls
            /\ HasByte(t, t[i].msg, lens[t[i].msg]) \/ t[i].msg \in refused
      BY <2>2, <2>5, <3>2, Zenon DEF RecordsWhole
    <3>5. QED
      BY <2>3, <2>4, <3>1, <3>3, <3>4, Zenon DEF RecordsWhole, HasByte
  <2>7. CASE k # lens[m]
    <3>1. StoredRecords' = StoredRecords /\ refused' = refused \cup {m}
      BY <1>6, <2>1, <2>7, StoredSteps DEF WPut, WPutDone
    <3>2. \A x \in StoredRecords' : HasByte(t, x, lens[x])
      BY <2>5, <3>1 DEF RecordsWhole
    <3>3. \A i \in 1 .. Len(t) :
            /\ t[i].msg \in 1 .. calls
            /\ HasByte(t, t[i].msg, lens[t[i].msg]) \/ t[i].msg \in refused'
      BY <2>2, <2>5, <3>1, Zenon DEF RecordsWhole
    <3>4. QED
      BY <2>3, <2>4, <3>1, <3>2, <3>3, Zenon DEF RecordsWhole, HasByte
  <2>8. QED
    BY <2>6, <2>7
<1>7. ASSUME NEW r \in Readers, NEW k \in 0 .. FifoSize, RTake(r, k)
      PROVE  RecordsWhole'
  <2>1. Stream' = Stream
    BY <1>7, TakeStream
  <2>2. StoredRecords' = StoredRecords /\ UNCHANGED <<refused, calls, lens>>
    BY <1>7 DEF RTake, wvars, StoredRecords, Waking
  <2>3. QED
    BY <1>1, <1>2, <2>1, <2>2
<1>8. ASSUME UNCHANGED <<fifo, taken, wvars>>
      PROVE  RecordsWhole'
  <2>1. Stream' = Stream /\ StoredRecords' = StoredRecords /\ UNCHANGED <<refused, calls, lens>>
    BY <1>8 DEF wvars, Stream, StoredRecords, Waking
  <2>2. QED
    BY <1>1, <1>2, <2>1
<1>9. QED
  BY <1>3, <1>4, <1>5, <1>6, <1>7, <1>8
     DEF Next, WStep, RStep, RTakeAny, vars, ReadCall, PollCall, RPrepare,
         RCheck, RResume, RSignal, RLock

\* A stored record has its last byte in the stream, a torn one was refused.
LEMMA InvariantRecordsWhole == Spec => []RecordsWhole
<1>1. Init => RecordsWhole
  <2>1. Init => Stream = <<>>
    BY ConcatEmptySeq DEF Init, Stream
  <2>2. Init => StoredRecords = {}
    BY DEF Init, StoredRecords, Waking
  <2>3. QED
    BY <2>1, <2>2 DEF RecordsWhole
<1>2. IInv /\ RecordsOwned /\ RecordsWhole /\ [Next]_vars => RecordsWhole'
  BY NextRecordsWhole
<1>3. QED
  BY <1>1, <1>2, InvariantIInv, InvariantRecordsOwned, PTL DEF Spec

\* A write that returned 0 is in the stream whole; a torn record was refused.
THEOREM TornRecordsRefused == Spec => []TornOnlyWhenRefused
<1>1. RecordsWhole => TornOnlyWhenRefused
  BY DEF RecordsWhole, TornOnlyWhenRefused, HasByte, StoredRecords
<1>2. QED
  BY <1>1, InvariantRecordsWhole, PTL

-----------------------------------------------------------------------------
(***************************************************************************)
(* The event builder.  SentIsWhole is not inductive: what is sent is whole *)
(* because what is built is, but for its last fragment, and because a cut  *)
(* fragment fills the buffer, after which nothing passes the check that    *)
(* follows scnprintf.                                                      *)
(***************************************************************************)
CutOnlyAtEnd ==
  \A i \in 1 .. Len(frags) :
    Cut(frags[i]) => i = Len(frags) /\ used = MaxEvent - 1

EventInv == EventTypeOK /\ CutOnlyAtEnd /\ SentIsWhole

\* The number of characters an integer prints as is a natural number.
LEMMA PrintedType ==
  ASSUME NEW v \in Int
  PROVE  Printed(v) \in Nat
<1> DEFINE a == IF v < 0 THEN -v ELSE v
           D == {d \in 1 .. MaxDigits : Pow10[d] <= a}
<1>1. IsFiniteSet(1 .. MaxDigits)
  BY FS_Interval, EventAssumption
<1>2. D \subseteq 1 .. MaxDigits
  OBVIOUS
<1>3. Cardinality(D) \in Nat
  BY <1>1, <1>2, FS_Subset, FS_CardinalityType
<1> HIDE DEF D
<1>4. (IF v < 0 THEN 2 ELSE 1) + Cardinality(D) \in Nat
  BY <1>3
<1>5. QED
  BY <1>4 DEF Printed, D

(***************************************************************************)
(* What passes the check after scnprintf: something was stored, the buffer *)
(* keeps room for the NUL, and either the text was stored whole or the     *)
(* buffer is now full.                                                     *)
(***************************************************************************)
LEMMA ExtendStores ==
  ASSUME EventTypeOK, NEW kind \in {"head", "param", "end"}, NEW len \in Nat,
         Extend(kind, len)
  PROVE  /\ used < MaxEvent - 1
         /\ used' \in used + 1 .. MaxEvent - 1
         /\ \E n \in Nat :
              /\ frags' = Append(frags, [kind |-> kind, full |-> len, stored |-> n])
              /\ n < len => used' = MaxEvent - 1
<1> USE EventAssumption
<1> DEFINE n == Stored(len)
<1>1. used \in 0 .. MaxEvent - 1 /\ MaxEvent \in Nat
  BY DEF EventTypeOK
<1>2. n = IF MaxEvent - used = 0 THEN 0
          ELSE IF len < MaxEvent - used THEN len ELSE MaxEvent - used - 1
  BY DEF Stored
<1>3. /\ ~(n <= 0) /\ used' = used + n
      /\ frags' = Append(frags, [kind |-> kind, full |-> len, stored |-> n])
  BY DEF Extend, Failed
<1> HIDE DEF n
<1>4. n \in Nat /\ n > 0 /\ n <= MaxEvent - used - 1 /\ (n < len => n = MaxEvent - used - 1)
  BY <1>1, <1>2, <1>3
<1>5. QED
  BY <1>1, <1>3, <1>4

\* A fragment that passes the check keeps the text whole up to its end.
LEMMA ExtendKeeps ==
  ASSUME EventInv, NEW kind \in {"head", "param", "end"}, NEW len \in Nat,
         Extend(kind, len)
  PROVE  /\ used' \in 0 .. MaxEvent - 1
         /\ frags' \in Seq(Fragment)
         /\ CutOnlyAtEnd'
         /\ frags' # <<>> /\ frags'[Len(frags')].kind = kind
         /\ \A i \in 1 .. Len(frags') - 1 : ~Cut(frags'[i])
<1> USE EventAssumption
<1>1. EventTypeOK /\ frags \in Seq(Fragment) /\ used \in 0 .. MaxEvent - 1
  BY DEF EventInv, EventTypeOK
<1>2. /\ used < MaxEvent - 1
      /\ used' \in used + 1 .. MaxEvent - 1
  BY <1>1, ExtendStores
<1>3. PICK n \in Nat :
         /\ frags' = Append(frags, [kind |-> kind, full |-> len, stored |-> n])
         /\ n < len => used' = MaxEvent - 1
  BY <1>1, ExtendStores
<1> DEFINE f == [kind |-> kind, full |-> len, stored |-> n]
<1>4. f \in Fragment
  BY DEF Fragment
<1>5. /\ frags' \in Seq(Fragment) /\ Len(frags') = Len(frags) + 1
      /\ \A i \in 1 .. Len(frags) : frags'[i] = frags[i]
      /\ frags'[Len(frags')] = f
  BY <1>1, <1>3, <1>4
<1>6. \A i \in 1 .. Len(frags) : ~Cut(frags[i])
  BY <1>1, <1>2 DEF EventInv, CutOnlyAtEnd
<1>7. Cut(f) => used' = MaxEvent - 1
  BY <1>3 DEF Cut
<1>8. Len(frags) \in Nat
  BY <1>1
<1>9. \A i \in 1 .. Len(frags') - 1 : ~Cut(frags'[i])
  BY <1>5, <1>6, <1>8
<1>10. \A i \in 1 .. Len(frags') : Cut(frags'[i]) => i = Len(frags') /\ used' = MaxEvent - 1
  <2> SUFFICES ASSUME NEW i \in 1 .. Len(frags'), Cut(frags'[i])
               PROVE  i = Len(frags') /\ used' = MaxEvent - 1
    OBVIOUS
  <2>1. i = Len(frags')
    BY <1>5, <1>8, <1>9
  <2>2. QED
    BY <2>1, <1>5, <1>7
<1>11. CutOnlyAtEnd'
  BY <1>10 DEF CutOnlyAtEnd, Cut
<1>12. frags' # <<>> /\ frags'[Len(frags')].kind = kind
  BY <1>5, <1>8
<1>13. QED
  BY <1>2, <1>1, <1>5, <1>9, <1>11, <1>12

\* Every call of the builder keeps the invariant.
LEMMA EventStep == EventInv /\ [EventNext]_event => EventInv'
<1> SUFFICES ASSUME EventInv, [EventNext]_event PROVE EventInv'
  OBVIOUS
<1> USE EventAssumption
<1>1. ASSUME NEW h \in HeadLens, Alloc(h) PROVE EventInv'
  <2>1. h \in Nat /\ Extend("head", h)
    BY <1>1 DEF Alloc
  <2>2. used' \in 0 .. MaxEvent - 1 /\ frags' \in Seq(Fragment) /\ CutOnlyAtEnd'
    BY <2>1, ExtendKeeps
  <2>3. live' = TRUE /\ UNCHANGED <<cnt, sent>>
    BY <1>1 DEF Alloc
  <2>4. EventTypeOK'
    BY <2>2, <2>3 DEF EventInv, EventTypeOK
  <2>5. SentIsWhole'
    BY <2>3 DEF EventInv, SentIsWhole, Cut
  <2>6. QED
    BY <2>2, <2>4, <2>5 DEF EventInv
<1>2. ASSUME NEW k \in Nat, NEW len \in Nat, AddParam(k, len)
      PROVE  EventInv'
  <2>1. Comma + len \in Nat /\ Extend("param", Comma + len)
    BY <1>2 DEF AddParam, Comma
  <2>2. used' \in 0 .. MaxEvent - 1 /\ frags' \in Seq(Fragment) /\ CutOnlyAtEnd'
    BY <2>1, ExtendKeeps
  <2>3. cnt < MaxParams /\ cnt' = cnt + 1 /\ UNCHANGED <<live, sent>>
    BY <1>2 DEF AddParam
  <2>4. EventTypeOK'
    BY <1>2, <2>2, <2>3 DEF EventInv, EventTypeOK
  <2>5. SentIsWhole'
    BY <2>3 DEF EventInv, SentIsWhole, Cut
  <2>6. QED
    BY <2>2, <2>4, <2>5 DEF EventInv
<1>3. ASSUME NEW k \in KeyLens, NEW v \in Longs, AddInt(k, v) PROVE EventInv'
  <2>1. v \in Int
    BY DEF MinLong
  <2>2. k \in Nat /\ k + 3 + Printed(v) \in Nat
    BY <2>1, PrintedType
  <2>3. AddParam(k, k + 3 + Printed(v))
    BY <1>3 DEF AddInt
  <2>4. QED
    BY <1>2, <2>2, <2>3
<1>4. ASSUME NEW k \in KeyLens, NEW t \in TextLens, AddStr(k, t) PROVE EventInv'
  <2>1. k \in Nat /\ k + 5 + t \in Nat
    OBVIOUS
  <2>2. AddParam(k, k + 5 + t)
    BY <1>4 DEF AddStr
  <2>3. QED
    BY <1>2, <2>1, <2>2
<1>5. ASSUME Write PROVE EventInv'
  <2>1. Extend("end", 2) /\ sent' = frags' /\ UNCHANGED <<live, cnt>>
    BY <1>5 DEF Write
  <2>2. /\ used' \in 0 .. MaxEvent - 1 /\ frags' \in Seq(Fragment) /\ CutOnlyAtEnd'
        /\ frags'[Len(frags')].kind = "end"
        /\ \A i \in 1 .. Len(frags') - 1 : ~Cut(frags'[i])
    BY <2>1, ExtendKeeps
  <2>3. EventTypeOK'
    BY <2>1, <2>2 DEF EventInv, EventTypeOK
  <2>4. SentIsWhole'
    BY <2>1, <2>2 DEF SentIsWhole, Cut
  <2>5. QED
    BY <2>2, <2>3, <2>4 DEF EventInv
<1>6. ASSUME Destroy PROVE EventInv'
  <2>1. /\ live' = FALSE /\ used' = 0 /\ cnt' = 0 /\ frags' = <<>>
        /\ UNCHANGED sent
    BY <1>6 DEF Destroy
  <2>2. EventTypeOK'
    <3>1. <<>> \in Seq(Fragment)
      OBVIOUS
    <3>2. 0 \in 0 .. MaxEvent - 1 /\ 0 \in 0 .. MaxParams
      OBVIOUS
    <3>3. QED
      BY <2>1, <3>1, <3>2, Zenon DEF EventInv, EventTypeOK
  <2>3. CutOnlyAtEnd'
    BY <2>1 DEF CutOnlyAtEnd
  <2>4. SentIsWhole'
    BY <2>1 DEF EventInv, SentIsWhole, Cut
  <2>5. QED
    BY <2>2, <2>3, <2>4 DEF EventInv
<1>7. CASE UNCHANGED event
  BY <1>7 DEF event, EventInv, EventTypeOK, CutOnlyAtEnd, SentIsWhole, Cut
<1>8. QED
  BY <1>1, <1>3, <1>4, <1>5, <1>6, <1>7 DEF EventNext

\* No event is there yet.
LEMMA EventStart == EventInit => EventInv
<1>1. <<>> \in Seq(Fragment)
  OBVIOUS
<1>2. 0 \in 0 .. MaxEvent - 1 /\ 0 \in 0 .. MaxParams
  BY EventAssumption
<1>3. EventInit => EventTypeOK
  BY <1>1, <1>2, Zenon DEF EventInit, EventTypeOK
<1>4. EventInit => CutOnlyAtEnd /\ SentIsWhole
  BY DEF EventInit, CutOnlyAtEnd, SentIsWhole
<1>5. QED
  BY <1>3, <1>4 DEF EventInv

\* The builder's invariant holds in every state it can reach.
LEMMA InvariantEvent == EventSpec => []EventInv
BY EventStart, EventStep, PTL DEF EventSpec

\* An event and its NUL stay inside the buffer, and its parameters within
\* their number, whatever the lengths of keys, values and heads.
THEOREM EventTypeCorrect == EventSpec => []EventTypeOK
BY InvariantEvent, PTL DEF EventInv

\* No event reaches the queue with a cut head or parameter.
THEOREM EventsSentWhole == EventSpec => []SentIsWhole
BY InvariantEvent, PTL DEF EventInv

-----------------------------------------------------------------------------
(***************************************************************************)
(* get_integer_size.  Its loop and the powers of ten are recursive         *)
(* functions on the naturals; that there are such functions is shown here, *)
(* for a recursion that starts with c below b and takes n from an earlier  *)
(* value p[n] by h.                                                        *)
(***************************************************************************)
\* A set of naturals has a least element: proofs by induction take the least
\* number for which a claim fails.
LEMMA LeastNat ==
  ASSUME NEW S, S \subseteq Nat, S # {}
  PROVE  \E x \in S : \A y \in S : x <= y
<1>1. PICK x \in S : \A y \in S : ~(<<y, x>> \in OpToRel(<, Nat))
  BY NatLessThanWellFounded, WFMin, Zenon
<1>2. \A y \in S : ~(y < x)
  BY <1>1, Zenon DEF OpToRel
<1>3. \A y \in S : x <= y
  <2>1. \A y \in S : y \in Nat /\ x \in Nat
    OBVIOUS
  <2>2. QED
    BY ONLY <1>2, <2>1
<1>4. QED
  BY <1>3, Zenon

\* The recursion goes down from every n that is not below b.
Recursion(b, c, h, p) ==
  /\ b \in Nat \ {0} /\ c \in Nat /\ h \in [Nat -> Nat] /\ p \in [Nat -> Nat]
  /\ \A n \in Nat : n >= b => p[n] < n

\* f follows the recursion up to k.
Follows(f, k, b, c, h, p) ==
  /\ f \in [Nat -> Nat]
  /\ \A n \in 0 .. k : f[n] = IF n < b THEN c ELSE h[f[p[n]]]

\* The recursion can be followed up to any k.
LEMMA FollowsExists ==
  ASSUME NEW b, NEW c, NEW h, NEW p, Recursion(b, c, h, p)
  PROVE  \A k \in Nat : \E f : Follows(f, k, b, c, h, p)
<1> DEFINE Bad == {k \in Nat : ~\E f : Follows(f, k, b, c, h, p)}
<1>0. /\ b \in Nat \ {0} /\ c \in Nat /\ h \in [Nat -> Nat] /\ p \in [Nat -> Nat]
      /\ \A n \in Nat : n >= b => p[n] < n
  BY DEF Recursion
<1>1. ASSUME Bad # {} PROVE FALSE
  <2>1. PICK k \in Bad : \A j \in Bad : k <= j
    BY <1>1, LeastNat, Zenon
  <2>2. k \in Nat /\ ~\E f : Follows(f, k, b, c, h, p)
    BY <2>1
  <2>3. CASE k = 0
    <3> DEFINE f == [n \in Nat |-> c]
    <3>1. f \in [Nat -> Nat] /\ f[0] = c
      BY <1>0
    <3>2. Follows(f, 0, b, c, h, p)
      BY <1>0, <3>1 DEF Follows
    <3>3. QED
      BY <2>2, <2>3, <3>2
  <2>4. CASE k # 0
    <3>1. k - 1 \in Nat /\ k - 1 \notin Bad
      BY <2>1, <2>2, <2>4
    <3>2. PICK g : Follows(g, k - 1, b, c, h, p)
      BY <3>1
    <3>3. g \in [Nat -> Nat]
      BY <3>2 DEF Follows
    <3> DEFINE e == IF k < b THEN c ELSE h[g[p[k]]]
               f == [n \in Nat |-> IF n = k THEN e ELSE g[n]]
    <3>4. p[k] \in Nat /\ g[p[k]] \in Nat /\ e \in Nat
      BY <1>0, <2>2, <3>3
    <3> HIDE DEF e
    <3>5. f \in [Nat -> Nat]
      BY <3>3, <3>4
    <3>6. ASSUME NEW n \in 0 .. k PROVE f[n] = IF n < b THEN c ELSE h[f[p[n]]]
      <4>1. n \in Nat /\ p[n] \in Nat /\ (n >= b => p[n] # k)
        BY <1>0, <2>2
      <4>2. n >= b => f[p[n]] = g[p[n]]
        BY <4>1
      <4>3. CASE n = k
        BY <1>0, <4>1, <4>2, <4>3 DEF e
      <4>4. CASE n # k
        <5>1. n \in 0 .. k - 1 /\ f[n] = g[n]
          BY <2>2, <4>1, <4>4
        <5>2. g[n] = IF n < b THEN c ELSE h[g[p[n]]]
          BY <3>2, <5>1 DEF Follows
        <5>3. QED
          BY <1>0, <4>1, <4>2, <5>1, <5>2
      <4>5. QED
        BY <4>3, <4>4
    <3>7. Follows(f, k, b, c, h, p)
      BY <3>5, <3>6 DEF Follows
    <3>8. QED
      BY <2>2, <3>7
  <2>5. QED
    BY <2>3, <2>4
<1>2. QED
  BY <1>1

\* Functions that follow the recursion agree as far as both do.
Agreement(b, c, h, p) ==
  \A j, k \in Nat : \A f, g :
    j <= k /\ Follows(f, j, b, c, h, p) /\ Follows(g, k, b, c, h, p) => f[j] = g[j]

\* Two functions that follow the recursion agree as far as both do.
LEMMA FollowsAgree ==
  ASSUME NEW b, NEW c, NEW h, NEW p, Recursion(b, c, h, p)
  PROVE  Agreement(b, c, h, p)
<1> SUFFICES ASSUME NEW j \in Nat, NEW k \in Nat, NEW f, NEW g, j <= k,
                    Follows(f, j, b, c, h, p), Follows(g, k, b, c, h, p)
             PROVE  f[j] = g[j]
  BY DEF Agreement
<1> DEFINE Bad == {n \in 0 .. j : f[n] # g[n]}
<1>0. /\ b \in Nat \ {0} /\ c \in Nat /\ h \in [Nat -> Nat] /\ p \in [Nat -> Nat]
      /\ \A n \in Nat : n >= b => p[n] < n
  BY DEF Recursion
<1>1. ASSUME Bad # {} PROVE FALSE
  <2>1. Bad \subseteq Nat
    OBVIOUS
  <2>2. PICK n \in Bad : \A m \in Bad : n <= m
    BY <1>1, <2>1, LeastNat, Zenon
  <2>3. n \in 0 .. j /\ n \in 0 .. k /\ n \in Nat /\ f[n] # g[n]
    BY <2>2
  <2>4. /\ f[n] = IF n < b THEN c ELSE h[f[p[n]]]
        /\ g[n] = IF n < b THEN c ELSE h[g[p[n]]]
    BY <2>3 DEF Follows
  <2>5. n >= b => p[n] \in 0 .. j /\ p[n] \notin Bad
    BY <1>0, <2>2, <2>3
  <2>6. QED
    BY <1>0, <2>3, <2>4, <2>5
<1>2. j \in 0 .. j
  OBVIOUS
<1>3. QED
  BY <1>1, <1>2

\* f follows the recursion everywhere.
Solves(f, b, c, h, p) ==
  /\ f \in [Nat -> Nat]
  /\ \A n \in Nat : f[n] = IF n < b THEN c ELSE h[f[p[n]]]

\* There is a function that follows the recursion everywhere.
LEMMA RecursionExists ==
  ASSUME NEW b, NEW c, NEW h, NEW p, Recursion(b, c, h, p)
  PROVE  \E f : Solves(f, b, c, h, p)
<1> DEFINE G(k) == CHOOSE f : Follows(f, k, b, c, h, p)
           f == [n \in Nat |-> G(n)[n]]
<1>0. /\ b \in Nat \ {0} /\ c \in Nat /\ h \in [Nat -> Nat] /\ p \in [Nat -> Nat]
      /\ \A n \in Nat : n >= b => p[n] < n
  BY DEF Recursion
<1>1. \A k \in Nat : Follows(G(k), k, b, c, h, p)
  BY FollowsExists, Zenon
<1>2. Agreement(b, c, h, p)
  BY FollowsAgree, Zenon
<1> HIDE DEF G
<1>3. \A k \in Nat : G(k) \in [Nat -> Nat]
  BY <1>1 DEF Follows
<1>4. \A k \in Nat : G(k)[k] \in Nat
  BY <1>3
<1>5. f \in [Nat -> Nat]
  BY <1>4
<1>6. ASSUME NEW n \in Nat PROVE f[n] = IF n < b THEN c ELSE h[f[p[n]]]
  <2>1. n \in 0 .. n /\ f[n] = G(n)[n]
    OBVIOUS
  <2>2. G(n)[n] = IF n < b THEN c ELSE h[G(n)[p[n]]]
    BY <1>1, <2>1 DEF Follows
  <2>3. CASE n >= b
    <3>1. p[n] \in Nat /\ p[n] <= n
      BY <1>0, <2>3
    <3>2. G(p[n])[p[n]] = G(n)[p[n]]
      <4>1. Follows(G(p[n]), p[n], b, c, h, p) /\ Follows(G(n), n, b, c, h, p)
        BY <1>1, <3>1
      <4>2. \A x, y : Follows(x, p[n], b, c, h, p) /\ Follows(y, n, b, c, h, p)
                       => x[p[n]] = y[p[n]]
        BY <1>2, <3>1, Zenon DEF Agreement
      <4>3. QED
        BY <4>1, <4>2, Zenon
    <3>3. f[p[n]] = G(n)[p[n]]
      BY <3>1, <3>2
    <3>4. QED
      BY <1>0, <2>1, <2>2, <2>3, <3>3
  <2>4. CASE n < b
    BY <2>1, <2>2, <2>4
  <2>5. QED
    BY <1>0, <2>3, <2>4
<1>7. Solves(f, b, c, h, p)
  BY <1>5, <1>6 DEF Solves
<1>8. QED
  BY <1>7

\* What defines the powers of ten.
LEMMA Pow10Def ==
  /\ Pow10 \in [Nat -> Nat]
  /\ Pow10[0] = 1
  /\ \A d \in Nat : Pow10[d + 1] = 10 * Pow10[d]
<1> DEFINE h == [x \in Nat |-> 10 * x]
           p == [n \in Nat |-> IF n = 0 THEN 0 ELSE n - 1]
           Is(f) == f = [d \in Nat |-> IF d = 0 THEN 1 ELSE 10 * f[d - 1]]
<1>1. h \in [Nat -> Nat] /\ p \in [Nat -> Nat] /\ \A n \in Nat : n >= 1 => p[n] < n
  OBVIOUS
<1>2. PICK f \in [Nat -> Nat] : \A n \in Nat : f[n] = IF n < 1 THEN 1 ELSE h[f[p[n]]]
  <2>1. Recursion(1, 1, h, p)
    BY <1>1 DEF Recursion
  <2> HIDE DEF h, p
  <2>2. \E f : Solves(f, 1, 1, h, p)
    BY <2>1, RecursionExists, Zenon
  <2>3. QED
    BY <2>2, Zenon DEF Solves
<1>3. ASSUME NEW d \in Nat PROVE f[d] = IF d = 0 THEN 1 ELSE 10 * f[d - 1]
  <2>1. CASE d = 0
    <3>1. 0 \in Nat /\ 0 < 1
      OBVIOUS
    <3>2. QED
      BY <1>2, <2>1, <3>1
  <2>2. CASE d # 0
    <3>1. p[d] = d - 1 /\ d - 1 \in Nat /\ ~(d < 1)
      BY <2>2
    <3>2. f[d] = h[f[d - 1]]
      BY <1>2, <3>1
    <3>3. f[d - 1] \in Nat
      BY <1>2, <3>1
    <3>4. QED
      BY <2>2, <3>2, <3>3
  <2>3. QED
    BY <2>1, <2>2
<1>4. Is(f)
  BY <1>2, <1>3
<1>5. Is(Pow10)
  <2>1. Pow10 = CHOOSE g : Is(g)
    BY DEF Pow10
  <2>2. QED
    BY <1>4, <2>1, Zenon
<1>6. \A d \in Nat : Pow10[d] = IF d = 0 THEN 1 ELSE 10 * Pow10[d - 1]
  BY <1>5
<1>7. \A d \in Nat : Pow10[d] \in Nat
  <2> DEFINE Bad == {d \in Nat : Pow10[d] \notin Nat}
  <2>1. ASSUME Bad # {} PROVE FALSE
    <3>1. PICK d \in Bad : \A e \in Bad : d <= e
      BY <2>1, LeastNat, Zenon
    <3>2. d \in Nat /\ Pow10[d] \notin Nat
      BY <3>1
    <3>3. CASE d = 0
      BY <1>6, <3>2, <3>3
    <3>4. CASE d # 0
      <4>1. d - 1 \in Nat /\ Pow10[d - 1] \in Nat
        BY <3>1, <3>2, <3>4
      <4>2. QED
        BY <1>6, <3>2, <3>4, <4>1
    <3>5. QED
      BY <3>3, <3>4
  <2>2. QED
    BY <2>1
<1>8. Pow10 \in [Nat -> Nat]
  BY <1>5, <1>7
<1>9. ASSUME NEW d \in Nat PROVE Pow10[d + 1] = 10 * Pow10[d]
  <2>1. d + 1 \in Nat /\ d + 1 # 0 /\ (d + 1) - 1 = d
    OBVIOUS
  <2>2. QED
    BY <1>6, <2>1
<1>10. QED
  BY <1>6, <1>8, <1>9

\* What defines the loop of get_integer_size.
LEMMA DivisionsDef ==
  /\ Divisions \in [Nat -> Nat]
  /\ \A n \in Nat : Divisions[n] = IF n < 10 THEN 0 ELSE 1 + Divisions[n \div 10]
<1> DEFINE h == [x \in Nat |-> 1 + x]
           p == [n \in Nat |-> n \div 10]
           Is(f) == f = [n \in Nat |-> IF n < 10 THEN 0 ELSE 1 + f[n \div 10]]
<1>0. \A n \in Nat : n \div 10 \in Nat /\ (n >= 10 => n \div 10 < n)
  OBVIOUS
<1>1. h \in [Nat -> Nat] /\ p \in [Nat -> Nat] /\ \A n \in Nat : n >= 10 => p[n] < n
  BY <1>0
<1>2. PICK f \in [Nat -> Nat] : \A n \in Nat : f[n] = IF n < 10 THEN 0 ELSE h[f[p[n]]]
  <2>1. Recursion(10, 0, h, p)
    BY <1>1 DEF Recursion
  <2> HIDE DEF h, p
  <2>2. \E f : Solves(f, 10, 0, h, p)
    BY <2>1, RecursionExists, Zenon
  <2>3. QED
    BY <2>2, Zenon DEF Solves
<1>3. ASSUME NEW n \in Nat PROVE f[n] = IF n < 10 THEN 0 ELSE 1 + f[n \div 10]
  <2>1. n \div 10 \in Nat /\ p[n] = n \div 10
    BY <1>0
  <2>2. f[n \div 10] \in Nat
    BY <1>2, <2>1
  <2>3. h[f[n \div 10]] = 1 + f[n \div 10]
    BY <2>2
  <2>4. f[n] = IF n < 10 THEN 0 ELSE h[f[n \div 10]]
    BY <1>2, <2>1
  <2>5. QED
    BY <2>3, <2>4
<1>4. Is(f)
  BY <1>2, <1>3
<1>5. Is(Divisions)
  <2>1. Divisions = CHOOSE g : Is(g)
    BY DEF Divisions
  <2>2. QED
    BY <1>4, <2>1, Zenon
<1>6. \A n \in Nat : Divisions[n] = IF n < 10 THEN 0 ELSE 1 + Divisions[n \div 10]
  BY <1>5
<1>7. \A n \in Nat : Divisions[n] \in Nat
  <2> DEFINE Bad == {n \in Nat : Divisions[n] \notin Nat}
  <2>1. ASSUME Bad # {} PROVE FALSE
    <3>1. PICK n \in Bad : \A m \in Bad : n <= m
      BY <2>1, LeastNat, Zenon
    <3>2. n \in Nat /\ Divisions[n] \notin Nat
      BY <3>1
    <3>3. CASE n < 10
      BY <1>6, <3>2, <3>3
    <3>4. CASE n >= 10
      <4>1. n \div 10 \in Nat /\ n \div 10 < n
        BY <1>0, <3>2, <3>4
      <4>2. Divisions[n \div 10] \in Nat
        BY <3>1, <3>2, <4>1
      <4>3. QED
        BY <1>6, <3>2, <3>4, <4>2
    <3>5. QED
      BY <3>2, <3>3, <3>4
  <2>2. QED
    BY <2>1
<1>8. QED
  BY <1>5, <1>6, <1>7

\* The powers of ten grow.
LEMMA Pow10Grows ==
  ASSUME NEW d \in Nat
  PROVE  \A e \in Nat : d <= e => Pow10[d] <= Pow10[e]
<1> DEFINE Bad == {e \in Nat : d <= e /\ ~(Pow10[d] <= Pow10[e])}
<1>1. ASSUME Bad # {} PROVE FALSE
  <2>1. PICK e \in Bad : \A x \in Bad : e <= x
    BY <1>1, LeastNat, Zenon
  <2>2. e \in Nat /\ d <= e /\ ~(Pow10[d] <= Pow10[e]) /\ Pow10[d] \in Nat /\ Pow10[e] \in Nat
    BY <2>1, Pow10Def
  <2>3. e # d /\ e - 1 \in Nat /\ d <= e - 1
    BY <2>2
  <2>4. Pow10[d] <= Pow10[e - 1] /\ Pow10[e - 1] \in Nat
    BY <2>1, <2>3, Pow10Def
  <2>5. Pow10[e] = 10 * Pow10[e - 1]
    <3>1. (e - 1) + 1 = e
      BY <2>2
    <3>2. Pow10[(e - 1) + 1] = 10 * Pow10[e - 1]
      BY <2>3, Pow10Def
    <3>3. QED
      BY <3>1, <3>2
  <2>6. QED
    BY <2>2, <2>4, <2>5
<1>2. QED
  BY <1>1

\* The loop divides a number once for every power of ten it reaches.
LEMMA DivisionsCount ==
  \A a \in Nat : /\ a < Pow10[Divisions[a] + 1]
                 /\ Divisions[a] > 0 => Pow10[Divisions[a]] <= a
<1> DEFINE Bad == {a \in Nat : ~(/\ a < Pow10[Divisions[a] + 1]
                                 /\ Divisions[a] > 0 => Pow10[Divisions[a]] <= a)}
<1>1. ASSUME Bad # {} PROVE FALSE
  <2>1. PICK a \in Bad : \A x \in Bad : a <= x
    BY <1>1, LeastNat, Zenon
  <2>2. a \in Nat /\ Divisions[a] \in Nat
    BY <2>1, DivisionsDef
  <2>3. Pow10[1] = 10
    <3>1. Pow10[0 + 1] = 10 * Pow10[0] /\ Pow10[0] = 1
      BY Pow10Def
    <3>2. QED
      BY <3>1
  <2>4. CASE a < 10
    <3>1. Divisions[a] = 0
      BY <2>2, <2>4, DivisionsDef
    <3>2. QED
      BY <2>1, <2>3, <2>4, <3>1
  <2>5. CASE a >= 10
    <3> DEFINE q == a \div 10
               k == Divisions[q]
    <3>1. q \in Nat /\ q < a /\ 10 * q <= a /\ a < 10 * q + 10
      BY <2>2, <2>5
    <3>2. Divisions[a] = 1 + k
      BY <2>2, <2>5, DivisionsDef
    <3> HIDE DEF q
    <3>3. k \in Nat
      BY <3>1, DivisionsDef
    <3>4. q \notin Bad
      BY <2>1, <2>2, <3>1
    <3>5. q < Pow10[k + 1] /\ (k > 0 => Pow10[k] <= q)
      BY <3>1, <3>4
    <3> HIDE DEF k
    <3>6. /\ Pow10[k + 1] = 10 * Pow10[k] /\ Pow10[k + 2] = 10 * Pow10[k + 1]
          /\ Pow10[k] \in Nat /\ Pow10[k + 1] \in Nat
      <4>1. k + 1 \in Nat /\ (k + 1) + 1 = k + 2
        BY <3>3
      <4>2. Pow10[(k + 1) + 1] = 10 * Pow10[k + 1]
        BY <4>1, Pow10Def
      <4>3. QED
        BY <3>3, <4>1, <4>2, Pow10Def
    <3>7. a < Pow10[k + 2]
      BY <2>2, <3>1, <3>5, <3>6
    <3>8. Pow10[k + 1] <= a
      <4>1. CASE k = 0
        BY <2>3, <2>5, <4>1
      <4>2. CASE k > 0
        BY <2>2, <3>1, <3>5, <3>6, <4>2
      <4>3. QED
        BY <3>3, <4>1, <4>2
    <3>9. Divisions[a] = k + 1 /\ Divisions[a] + 1 = k + 2
      BY <3>2, <3>3
    <3>10. QED
      BY <2>1, <3>7, <3>8, <3>9
  <2>6. QED
    BY <2>2, <2>4, <2>5
<1>2. QED
  BY <1>1

\* So many of the powers of ten does a number reach.
LEMMA PowersReached ==
  ASSUME NEW a \in Nat, a <= LongMax + 1
  PROVE  Cardinality({d \in 1 .. MaxDigits : Pow10[d] <= a}) = Divisions[a]
<1> DEFINE n == Divisions[a]
<1>1. n \in Nat /\ a < Pow10[n + 1] /\ (n > 0 => Pow10[n] <= a)
  BY DivisionsDef, DivisionsCount
<1> HIDE DEF n
<1>2. MaxDigits \in Nat /\ LongMax \in Nat /\ LongMax + 1 < Pow10[MaxDigits]
  BY EventAssumption
<1>3. \A d \in Nat : Pow10[d] \in Nat
  BY Pow10Def
<1>4. \A d \in Nat : d > n => ~(Pow10[d] <= a)
  <2> SUFFICES ASSUME NEW d \in Nat, d > n PROVE ~(Pow10[d] <= a)
    OBVIOUS
  <2>1. n + 1 \in Nat /\ n + 1 <= d
    BY <1>1
  <2>2. Pow10[n + 1] <= Pow10[d]
    BY <2>1, Pow10Grows
  <2>3. QED
    BY <1>1, <1>3, <2>1, <2>2
<1>5. \A d \in 1 .. n : Pow10[d] <= a
  <2> SUFFICES ASSUME NEW d \in 1 .. n PROVE Pow10[d] <= a
    OBVIOUS
  <2>1. Pow10[d] <= Pow10[n]
    BY <1>1, Pow10Grows
  <2>2. QED
    BY <1>1, <1>3, <2>1
<1>6. n <= MaxDigits
  <2>1. ASSUME n > MaxDigits PROVE FALSE
    <3>1. Pow10[MaxDigits] <= Pow10[n]
      BY <1>1, <1>2, <2>1, Pow10Grows
    <3>2. QED
      BY <1>1, <1>2, <1>3, <2>1, <3>1
  <2>2. QED
    BY <1>1, <1>2, <2>1
<1>7. {d \in 1 .. MaxDigits : Pow10[d] <= a} = 1 .. n
  BY <1>1, <1>2, <1>4, <1>5, <1>6
<1>8. Cardinality(1 .. n) = n
  <2>1. 1 \in Int /\ n \in Int
    BY <1>1
  <2>2. Cardinality(1 .. n) = IF 1 > n THEN 0 ELSE n - 1 + 1
    BY <2>1, FS_Interval
  <2>3. QED
    BY <1>1, <2>2
<1>9. QED
  BY <1>7, <1>8 DEF n

\* get_integer_size, for every long.
LEMMA IntegerSizeValue ==
  ASSUME NEW v \in MinLong .. LongMax
  PROVE  IntegerSize(v) = IF v = MinLong THEN 2 ELSE Printed(v)
<1>1. LongMax \in Nat /\ v \in Int
  BY EventAssumption DEF MinLong
<1>2. CASE v = MinLong
  BY <1>1, <1>2 DEF MinLong, IntegerSize, Negate
<1>3. CASE v # MinLong
  <2> DEFINE a == IF v < 0 THEN -v ELSE v
             s == IF v < 0 THEN 2 ELSE 1
  <2>1. a \in Nat /\ a <= LongMax + 1
    BY <1>1 DEF MinLong
  <2>2. Printed(v) = s + Divisions[a]
    <3>1. Printed(v) = s + Cardinality({d \in 1 .. MaxDigits : Pow10[d] <= a})
      BY DEF Printed
    <3> HIDE DEF a, s
    <3>2. QED
      BY <2>1, <3>1, PowersReached
  <2>3. IntegerSize(v) = s + IF a < 10 THEN 0 ELSE Divisions[a]
    BY <1>3 DEF IntegerSize, Negate
  <2> HIDE DEF a, s
  <2>4. a < 10 => Divisions[a] = 0
    BY <2>1, DivisionsDef
  <2>5. QED
    BY <1>3, <2>2, <2>3, <2>4
<1>4. QED
  BY <1>2, <1>3

\* get_integer_size gives what an integer prints as, for longs of any width:
\* it is wrong for the smallest long only.
THEOREM IntegerSizesRight == IntegerSizeIsPrinted
BY IntegerSizeValue DEF IntegerSizeIsPrinted

-----------------------------------------------------------------------------
(***************************************************************************)
(* Where the bytes of a record are: a stored record is there byte for      *)
(* byte, a refused one lacks its last byte, and one whose writer has yet   *)
(* to store it has none.                                                   *)
(***************************************************************************)
RecordsPlaced ==
  /\ \A m \in StoredRecords : \A k \in 1 .. lens[m] : HasByte(Stream, m, k)
  /\ \A m \in refused : ~HasByte(Stream, m, lens[m])
  /\ \A w \in Writers : wpc[w] \in {"lock", "copy", "put"}
       => \A k \in 1 .. MaxEvent : ~HasByte(Stream, wmsg[w], k)

\* Appending the first k bytes of record m adds these bytes and no other.
LEMMA AppendHas ==
  ASSUME NEW s \in Seq(Byte), NEW m \in 1 .. MaxWrites, NEW k \in 0 .. MaxEvent,
         NEW t, t = s \o Prefix(m, k), NEW x, NEW y
  PROVE  HasByte(t, x, y) <=> HasByte(s, x, y) \/ (x = m /\ y \in 1 .. k)
<1> DEFINE p == Prefix(m, k)
<1>1. /\ p \in Seq(Byte) /\ Len(p) = k
      /\ \A i \in 1 .. k : p[i] = [msg |-> m, pos |-> i]
  BY PrefixProperties
<1>2. t = s \o p
  OBVIOUS
<1> HIDE DEF p
<1>3. /\ Len(t) = Len(s) + k
      /\ \A i \in 1 .. Len(s) + k : t[i] = IF i <= Len(s) THEN s[i] ELSE p[i - Len(s)]
  <2>1. /\ Len(s \o p) = Len(s) + Len(p)
        /\ \A i \in 1 .. Len(s) + Len(p) :
             (s \o p)[i] = IF i <= Len(s) THEN s[i] ELSE p[i - Len(s)]
    BY <1>1, ConcatProperties, Zenon
  <2>2. QED
    BY <1>1, <1>2, <2>1, Zenon
<1>4. Len(s) \in Nat /\ k \in Nat
  BY QueueAssumption
<1>5. ASSUME HasByte(s, x, y) PROVE HasByte(t, x, y)
  <2>1. PICK i \in 1 .. Len(s) : s[i] = [msg |-> x, pos |-> y]
    BY <1>5 DEF HasByte
  <2>2. i \in 1 .. Len(t) /\ t[i] = s[i]
    BY <1>3, <1>4
  <2>3. QED
    BY <2>1, <2>2 DEF HasByte
<1>6. ASSUME x = m, y \in 1 .. k PROVE HasByte(t, x, y)
  <2>1. /\ Len(s) + y \in 1 .. Len(s) + k
        /\ ~(Len(s) + y <= Len(s)) /\ (Len(s) + y) - Len(s) = y
    BY <1>4, <1>6
  <2>2. t[Len(s) + y] = [msg |-> x, pos |-> y]
    BY <1>1, <1>3, <1>6, <2>1
  <2>3. QED
    BY <1>3, <2>1, <2>2 DEF HasByte
<1>7. ASSUME HasByte(t, x, y) PROVE HasByte(s, x, y) \/ (x = m /\ y \in 1 .. k)
  <2>1. PICK i \in 1 .. Len(t) : t[i] = [msg |-> x, pos |-> y]
    BY <1>7 DEF HasByte
  <2>2. CASE i <= Len(s)
    <3>1. i \in 1 .. Len(s) /\ t[i] = s[i]
      BY <1>3, <1>4, <2>2
    <3>2. QED
      BY <2>1, <3>1 DEF HasByte
  <2>3. CASE ~(i <= Len(s))
    <3>1. i - Len(s) \in 1 .. k
      BY <1>3, <1>4, <2>3
    <3>2. t[i] = p[i - Len(s)]
      BY <1>3, <1>4, <2>3
    <3>3. [msg |-> x, pos |-> y] = [msg |-> m, pos |-> i - Len(s)]
      BY <1>1, <2>1, <3>1, <3>2
    <3>4. QED
      BY <3>1, <3>3
  <2>4. QED
    BY <2>2, <2>3
<1>8. QED
  BY <1>5, <1>6, <1>7

\* The steps of writers and readers keep every record's bytes where they are.
LEMMA NextRecordsPlaced ==
  ASSUME IInv, RecordsOwned, RecordsWhole, RecordsPlaced, [Next]_vars
  PROVE  RecordsPlaced'
<1> USE QueueAssumption
<1>1. /\ StoredRecords \subseteq 1 .. calls /\ refused \subseteq 1 .. calls
      /\ calls \in 0 .. MaxWrites
  BY DEF IInv, TypeOK, WriterType, StoredRecords, Waking
<1>2. Stream \in Seq(Byte)
  BY ConcatProperties DEF IInv, TypeOK, QueueType, Stream
<1>3. ASSUME Stream' = Stream, StoredRecords' = StoredRecords, refused' = refused,
             \A m \in 1 .. calls : lens'[m] = lens[m],
             \A w \in Writers : wpc'[w] \in {"lock", "copy", "put"}
               => \A k \in 1 .. MaxEvent : ~HasByte(Stream, wmsg'[w], k)
      PROVE  RecordsPlaced'
  <2>1. \A m \in StoredRecords : \A k \in 1 .. lens'[m] : HasByte(Stream, m, k)
    BY <1>1, <1>3 DEF RecordsPlaced
  <2>2. \A m \in refused : ~HasByte(Stream, m, lens'[m])
    BY <1>1, <1>3 DEF RecordsPlaced
  <2>3. /\ \A m \in StoredRecords' : \A k \in 1 .. lens'[m] : HasByte(Stream', m, k)
        /\ \A m \in refused' : ~HasByte(Stream', m, lens'[m])
        /\ \A w \in Writers : wpc'[w] \in {"lock", "copy", "put"}
             => \A k \in 1 .. MaxEvent : ~HasByte(Stream', wmsg'[w], k)
    BY <1>3, <2>1, <2>2
  <2>4. QED
    BY <2>3 DEF RecordsPlaced, HasByte
<1>4. ASSUME NEW w \in Writers, NEW len \in 1 .. MaxEvent, WriteCall(w, len)
      PROVE  RecordsPlaced'
  <2>1. Stream' = Stream /\ StoredRecords' = StoredRecords /\ refused' = refused
    BY <1>4, StoredSteps DEF WriteCall, Stream
  <2>2. \A m \in 1 .. calls : lens'[m] = lens[m]
    BY <1>4 DEF WriteCall, IInv, TypeOK, WriterType
  <2>3. /\ wmsg'[w] = calls + 1
        /\ \A v \in Writers \ {w} : wmsg'[v] = wmsg[v] /\ wpc'[v] = wpc[v]
    BY <1>4 DEF WriteCall, IInv, TypeOK, WriterType
  <2>4. \A k \in 1 .. MaxEvent : ~HasByte(Stream, calls + 1, k)
    <3>1. SUFFICES ASSUME NEW i \in 1 .. Len(Stream), Stream[i].msg = calls + 1
                   PROVE  FALSE
      BY DEF HasByte
    <3>2. Stream[i].msg \in 1 .. calls
      BY DEF RecordsWhole
    <3>3. QED
      BY <1>1, <3>1, <3>2
  <2>5. ASSUME NEW v \in Writers, wpc'[v] \in {"lock", "copy", "put"}, NEW k \in 1 .. MaxEvent
        PROVE  ~HasByte(Stream, wmsg'[v], k)
    <3>1. CASE v = w
      BY <2>3, <2>4, <3>1, Zenon
    <3>2. CASE v # w
      BY <2>3, <2>5, <3>2 DEF RecordsPlaced
    <3>3. QED
      BY <3>1, <3>2
  <2>6. QED
    BY <1>3, <2>1, <2>2, <2>5
<1>5. ASSUME NEW w \in Writers, WLock(w) \/ WCopy(w)
      PROVE  RecordsPlaced'
  <2>1. Stream' = Stream /\ StoredRecords' = StoredRecords /\ UNCHANGED <<refused, lens, wmsg>>
    BY <1>5, StoredSteps DEF WLock, WCopy, Stream
  <2>2. \A v \in Writers : wpc'[v] \in {"lock", "copy", "put"} => wpc[v] \in {"lock", "copy", "put"}
    BY <1>5 DEF WLock, WCopy, IInv, TypeOK, WriterType
  <2>3. QED
    BY <1>3, <2>1, <2>2 DEF RecordsPlaced
<1>6. ASSUME NEW w \in Writers, WWake(w)
      PROVE  RecordsPlaced'
  <2>1. Stream' = Stream /\ StoredRecords' = StoredRecords /\ UNCHANGED <<refused, lens, wmsg>>
    BY <1>6, StoredSteps DEF WWake, Stream
  <2>2. \A v \in Writers : wpc'[v] \in {"lock", "copy", "put"} => wpc[v] \in {"lock", "copy", "put"}
    BY <1>6 DEF WWake, IInv, TypeOK, WriterType
  <2>3. QED
    BY <1>3, <2>1, <2>2 DEF RecordsPlaced
<1>7. ASSUME NEW w \in Writers, WPut(w)
      PROVE  RecordsPlaced'
  <2>1. PICK m \in 1 .. MaxWrites, k \in 0 .. MaxEvent : m = wmsg[w] /\ k = wput[w]
    BY <1>7, PutStream
  <2>2. /\ m \in 1 .. calls /\ lens[m] \in 1 .. MaxEvent
        /\ k = Room(lens[m])
        /\ Stream' = Stream \o Prefix(m, k)
    BY <1>7, <2>1, PutStream
  <2>3. k \in 0 .. lens[m]
    <3>1. Len(fifo) \in 0 .. FifoSize
      BY DEF IInv, TypeOK, QueueType
    <3>2. QED
      BY <2>2, <3>1, RoomProperties
  <2>4. UNCHANGED <<lens, wmsg>>
    BY <1>7 DEF WPut, WPutDone
  <2>5. PICK t : t = Stream' /\ t = Stream \o Prefix(m, k)
    BY <2>2
  <2>6. \A x, y : HasByte(t, x, y) <=> HasByte(Stream, x, y) \/ (x = m /\ y \in 1 .. k)
    <3>1. PICK s \in Seq(Byte) : s = Stream
      BY <1>2
    <3>2. t = s \o Prefix(m, k)
      BY <2>5, <3>1
    <3>3. \A x, y : HasByte(t, x, y) <=> HasByte(s, x, y) \/ (x = m /\ y \in 1 .. k)
      BY <3>2, AppendHas
    <3>4. QED
      BY <3>1, <3>3
  <2>7. \A n \in 1 .. MaxEvent : ~HasByte(Stream, m, n)
    BY <1>7, <2>1 DEF WPut, RecordsPlaced
  <2>8. m \notin StoredRecords \cup refused
    BY <1>7, <2>1, StoredSteps
  <2>9. ASSUME NEW v \in Writers, wpc'[v] \in {"lock", "copy", "put"}, NEW n \in 1 .. MaxEvent
        PROVE  ~HasByte(t, wmsg[v], n)
    <3>1. v # w /\ wpc[v] \in {"lock", "copy", "put"}
      BY <1>7, <2>9 DEF WPut, WPutDone, IInv, TypeOK, WriterType
    <3>2. wmsg[v] # m
      BY <1>7, <2>1, <3>1 DEF WPut, RecordsOwned
    <3>3. ~HasByte(Stream, wmsg[v], n)
      BY <3>1 DEF RecordsPlaced
    <3>4. QED
      BY <2>6, <3>2, <3>3
  <2>10. \A x \in StoredRecords : \A n \in 1 .. lens[x] : HasByte(t, x, n)
    BY <2>6 DEF RecordsPlaced
  <2>11. \A x \in refused : ~HasByte(t, x, lens[x])
    BY <2>6, <2>8 DEF RecordsPlaced
  <2>12. CASE k = lens[m]
    <3>1. StoredRecords' = StoredRecords \cup {m} /\ refused' = refused
      BY <1>7, <2>1, <2>12, StoredSteps DEF WPut, WPutDone
    <3>2. \A n \in 1 .. lens[m] : HasByte(t, m, n)
      BY <2>6, <2>12
    <3>3. \A x \in StoredRecords' : \A n \in 1 .. lens[x] : HasByte(t, x, n)
      BY <2>10, <3>1, <3>2
    <3>4. /\ \A x \in StoredRecords' : \A n \in 1 .. lens'[x] : HasByte(Stream', x, n)
          /\ \A x \in refused' : ~HasByte(Stream', x, lens'[x])
          /\ \A v \in Writers : wpc'[v] \in {"lock", "copy", "put"}
               => \A n \in 1 .. MaxEvent : ~HasByte(Stream', wmsg'[v], n)
      BY <2>4, <2>5, <2>9, <2>11, <3>1, <3>3
    <3>5. QED
      BY <3>4 DEF RecordsPlaced, HasByte
  <2>13. CASE k # lens[m]
    <3>1. StoredRecords' = StoredRecords /\ refused' = refused \cup {m}
      BY <1>7, <2>1, <2>13, StoredSteps DEF WPut, WPutDone
    <3>2. lens[m] \notin 1 .. k
      BY <2>2, <2>3, <2>13
    <3>3. ~HasByte(t, m, lens[m])
      BY <2>2, <2>6, <2>7, <3>2
    <3>4. \A x \in refused' : ~HasByte(t, x, lens[x])
      BY <2>11, <3>1, <3>3
    <3>5. /\ \A x \in StoredRecords' : \A n \in 1 .. lens'[x] : HasByte(Stream', x, n)
          /\ \A x \in refused' : ~HasByte(Stream', x, lens'[x])
          /\ \A v \in Writers : wpc'[v] \in {"lock", "copy", "put"}
               => \A n \in 1 .. MaxEvent : ~HasByte(Stream', wmsg'[v], n)
      BY <2>4, <2>5, <2>9, <2>10, <3>1, <3>4
    <3>6. QED
      BY <3>5 DEF RecordsPlaced, HasByte
  <2>14. QED
    BY <2>12, <2>13
<1>8. ASSUME NEW r \in Readers, NEW k \in 0 .. FifoSize, RTake(r, k)
      PROVE  RecordsPlaced'
  <2>1. Stream' = Stream
    BY <1>8, TakeStream
  <2>2. StoredRecords' = StoredRecords /\ UNCHANGED <<refused, lens, wpc, wmsg>>
    BY <1>8 DEF RTake, wvars, StoredRecords, Waking
  <2>3. QED
    BY <1>3, <2>1, <2>2 DEF RecordsPlaced
<1>9. ASSUME UNCHANGED <<fifo, taken, wvars>>
      PROVE  RecordsPlaced'
  <2>1. Stream' = Stream /\ StoredRecords' = StoredRecords /\ UNCHANGED <<refused, lens, wpc, wmsg>>
    BY <1>9 DEF wvars, Stream, StoredRecords, Waking
  <2>2. QED
    BY <1>3, <2>1 DEF RecordsPlaced
<1>10. QED
  BY <1>4, <1>5, <1>6, <1>7, <1>8, <1>9
     DEF Next, WStep, RStep, RTakeAny, vars, ReadCall, PollCall, RPrepare,
         RCheck, RResume, RSignal, RLock

\* Every record's bytes are where its answer says.
LEMMA InvariantRecordsPlaced == Spec => []RecordsPlaced
<1>1. Init => RecordsPlaced
  <2>1. Init => StoredRecords = {} /\ refused = {}
    BY DEF Init, StoredRecords, Waking
  <2>2. Init => \A w \in Writers : wpc[w] = "idle"
    BY DEF Init
  <2>3. QED
    BY <2>1, <2>2 DEF RecordsPlaced
<1>2. IInv /\ RecordsOwned /\ RecordsWhole /\ RecordsPlaced /\ [Next]_vars => RecordsPlaced'
  BY NextRecordsPlaced
<1>3. QED
  BY <1>1, <1>2, InvariantIInv, InvariantRecordsOwned, InvariantRecordsWhole, PTL DEF Spec

-----------------------------------------------------------------------------
\* A step of the system is a call of the builder or leaves the event alone.
LEMMA SystemStepsEvent == [SystemNext]_sysvars => [EventNext]_event
<1>1. ASSUME Build PROVE EventNext
  BY <1>1 DEF Build, EventNext
<1>2. ASSUME Send PROVE EventNext
  BY <1>2 DEF Send, EventNext
<1>3. ASSUME Drop PROVE EventNext
  BY <1>3 DEF Drop, EventNext
<1>4. ASSUME Others \/ UNCHANGED sysvars PROVE UNCHANGED event
  BY <1>4 DEF Others, sysvars, event, event
<1>5. QED
  BY <1>1, <1>2, <1>3, <1>4 DEF SystemNext

\* The driver hands the queue a record of admissible length.
LEMMA SendLength ==
  ASSUME EventInv, Send
  PROVE  used' \in used + 1 .. MaxEvent - 1 /\ used \in 0 .. MaxEvent - 1
<1>1. Extend("end", 2)
  BY DEF Send, Write
<1>2. QED
  BY <1>1, ExtendStores DEF EventInv, EventTypeOK

\* A step of the system is a step of the queue or leaves it alone.
LEMMA SystemStepsQueue == EventInv /\ [SystemNext]_sysvars => [Next]_vars
<1> SUFFICES ASSUME EventInv, [SystemNext]_sysvars PROVE [Next]_vars
  OBVIOUS
<1> USE QueueAssumption, SystemAssumption
<1>1. ASSUME Build \/ Drop \/ UNCHANGED sysvars PROVE UNCHANGED vars
  BY <1>1 DEF Build, Drop, sysvars
<1>2. ASSUME Send PROVE Next
  <2>1. used' \in used + 1 .. MaxEvent - 1 /\ used \in 0 .. MaxEvent - 1
    BY <1>2, SendLength
  <2>2. used' \in 1 .. MaxEvent
    BY <2>1
  <2>3. Driver \in Writers /\ WriteCall(Driver, used')
    BY <1>2 DEF Send
  <2>4. QED
    BY <2>2, <2>3 DEF Next
<1>3. ASSUME Others PROVE Next
  <2>1. ASSUME NEW w \in Writers \ {Driver}, NEW len \in UserLens, WriteCall(w, len)
        PROVE  Next
    <3>1. len \in 1 .. MaxEvent
      OBVIOUS
    <3>2. QED
      BY <2>1, <3>1 DEF Next
  <2>2. ASSUME NEW w \in Writers, WStep(w) PROVE Next
    BY <2>2 DEF Next
  <2>3. ASSUME NEW r \in Readers,
               \/ RStep(r) \/ RSignal(r) \/ PollCall(r)
               \/ \E c \in Counts, b \in BOOLEAN : ReadCall(r, c, b)
        PROVE  Next
    BY <2>3 DEF Next
  <2>4. QED
    BY <1>3, <2>1, <2>2, <2>3 DEF Others
<1>4. QED
  BY <1>1, <1>2, <1>3 DEF SystemNext

\* The builder's invariant holds of the driver's event.
LEMMA SystemEventInv == SystemSpec => []EventInv
<1>1. SystemInit => EventInv
  BY EventStart DEF SystemInit
<1>2. EventInv /\ [SystemNext]_sysvars => EventInv'
  BY EventStep, SystemStepsEvent
<1>3. QED
  BY <1>1, <1>2, PTL DEF SystemSpec

\* The driver and the event builder keep to the queue's terms.
THEOREM QueueTermsKept == SystemSpec => KeepsQueueTerms
<1>1. SystemInit => Init
  BY DEF SystemInit
<1>2. QED
  BY <1>1, SystemEventInv, SystemStepsQueue, PTL DEF SystemSpec, KeepsQueueTerms, Spec

\* The composition implements both its parts: what the driver does is a use
\* of the event builder, and the device remains one stream of bytes.
THEOREM SystemImplementsParts == SystemSpec => EventSpec /\ ImplementsStream
<1>1. SystemInit => EventInit
  BY DEF SystemInit
<1>2. SystemSpec => EventSpec
  BY <1>1, SystemStepsEvent, PTL DEF SystemSpec, EventSpec
<1>3. SystemSpec => ImplementsStream
  BY QueueTermsKept, StreamImplemented, PTL DEF KeepsQueueTerms
<1>4. QED
  BY <1>2, <1>3, PTL

(***************************************************************************)
(* With drivers that retry, other writers and readers, no wake-up is lost, *)
(* no record is mixed with another or cut without its writer being told,   *)
(* and no event reaches the queue with a cut parameter.                    *)
(***************************************************************************)
THEOREM SystemSafe ==
  SystemSpec => [](/\ NoLostWakeup /\ CriticalSectionStable /\ SoleReaderFindsData
                   /\ RecordsContiguous /\ TornOnlyWhenRefused
                   /\ SentIsWhole)
<1>1. SystemSpec => Spec
  BY QueueTermsKept DEF KeepsQueueTerms
<1>2. SystemSpec => EventSpec
  BY SystemImplementsParts, PTL
<1>3. QED
  BY <1>1, <1>2, WakeupNeverLost, CriticalSectionSafe, SoleReaderSafe, RecordsNeverMixed,
     TornRecordsRefused, EventsSentWhole, PTL

-----------------------------------------------------------------------------
(***************************************************************************)
(* The tries of the event the driver holds: each is longer than the one    *)
(* before, none but the last was taken, and none but the last is still on  *)
(* its way.                                                                *)
(***************************************************************************)
TriesInOrder ==
  /\ tries \in Seq(1 .. calls)
  /\ \A j, k \in 1 .. Len(tries) : j < k => lens[tries[j]] < lens[tries[k]]
  /\ \A k \in 1 .. Len(tries) :
       /\ lens[tries[k]] <= used
       /\ tries[k] \in acked => k = Len(tries)
  /\ tries # <<>> => live
  /\ \A w \in Writers, k \in 1 .. Len(tries) :
       wpc[w] # "idle" /\ wmsg[w] = tries[k] => k = Len(tries) /\ w = Driver

\* What the queue's own steps do to the tries: they may only answer the last.
LEMMA TriesWait ==
  ASSUME IInv, TriesInOrder, UNCHANGED <<used, live, tries>>,
         calls' \in Nat, calls <= calls',
         \A m \in 1 .. calls : lens'[m] = lens[m],
         \A m \in acked' \ acked :
            \E w \in Writers : wpc[w] # "idle" /\ wmsg[w] = m,
         \A w \in Writers : wpc'[w] # "idle"
            => \/ wmsg'[w] = wmsg[w] /\ wpc[w] # "idle"
               \/ wmsg'[w] = calls + 1
  PROVE  TriesInOrder'
<1>1. /\ tries \in Seq(1 .. calls) /\ calls \in Nat
      /\ \A k \in 1 .. Len(tries) : tries[k] \in 1 .. calls
  BY QueueAssumption DEF TriesInOrder, IInv, TypeOK, WriterType
<1>2. \A k \in 1 .. Len(tries) : lens'[tries[k]] = lens[tries[k]]
  BY <1>1
<1>3. tries' \in Seq(1 .. calls')
  <2>1. \A k \in 1 .. Len(tries) : tries[k] \in 1 .. calls'
    BY <1>1
  <2>2. tries \in Seq(1 .. calls')
    BY <1>1, <2>1
  <2>3. QED
    BY <2>2
<1>4. ASSUME NEW k \in 1 .. Len(tries), tries[k] \in acked' PROVE k = Len(tries)
  BY <1>4 DEF TriesInOrder
<1>5. ASSUME NEW w \in Writers, NEW k \in 1 .. Len(tries), wpc'[w] # "idle", wmsg'[w] = tries[k]
      PROVE  k = Len(tries) /\ w = Driver
  <2>1. tries[k] # calls + 1
    BY <1>1
  <2>2. QED
    BY <1>5, <2>1 DEF TriesInOrder
<1>6. QED
  BY <1>2, <1>3, <1>4, <1>5 DEF TriesInOrder

\* Every step of the system keeps the tries in order.
LEMMA NextTries ==
  ASSUME IInv, EventInv, RecordsOwned, TriesInOrder, [SystemNext]_sysvars
  PROVE  TriesInOrder'
<1> USE QueueAssumption, SystemAssumption
<1>1. calls \in 0 .. MaxWrites /\ acked \subseteq 1 .. calls
  BY DEF IInv, TypeOK, WriterType
<1>2. ASSUME Build PROVE TriesInOrder'
  <2>1. tries = <<>> /\ tries' = <<>>
    BY <1>2 DEF Build
  <2>2. <<>> \in Seq(1 .. calls')
    OBVIOUS
  <2>3. QED
    BY <2>1, <2>2 DEF TriesInOrder
<1>3. ASSUME Drop PROVE TriesInOrder'
  <2>1. tries' = <<>>
    BY <1>3 DEF Drop
  <2>2. <<>> \in Seq(1 .. calls')
    OBVIOUS
  <2>3. QED
    BY <2>1, <2>2 DEF TriesInOrder
<1>4. ASSUME Send PROVE TriesInOrder'
  <2> DEFINE n == Len(tries)
  <2>1. /\ tries \in Seq(1 .. calls) /\ n \in Nat
        /\ \A k \in 1 .. n : tries[k] \in 1 .. calls
    <3>1. tries \in Seq(1 .. calls) /\ calls \in Nat
      BY <1>1 DEF TriesInOrder
    <3>2. QED
      BY <3>1
  <2>2. used' > used /\ used \in Nat /\ used' \in Nat
    <3>1. used' \in used + 1 .. MaxEvent - 1 /\ used \in 0 .. MaxEvent - 1
      BY <1>4, SendLength
    <3>2. MaxEvent \in Nat
      OBVIOUS
    <3>3. QED
      BY <3>1, <3>2
  <2>3. /\ tries' = Append(tries, calls + 1) /\ calls' = calls + 1
        /\ calls < MaxWrites /\ live' = live /\ live
        /\ lens' = [lens EXCEPT ![calls + 1] = used']
        /\ wmsg' = [wmsg EXCEPT ![Driver] = calls + 1]
        /\ wpc' = [wpc EXCEPT ![Driver] = "lock"]
        /\ wpc[Driver] = "idle" /\ acked' = acked
    BY <1>4 DEF Send, WriteCall, Write
  <2>4. /\ tries' \in Seq(1 .. calls') /\ Len(tries') = n + 1
        /\ tries'[n + 1] = calls + 1
        /\ \A k \in 1 .. n : tries'[k] = tries[k]
    <3>1. \A k \in 1 .. n : tries[k] \in 1 .. calls + 1
      BY <1>1, <2>1
    <3>2. tries \in Seq(1 .. calls + 1) /\ calls + 1 \in 1 .. calls + 1
      BY <1>1, <2>1, <3>1
    <3>3. QED
      BY <2>3, <3>2
  <2>5. /\ lens'[calls + 1] = used'
        /\ \A k \in 1 .. n : lens'[tries[k]] = lens[tries[k]] /\ lens[tries[k]] \in Nat
    <3>1. lens \in [1 .. MaxWrites -> 0 .. MaxEvent] /\ calls + 1 \in 1 .. MaxWrites
      BY <1>1, <2>3 DEF IInv, TypeOK, WriterType
    <3>2. lens'[calls + 1] = used'
      BY <2>3, <3>1
    <3>3. \A m \in 1 .. calls : lens'[m] = lens[m] /\ lens[m] \in Nat
      BY <1>1, <2>3, <3>1
    <3>4. QED
      BY <2>1, <3>2, <3>3
  <2>6. \A k \in 1 .. n : lens'[tries'[k]] = lens[tries[k]] /\ lens[tries[k]] <= used
    BY <2>4, <2>5 DEF TriesInOrder
  <2>7. lens'[tries'[n + 1]] = used'
    BY <2>4, <2>5
  <2>8. \A j, k \in 1 .. Len(tries') : j < k => lens'[tries'[j]] < lens'[tries'[k]]
    <3> SUFFICES ASSUME NEW j \in 1 .. n + 1, NEW k \in 1 .. n + 1, j < k
                 PROVE  lens'[tries'[j]] < lens'[tries'[k]]
      BY <2>4
    <3>1. CASE k = n + 1
      <4>1. j \in 1 .. n
        BY <2>1, <3>1
      <4>2. QED
        BY <2>2, <2>5, <2>6, <2>7, <3>1, <4>1
    <3>2. CASE k # n + 1
      <4>1. j \in 1 .. n /\ k \in 1 .. n
        BY <2>1, <3>2
      <4>2. lens[tries[j]] < lens[tries[k]]
        BY <4>1 DEF TriesInOrder
      <4>3. QED
        BY <2>6, <4>1, <4>2
    <3>3. QED
      BY <3>1, <3>2
  <2>9. \A k \in 1 .. n : tries[k] \notin acked
    <3>1. ASSUME NEW k \in 1 .. n, tries[k] \in acked PROVE FALSE
      <4>1. k = n
        BY <3>1 DEF TriesInOrder
      <4>2. tries # <<>>
        BY <2>1, <3>1
      <4>3. Delivered
        BY <3>1, <4>1, <4>2 DEF Delivered
      <4>4. QED
        BY <1>4, <4>3 DEF Send
    <3>2. QED
      BY <3>1
  <2>10. ASSUME NEW k \in 1 .. Len(tries')
         PROVE  /\ lens'[tries'[k]] <= used'
                /\ tries'[k] \in acked' => k = Len(tries')
    <3>1. CASE k = n + 1
      BY <2>2, <2>4, <2>7, <3>1
    <3>2. CASE k # n + 1
      <4>1. k \in 1 .. n
        BY <2>1, <2>4, <3>2
      <4>2. QED
        BY <2>2, <2>3, <2>4, <2>5, <2>6, <2>9, <4>1
    <3>3. QED
      BY <3>1, <3>2
  <2>11. ASSUME NEW w \in Writers, NEW k \in 1 .. Len(tries'),
                wpc'[w] # "idle", wmsg'[w] = tries'[k]
         PROVE  k = Len(tries') /\ w = Driver
    <3>0. ASSUME k = n + 1 PROVE w = Driver
      <4>1. wmsg'[w] = calls + 1
        BY <2>4, <2>11, <3>0
      <4>2. w # Driver => wpc[w] # "idle" /\ wmsg[w] = calls + 1
        BY <2>3, <2>11, <4>1 DEF IInv, TypeOK, WriterType
      <4>3. QED
        BY <1>1, <4>2 DEF IInv, TypeOK, WriterType
    <3> SUFFICES ASSUME k # n + 1 PROVE FALSE
      BY <2>4, <3>0
    <3>1. k \in 1 .. n /\ tries'[k] = tries[k] /\ tries[k] \in 1 .. calls
      BY <2>1, <2>4
    <3>2. w # Driver
      BY <1>1, <2>3, <2>11, <3>1 DEF IInv, TypeOK, WriterType
    <3>3. wpc[w] # "idle" /\ wmsg[w] = tries[k]
      BY <2>3, <2>11, <3>1, <3>2 DEF IInv, TypeOK, WriterType
    <3>4. QED
      BY <3>1, <3>2, <3>3 DEF TriesInOrder
  <2>12. QED
    BY <2>3, <2>4, <2>8, <2>10, <2>11 DEF TriesInOrder
<1>5. ASSUME UNCHANGED <<used, live, tries>>, UNCHANGED wvars PROVE TriesInOrder'
  BY <1>1, <1>5, TriesWait DEF wvars
<1>6. ASSUME Others PROVE TriesInOrder'
  <2>1. UNCHANGED <<used, live, tries>>
    BY <1>6 DEF Others, event
  <2>2. ASSUME NEW w \in Writers, NEW len \in UserLens, WriteCall(w, len)
        PROVE  TriesInOrder'
    <3>1. calls' = calls + 1 /\ acked' = acked
      BY <2>2 DEF WriteCall
    <3>2. \A m \in 1 .. calls : lens'[m] = lens[m]
      BY <1>1, <2>2 DEF WriteCall, IInv, TypeOK, WriterType
    <3>3. \A v \in Writers : wpc'[v] # "idle"
            => \/ wmsg'[v] = wmsg[v] /\ wpc[v] # "idle"
               \/ wmsg'[v] = calls + 1
      BY <2>2 DEF WriteCall, IInv, TypeOK, WriterType
    <3>4. calls' \in Nat /\ calls <= calls'
      BY <1>1, <3>1
    <3>5. QED
      BY <2>1, <3>1, <3>2, <3>3, <3>4, TriesWait
  <2>3. ASSUME NEW w \in Writers, WStep(w) PROVE TriesInOrder'
    <3>1. UNCHANGED <<calls, lens, wmsg>>
      BY <2>3 DEF WStep, WLock, WCopy, WPut, WPutDone, WWake
    <3>2. wpc[w] # "idle" /\ acked' \subseteq acked \cup {wmsg[w]}
      BY <2>3 DEF WStep, WLock, WCopy, WPut, WPutDone, WWake
    <3>3. \A v \in Writers : wpc'[v] # "idle" => wpc[v] # "idle"
      BY <2>3 DEF WStep, WLock, WCopy, WPut, WPutDone, WWake, IInv, TypeOK, WriterType
    <3>4. calls' \in Nat /\ calls <= calls'
      BY <1>1, <3>1
    <3>5. \A m \in acked' \ acked : wpc[w] # "idle" /\ wmsg[w] = m
      BY <3>2
    <3>6. QED
      BY <2>1, <3>1, <3>3, <3>4, <3>5, TriesWait
  <2>4. ASSUME NEW r \in Readers,
               \/ RStep(r) \/ RSignal(r) \/ PollCall(r)
               \/ \E c \in Counts, b \in BOOLEAN : ReadCall(r, c, b)
        PROVE  TriesInOrder'
    <3>1. UNCHANGED wvars
      BY <2>4 DEF RStep, RTakeAny, RPrepare, RCheck, RResume, RLock, RTake, RSignal,
                  PollCall, ReadCall
    <3>2. QED
      BY <1>5, <2>1, <3>1
  <2>5. QED
    BY <1>6, <2>2, <2>3, <2>4 DEF Others
<1>7. ASSUME UNCHANGED sysvars PROVE TriesInOrder'
  BY <1>5, <1>7 DEF sysvars, vars, event
<1>8. QED
  BY <1>2, <1>3, <1>4, <1>6, <1>7 DEF SystemNext

(***************************************************************************)
(* Retrying delivers an event once, but for the one case DeliveredOnce     *)
(* names, whatever the other writers and the readers do.                   *)
(***************************************************************************)
THEOREM EventDeliveredOnce == SystemSpec => []DeliveredOnce
<1>1. SystemInit => TriesInOrder
  <2>1. <<>> \in Seq(1 .. calls)
    OBVIOUS
  <2>2. QED
    BY <2>1 DEF SystemInit, TriesInOrder
<1>2. IInv /\ EventInv /\ RecordsOwned /\ TriesInOrder /\ [SystemNext]_sysvars => TriesInOrder'
  BY NextTries
<1>3. SystemSpec => []IInv /\ []RecordsOwned /\ []RecordsPlaced
  BY QueueTermsKept, InvariantIInv, InvariantRecordsOwned, InvariantRecordsPlaced, PTL
     DEF KeepsQueueTerms
<1>4. IInv /\ RecordsPlaced /\ TriesInOrder => DeliveredOnce
  <2> SUFFICES ASSUME IInv, RecordsPlaced, TriesInOrder PROVE DeliveredOnce
    OBVIOUS
  <2> DEFINE text == lens[tries[1]]
  <2> SUFFICES ASSUME NEW k \in 1 .. Len(tries)
               PROVE  /\ tries[k] \in acked => k = Len(tries) /\ HasByte(Stream, tries[k], text)
                      /\ tries[k] \in refused /\ HasByte(Stream, tries[k], text)
                           => k > 1 /\ lens[tries[k]] > text
    BY DEF DeliveredOnce, HasByte
  <2>1. /\ 1 \in 1 .. Len(tries) /\ Len(tries) \in Nat
        /\ \A j \in 1 .. Len(tries) : tries[j] \in 1 .. calls
    <3>1. tries \in Seq(1 .. calls) /\ calls \in Nat
      BY QueueAssumption DEF TriesInOrder, IInv, TypeOK, WriterType
    <3>2. QED
      BY <3>1
  <2>2. text \in Nat /\ text > 0 /\ lens[tries[k]] \in Nat
    BY <2>1, QueueAssumption DEF IInv, TypeOK, WriterType
  <2>3. k > 1 => lens[tries[k]] > text
    BY <2>1, <2>2 DEF TriesInOrder
  <2>4. text \in 1 .. lens[tries[k]]
    BY <2>1, <2>2, <2>3
  <2>5. tries[k] \in acked => k = Len(tries) /\ HasByte(Stream, tries[k], text)
    BY <2>4 DEF TriesInOrder, RecordsPlaced, StoredRecords
  <2>6. tries[k] \in refused /\ HasByte(Stream, tries[k], text) => k # 1
    BY DEF RecordsPlaced
  <2>7. QED
    BY <2>1, <2>3, <2>5, <2>6
<1>5. QED
  BY <1>1, <1>2, <1>3, <1>4, SystemEventInv, PTL DEF SystemSpec
=============================================================================
