----------------------------- MODULE MievQueue -----------------------------
(***************************************************************************)
(* The byte queue behind /dev/miev (miev/miev.c): kernel event writers and *)
(* user writers put records in a bounded kfifo under miev_dev->lock and    *)
(* wake the wait queue; readers and pollers look at the kfifo WITHOUT the  *)
(* lock, sleep on the wait queue, and take bytes under the lock.           *)
(*                                                                         *)
(* The unlocked emptiness tests, the steps of wait_event_interruptible     *)
(* (enqueue, re-test, sleep), the parts of kfifo_in (how much room, copy,  *)
(* advance `in') and the gap between mutex_unlock and                      *)
(* wake_up_interruptible are separate steps.  Bytes are tagged with the    *)
(* write they come from, so that the order and integrity of what a reader  *)
(* sees can be stated.                                                     *)
(***************************************************************************)
EXTENDS MievSizes, Integers, Sequences, FiniteSets

CONSTANTS
  Readers,   \* threads in read(2) or poll(2) on /dev/miev
  Writers,   \* threads in cdev_tevent_write or write(2)
  NoOwner,   \* the mutex is free
  FifoSize,  \* MIEV_FIFO_SIZE
  Counts,    \* the byte counts readers ask for
  MaxWrites  \* bound: how many writes a behaviour makes

ASSUME QueueAssumption ==
  /\ NoOwner \notin Readers \cup Writers
  /\ Readers \cap Writers = {}
  /\ FifoSize \in Nat /\ MaxEvent \in Nat /\ MaxWrites \in Nat
  /\ MaxEvent \in 1 .. FifoSize     \* 2048 bytes against 128 KiB
  /\ Counts \subseteq Nat

VARIABLES
  fifo,     \* the bytes in the kfifo
  slots,    \* what its buffer holds after them, where the next write goes
  lock,     \* owner of miev_dev->lock
  waiters,  \* readers queued on miev_dev->wait_queue and not yet woken
  rpc,      \* where each reader is
  rop,      \* what it is doing: "read" or "poll"
  rlen,     \* how many bytes its read is to take
  wpc,      \* where each writer is
  wmsg,     \* the number of the record it is writing
  wput,     \* what kfifo_in returned to it
  calls,    \* history: how many writes were called
  lens,     \* history: the length of each record, 0 before its call
  acked,    \* history: records whose write returned 0
  refused,  \* history: records whose write returned -ENOSPC
  taken     \* history: bytes taken out of the kfifo, in order

rvars == <<waiters, rpc, rop, rlen>>
wvars == <<slots, wpc, wmsg, wput, calls, lens, acked, refused>>
vars  == <<fifo, lock, rvars, wvars, taken>>

Byte == [msg : 1 .. MaxWrites, pos : 1 .. MaxEvent]

\* A slot nobody has written since it was last read.
Stale == [msg |-> 0, pos |-> 0]

\* The first n bytes of record m.
Prefix(m, n) == [i \in 1 .. n |-> [msg |-> m, pos |-> i]]

\* What passed through the queue so far, oldest byte first.
Stream == taken \o fifo

Least(a, b) == IF a < b THEN a ELSE b

Init ==
  /\ fifo = <<>> /\ taken = <<>>
  /\ slots = [i \in 1 .. MaxEvent |-> Stale]
  /\ calls = 0 /\ lens = [m \in 1 .. MaxWrites |-> 0]
  /\ lock = NoOwner
  /\ waiters = {} /\ acked = {} /\ refused = {}
  /\ rpc = [r \in Readers |-> "idle"]
  /\ rop = [r \in Readers |-> "read"]
  /\ rlen = [r \in Readers |-> 0]
  /\ wpc = [w \in Writers |-> "idle"]
  /\ wmsg = [w \in Writers |-> 0]
  /\ wput = [w \in Writers |-> 0]

-----------------------------------------------------------------------------
(***************************************************************************)
(* write_buf_inner, called by cdev_tevent_write and by miev_write.  Both   *)
(* hand it between 1 and MaxEvent bytes: miev_write refuses more and       *)
(* returns at once on 0, an event never outgrows its buffer.               *)
(***************************************************************************)
WriteCall(w, len) ==
  /\ wpc[w] = "idle"
  /\ calls < MaxWrites
  /\ calls' = calls + 1
  /\ lens' = [lens EXCEPT ![calls + 1] = len]
  /\ wmsg' = [wmsg EXCEPT ![w] = calls + 1]
  /\ wpc' = [wpc EXCEPT ![w] = "lock"]
  /\ UNCHANGED <<fifo, slots, lock, rvars, wput, acked, refused, taken>>

\* mutex_lock, then kfifo_in reads how many of the bytes have room.
Room(len) == Least(len, FifoSize - Len(fifo))

\* Mutant: the mutex is not taken.
WLockNoMutex(w) ==
  /\ wpc[w] = "lock"
  /\ wput' = [wput EXCEPT ![w] = Room(lens[wmsg[w]])]
  /\ wpc' = [wpc EXCEPT ![w] = "copy"]
  /\ UNCHANGED <<fifo, slots, lock, rvars, wmsg, calls, lens, acked, refused, taken>>

WLock(w) ==
  /\ wpc[w] = "lock"
  /\ lock = NoOwner
  /\ lock' = w
  /\ wput' = [wput EXCEPT ![w] = Room(lens[wmsg[w]])]
  /\ wpc' = [wpc EXCEPT ![w] = "copy"]
  /\ UNCHANGED <<fifo, slots, rvars, wmsg, calls, lens, acked, refused, taken>>

\* kfifo_in copies the leading bytes there is room for behind the queue's last.
WCopy(w) ==
  /\ wpc[w] = "copy"
  /\ slots' = [i \in 1 .. MaxEvent |->
                 IF i <= wput[w] THEN [msg |-> wmsg[w], pos |-> i] ELSE slots[i]]
  /\ wpc' = [wpc EXCEPT ![w] = "put"]
  /\ UNCHANGED <<fifo, lock, rvars, wmsg, wput, calls, lens, acked, refused, taken>>

\* It makes them part of the queue by advancing `in', over whatever the slots
\* hold by now; those behind them have not been written yet.
WAdvance(w) ==
  /\ fifo' = fifo \o [i \in 1 .. wput[w] |-> slots[i]]
  /\ slots' = [i \in 1 .. MaxEvent |-> Stale]

\* mutex_unlock.  A short copy is then reported as -ENOSPC: what was stored
\* stays and nobody is woken.
WPutDone(w, whole) ==
  /\ lock' = NoOwner
  /\ wpc' = [wpc EXCEPT ![w] = IF whole THEN "wake" ELSE "idle"]
  /\ refused' = IF whole THEN refused ELSE refused \cup {wmsg[w]}
  /\ wput' = [wput EXCEPT ![w] = 0]
  /\ UNCHANGED <<rvars, wmsg, calls, lens, acked, taken>>

\* Mutant: every short copy is taken for a success.
WPutNoCheck(w) ==
  /\ wpc[w] = "put"
  /\ WAdvance(w)
  /\ WPutDone(w, TRUE)

\* Mutant: the waiters are only woken when the queue was not empty.
WPutWakeLate(w) ==
  /\ wpc[w] = "put"
  /\ WAdvance(w)
  /\ WPutDone(w, wput[w] = lens[wmsg[w]] /\ fifo # <<>>)

\* Mutant: a record that fills the queue to the last byte counts as cut.
WPutRefusesLast(w) ==
  /\ wpc[w] = "put"
  /\ WAdvance(w)
  /\ WPutDone(w, wput[w] = lens[wmsg[w]] /\ Len(fifo') < FifoSize)

WPut(w) ==
  /\ wpc[w] = "put"
  /\ WAdvance(w)
  /\ WPutDone(w, wput[w] = lens[wmsg[w]])

\* wake_up_interruptible wakes every waiter (none waits exclusively).
WWake(w) ==
  /\ wpc[w] = "wake"
  /\ waiters' = {}
  /\ wpc' = [wpc EXCEPT ![w] = "idle"]
  /\ acked' = acked \cup {wmsg[w]}
  /\ UNCHANGED <<fifo, slots, lock, rpc, rop, rlen, wmsg, wput, calls, lens, refused, taken>>

-----------------------------------------------------------------------------
(***************************************************************************)
(* miev_read and miev_poll.  An empty queue makes a read with O_NONBLOCK   *)
(* return -EAGAIN; any other read, and a poll, goes to the wait loop.      *)
(***************************************************************************)
ReadCall(r, count, nonblock) ==
  /\ rpc[r] = "idle"
  /\ rop' = [rop EXCEPT ![r] = "read"]
  /\ rlen' = [rlen EXCEPT ![r] = count]
  /\ rpc' = [rpc EXCEPT ![r] = IF fifo # <<>> THEN "lock"
                               ELSE IF nonblock THEN "idle" ELSE "prepare"]
  /\ UNCHANGED <<fifo, lock, waiters, wvars, taken>>

PollCall(r) ==
  /\ rpc[r] = "idle"
  /\ rop' = [rop EXCEPT ![r] = "poll"]
  /\ rpc' = [rpc EXCEPT ![r] = "prepare"]
  /\ UNCHANGED <<fifo, lock, waiters, rlen, wvars, taken>>

\* prepare_to_wait, or poll_wait in miev_poll.
RPrepare(r) ==
  /\ rpc[r] = "prepare"
  /\ waiters' = waiters \cup {r}
  /\ rpc' = [rpc EXCEPT ![r] = "check"]
  /\ UNCHANGED <<fifo, lock, rop, rlen, wvars, taken>>

\* With data, a poll is done (EPOLLIN) and a read goes on to take it.
Proceed(r) == IF rop[r] = "poll" THEN "idle" ELSE "lock"

\* Mutant: after a wake-up the reader goes on without testing again.
RCheckOnce(r) ==
  /\ rpc[r] = "check"
  /\ rpc' = [rpc EXCEPT ![r] = IF fifo # <<>> \/ r \notin waiters
                               THEN Proceed(r) ELSE "sleep"]
  /\ waiters' = IF fifo # <<>> THEN waiters \ {r} ELSE waiters
  /\ UNCHANGED <<fifo, lock, rop, rlen, wvars, taken>>

\* The unlocked test of the condition while queued.
RCheck(r) ==
  /\ rpc[r] = "check"
  /\ rpc' = [rpc EXCEPT ![r] = IF fifo # <<>> THEN Proceed(r) ELSE "sleep"]
  /\ waiters' = IF fifo # <<>> THEN waiters \ {r} ELSE waiters
  /\ UNCHANGED <<fifo, lock, rop, rlen, wvars, taken>>

\* schedule() returns (or does not sleep at all) once a wake-up took r off.
RResume(r) ==
  /\ rpc[r] = "sleep"
  /\ r \notin waiters
  /\ rpc' = [rpc EXCEPT ![r] = "prepare"]
  /\ UNCHANGED <<fifo, lock, waiters, rop, rlen, wvars, taken>>

\* A signal ends the sleep; data that is there by now still wins over it.
RSignal(r) ==
  /\ rpc[r] = "sleep"
  /\ waiters' = waiters \ {r}
  /\ rpc' = [rpc EXCEPT ![r] = IF fifo # <<>> THEN Proceed(r) ELSE "idle"]
  /\ UNCHANGED <<fifo, lock, rop, rlen, wvars, taken>>

\* mutex_lock, then kfifo_to_user reads how much there is to take.
RLock(r) ==
  /\ rpc[r] = "lock"
  /\ lock = NoOwner
  /\ lock' = r
  /\ rlen' = [rlen EXCEPT ![r] = Least(@, Len(fifo))]
  /\ rpc' = [rpc EXCEPT ![r] = "take"]
  /\ UNCHANGED <<fifo, waiters, rop, wvars, taken>>

\* Mutant: a read whose copy faults returns without mutex_unlock.
RTakeKeepsLock(r, n) ==
  /\ rpc[r] = "take"
  /\ n <= rlen[r]
  /\ taken' = taken \o SubSeq(fifo, 1, n)
  /\ fifo' = SubSeq(fifo, n + 1, Len(fifo))
  /\ lock' = IF n = rlen[r] THEN NoOwner ELSE r
  /\ rpc' = [rpc EXCEPT ![r] = "idle"]
  /\ rlen' = [rlen EXCEPT ![r] = 0]
  /\ UNCHANGED <<waiters, rop, wvars>>

\* kfifo_to_user takes n bytes out.  When the copy faults after n of them the
\* read returns -EFAULT, and those n are gone all the same.
RTake(r, n) ==
  /\ rpc[r] = "take"
  /\ n <= rlen[r]
  /\ taken' = taken \o SubSeq(fifo, 1, n)
  /\ fifo' = SubSeq(fifo, n + 1, Len(fifo))
  /\ lock' = NoOwner
  /\ rpc' = [rpc EXCEPT ![r] = "idle"]
  /\ rlen' = [rlen EXCEPT ![r] = 0]
  /\ UNCHANGED <<waiters, rop, wvars>>

-----------------------------------------------------------------------------
WStep(w) == WLock(w) \/ WCopy(w) \/ WPut(w) \/ WWake(w)
RTakeAny(r) == \E n \in 0 .. FifoSize : RTake(r, n)
RStep(r) == RPrepare(r) \/ RCheck(r) \/ RResume(r) \/ RLock(r) \/ RTakeAny(r)

Next ==
  \/ \E w \in Writers : WStep(w) \/ \E len \in 1 .. MaxEvent : WriteCall(w, len)
  \/ \E r \in Readers : \/ RStep(r) \/ RSignal(r) \/ PollCall(r)
                        \/ \E c \in Counts, b \in BOOLEAN : ReadCall(r, c, b)

Spec == Init /\ [][Next]_vars

(***************************************************************************)
(* A thread that can run runs: every step inside a call is taken.  Calls   *)
(* are made, and signals sent, or not, as the environment likes.  A mutex  *)
(* waiter gets the mutex when it is released again and again: Linux        *)
(* mutexes hand the lock over to a waiter that spun too long.              *)
(***************************************************************************)
Fairness ==
  /\ \A w \in Writers : /\ SF_vars(WLock(w)) /\ WF_vars(WCopy(w))
                        /\ WF_vars(WPut(w)) /\ WF_vars(WWake(w))
  /\ \A r \in Readers : /\ WF_vars(RPrepare(r)) /\ WF_vars(RCheck(r))
                        /\ WF_vars(RResume(r)) /\ SF_vars(RLock(r))
                        /\ WF_vars(RTakeAny(r))

FairSpec == Spec /\ Fairness

-----------------------------------------------------------------------------
QueueType ==
  /\ fifo \in Seq(Byte)
  /\ Len(fifo) <= FifoSize
  /\ taken \in Seq(Byte)
  /\ lock \in Readers \cup Writers \cup {NoOwner}

ReaderType ==
  /\ waiters \subseteq Readers
  /\ rpc \in [Readers -> {"idle", "prepare", "check", "sleep", "lock", "take"}]
  /\ rop \in [Readers -> {"read", "poll"}]
  /\ rlen \in [Readers -> Nat]

WriterType ==
  /\ slots \in [1 .. MaxEvent -> Byte \cup {Stale}]
  /\ wpc \in [Writers -> {"idle", "lock", "copy", "put", "wake"}]
  /\ wmsg \in [Writers -> 0 .. MaxWrites]
  /\ wput \in [Writers -> 0 .. MaxEvent]
  /\ calls \in 0 .. MaxWrites
  /\ lens \in [1 .. MaxWrites -> 0 .. MaxEvent]
  /\ \A m \in 1 .. MaxWrites : m <= calls <=> lens[m] > 0
  /\ \A w \in Writers : wpc[w] # "idle" => wmsg[w] \in 1 .. calls
  /\ acked \subseteq 1 .. calls
  /\ refused \subseteq 1 .. calls

\* The types of the variables; the queue never holds more than FifoSize bytes.
TypeOK == QueueType /\ ReaderType /\ WriterType

(***************************************************************************)
(* What kfifo_in and kfifo_to_user read of the kfifo on entry still holds  *)
(* when they store or take bytes, and the bytes a writer copied are its    *)
(* own until `in' is past them: the mutex keeps every other thread out in  *)
(* between, though the tests of readers and pollers ignore it.             *)
(***************************************************************************)
CriticalSectionStable ==
  /\ \A w \in Writers :
       wpc[w] \in {"copy", "put"} => lock = w /\ wput[w] = Room(lens[wmsg[w]])
  /\ \A w \in Writers :
       wpc[w] = "put" =>
         \A i \in 1 .. wput[w] : slots[i] = [msg |-> wmsg[w], pos |-> i]
  /\ \A r \in Readers :
       rpc[r] = "take" => lock = r /\ rlen[r] <= Len(fifo)

(***************************************************************************)
(* No lost wake-up.  When a reader or poller sleeps on the wait queue      *)
(* although the kfifo has data, a writer is between its mutex_unlock and   *)
(* its wake_up_interruptible.  It is not obvious: the emptiness tests are  *)
(* unlocked, and a write that ends in -ENOSPC leaves data without waking.  *)
(***************************************************************************)
NoLostWakeup ==
  \A r \in Readers :
    rpc[r] = "sleep" /\ r \in waiters /\ fifo # <<>>
      => \E w \in Writers : wpc[w] = "wake"

Contiguous(s) ==
  \A i \in 1 .. Len(s) :
    s[i].pos = 1 \/ /\ i > 1
                    /\ s[i-1].msg = s[i].msg
                    /\ s[i-1].pos = s[i].pos - 1

(***************************************************************************)
(* Records are never mixed: in the stream of bytes that went through the   *)
(* queue every byte that does not start a record follows the byte before   *)
(* it in the same record.  Two writers inside kfifo_in at once would copy  *)
(* to the same slots; the mutex keeps them apart, refused writes included. *)
(***************************************************************************)
RecordsContiguous == Contiguous(Stream)

(***************************************************************************)
(* A write that returned 0 is in the stream to its last byte, and a record *)
(* that is cut short in the stream was refused with -ENOSPC: a reader sees *)
(* a torn record only when its writer was told so.                         *)
(***************************************************************************)
TornOnlyWhenRefused ==
  LET Has(m, n) == \E i \in 1 .. Len(Stream) : Stream[i] = [msg |-> m, pos |-> n]
  IN  /\ \A m \in acked : Has(m, lens[m])
      /\ \A i \in 1 .. Len(Stream) :
           Has(Stream[i].msg, lens[Stream[i].msg]) \/ Stream[i].msg \in refused

(***************************************************************************)
(* A reader that is alone never gets 0 bytes (end of file) from the queue: *)
(* once its unlocked test saw data, data is there when it has the mutex.   *)
(* With several readers miev_read can return 0, as it does not test again. *)
(***************************************************************************)
SoleReaderFindsData ==
  \A r \in Readers :
    rpc[r] \in {"lock", "take"} /\ fifo = <<>> => Readers # {r}

-----------------------------------------------------------------------------
\* Writers whose record is in the kfifo whole and who have yet to wake.
Waking == {w \in Writers : wpc[w] = "wake"}

Promise == INSTANCE MievStream WITH
  stream <- Stream,
  given  <- Len(taken),
  size   <- lens,
  stored <- acked \cup {wmsg[w] : w \in Waking}

(***************************************************************************)
(* The device is one stream of bytes: though a write takes the mutex, looks*)
(* for room, copies, advances, unlocks and wakes in several steps, and     *)
(* readers test the queue unlocked, every write takes effect at once, as   *)
(* far as there is room at that moment, is answered once and accordingly,  *)
(* and the stream's bytes are taken in order, each once (those of a read   *)
(* that faults are taken, and lost).                                       *)
(***************************************************************************)
ImplementsStream == Promise!Spec

(***************************************************************************)
(* A sleeper is woken once the queue has data, unless a signal ends its    *)
(* sleep first.                                                            *)
(***************************************************************************)
SleeperWakes ==
  \A r \in Readers : rpc[r] = "sleep" /\ fifo # <<>> ~> rpc[r] # "sleep"

(***************************************************************************)
(* Every writer that entered write_buf_inner gets out of it.               *)
(***************************************************************************)
WriterReturns ==
  \A w \in Writers : wpc[w] # "idle" ~> wpc[w] = "idle"

=============================================================================
