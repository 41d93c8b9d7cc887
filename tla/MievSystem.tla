----------------------------- MODULE MievSystem -----------------------------
(***************************************************************************)
(* The event builder and the queue together, as a driver that reports an   *)
(* event and a program reading /dev/miev meet them.  The driver builds an  *)
(* event, sends it with cdev_tevent_write, and after -ENOSPC may send the  *)
(* same event again; other threads write to the device meanwhile.          *)
(*                                                                         *)
(* An event keeps the "}\n" of every try, so that a later try is longer    *)
(* than an earlier one, and the queue keeps what it took of a refused one. *)
(***************************************************************************)
EXTENDS MievQueue, MievEvent

CONSTANTS
  Driver,    \* the writer that uses the event builder
  UserLens   \* lengths of what the other writers write

ASSUME SystemAssumption ==
  /\ Driver \in Writers
  /\ UserLens \subseteq 1 .. MaxEvent

VARIABLE
  tries      \* history: the records the event was sent as

sysvars == <<vars, event, tries>>

\* The driver made its last try of this event, and it returned 0.
Delivered == tries # <<>> /\ tries[Len(tries)] \in acked

SystemInit ==
  /\ Init
  /\ EventInit
  /\ tries = <<>>

-----------------------------------------------------------------------------
\* Building happens in the driver's memory, between its calls of write.
Build ==
  /\ wpc[Driver] = "idle"
  /\ tries = <<>>
  /\ \/ \E h \in HeadLens : Alloc(h)
     \/ \E k \in KeyLens, v \in Longs : AddInt(k, v)
     \/ \E k \in KeyLens, t \in TextLens : AddStr(k, t)
  /\ UNCHANGED <<vars, tries>>

\* cdev_tevent_write ends the text and hands the event to write_buf_inner.
\* Drivers do not send again what was taken.
Send ==
  /\ ~Delivered
  /\ Write
  /\ WriteCall(Driver, used')
  /\ tries' = Append(tries, calls + 1)

\* cdev_tevent_destroy, once the event is sent or given up.
Drop ==
  /\ wpc[Driver] = "idle"
  /\ Destroy
  /\ tries' = <<>>
  /\ UNCHANGED vars

\* The other writers, everyone's steps inside a call, and the readers.
Others ==
  /\ \/ \E w \in Writers \ {Driver}, len \in UserLens : WriteCall(w, len)
     \/ \E w \in Writers : WStep(w)
     \/ \E r \in Readers : \/ RStep(r) \/ RSignal(r) \/ PollCall(r)
                           \/ \E c \in Counts, b \in BOOLEAN : ReadCall(r, c, b)
  /\ UNCHANGED <<event, tries>>

SystemNext == Build \/ Send \/ Drop \/ Others

SystemSpec == SystemInit /\ [][SystemNext]_sysvars /\ Fairness

-----------------------------------------------------------------------------
(***************************************************************************)
(* The builder keeps the queue's terms: it never hands write_buf_inner an  *)
(* empty record or one larger than MIEV_MAX_EVENT_SIZE, and a step of the  *)
(* driver is a step of the queue or leaves it alone.  What holds of        *)
(* MievQueue therefore holds here.                                         *)
(***************************************************************************)
KeepsQueueTerms == Spec

(***************************************************************************)
(* An event is delivered, and delivered once, by retrying, but for one     *)
(* case.  A try that returned 0 has the whole text in the stream.  A try   *)
(* that was refused has it there only if it was a repeated one, cut within *)
(* the ends that earlier tries added: only then does a reader see the      *)
(* event although the driver was told -ENOSPC, and again after the next    *)
(* try.                                                                    *)
(***************************************************************************)
DeliveredOnce ==
  LET text == lens[tries[1]]
      Whole(m) == \E i \in 1 .. Len(Stream) : Stream[i] = [msg |-> m, pos |-> text]
  IN  \A k \in 1 .. Len(tries) :
        /\ tries[k] \in acked => k = Len(tries) /\ Whole(tries[k])
        /\ tries[k] \in refused /\ Whole(tries[k])
             => k > 1 /\ lens[tries[k]] > text
=============================================================================
