----------------------------- MODULE MievStream -----------------------------
(***************************************************************************)
(* What /dev/miev promises, without its mutex, its wait queue and the      *)
(* positions of its threads: one stream of bytes.  A write adds its record *)
(* to the stream in one step, as far as the queue has room, and is then    *)
(* answered once; readers are given the bytes in order, each byte once.    *)
(* MievQueue implements it.                                                *)
(***************************************************************************)
EXTENDS Integers, Sequences

CONSTANTS FifoSize, MaxEvent, MaxWrites

VARIABLES
  stream,   \* the bytes that went in, oldest first
  given,    \* how many of them readers got
  size,     \* the length of each record, 0 before its write is called
  stored,   \* records that went in whole
  acked,    \* records whose write returned 0
  refused   \* records whose write returned -ENOSPC

vars == <<stream, given, size, stored, acked, refused>>

Records == 1 .. MaxWrites

\* The first n bytes of record m.
FirstBytes(m, n) == [i \in 1 .. n |-> [msg |-> m, pos |-> i]]

Waiting == Len(stream) - given

Init ==
  /\ stream = <<>> /\ given = 0
  /\ size = [m \in Records |-> 0]
  /\ stored = {} /\ acked = {} /\ refused = {}

\* cdev_tevent_write or write(2) is called with a record of len bytes.
Call(m, len) ==
  /\ size[m] = 0
  /\ size' = [size EXCEPT ![m] = len]
  /\ UNCHANGED <<stream, given, stored, acked, refused>>

\* A record is taken whole when there is room for it.
Accept(m) ==
  /\ size[m] > 0 /\ m \notin stored \cup refused
  /\ size[m] <= FifoSize - Waiting
  /\ stream' = stream \o FirstBytes(m, size[m])
  /\ stored' = stored \cup {m}
  /\ UNCHANGED <<given, size, acked, refused>>

\* Otherwise the room there is gets filled with its first bytes, and the write
\* is refused.
Cut(m) ==
  /\ size[m] > 0 /\ m \notin stored \cup refused
  /\ size[m] > FifoSize - Waiting
  /\ stream' = stream \o FirstBytes(m, FifoSize - Waiting)
  /\ refused' = refused \cup {m}
  /\ UNCHANGED <<given, size, stored, acked>>

Return(m) ==
  /\ m \in stored \ acked
  /\ acked' = acked \cup {m}
  /\ UNCHANGED <<stream, given, size, stored, refused>>

\* Readers get the next n bytes.
Give(n) ==
  /\ n \in 0 .. Waiting
  /\ given' = given + n
  /\ UNCHANGED <<stream, size, stored, acked, refused>>

Next ==
  \/ \E m \in Records : \/ Accept(m) \/ Cut(m) \/ Return(m)
                        \/ \E len \in 1 .. MaxEvent : Call(m, len)
  \/ \E n \in 0 .. FifoSize : Give(n)

Spec == Init /\ [][Next]_vars
=============================================================================
