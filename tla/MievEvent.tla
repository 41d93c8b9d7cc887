----------------------------- MODULE MievEvent -----------------------------
(***************************************************************************)
(* The event builder of miev/miev.c: cdev_tevent_alloc, add_int, add_str,  *)
(* write and destroy, the calls other drivers compose one event with.      *)
(*                                                                         *)
(* An event is a text in a buffer of MaxEvent bytes.  The model keeps the  *)
(* text as its fragments (head, parameters, end), each with the length it  *)
(* has in full and the length scnprintf stored.                            *)
(***************************************************************************)
EXTENDS MievSizes, Integers, Sequences, FiniteSets

CONSTANTS
  MaxName,    \* MIEV_MAX_PARAM_NAME
  MaxString,  \* MIEV_MAX_PARAM_STRING
  MaxParams,  \* MIEV_MAX_PARAMS
  LongMax,    \* LONG_MAX
  MaxDigits,  \* the decimal digits a long may have
  HeadLens,   \* lengths of "EventId %u -t %lld -paraList {"
  KeyLens,    \* strlen(key)
  TextLens,   \* strlen(value)
  Longs       \* the integers added

\* The smallest long, in two's complement.
MinLong == -LongMax - 1

\* 10 to the power of d.
Pow10[d \in Nat] == IF d = 0 THEN 1 ELSE 10 * Pow10[d - 1]

ASSUME EventAssumption ==
  /\ MaxEvent \in Nat /\ MaxName \in Nat /\ MaxString \in Nat /\ MaxParams \in Nat
  /\ MaxEvent >= 2
  /\ LongMax \in Nat /\ MaxDigits \in Nat
  /\ LongMax + 1 < Pow10[MaxDigits]   \* 2^63 against 10^19
  /\ HeadLens \subseteq Nat \ {0}
  /\ KeyLens \subseteq Nat /\ TextLens \subseteq Nat
  /\ Longs \subseteq MinLong .. LongMax

VARIABLES
  live,   \* the caller holds an event
  used,   \* event->used_size
  cnt,    \* event->para_cnt
  frags,  \* what event->msg holds
  sent    \* history: the text last handed to write_buf_inner

event == <<live, used, cnt, frags, sent>>

Fragment == [kind : {"head", "param", "end"}, full : Nat, stored : Nat]

EventInit ==
  /\ live = FALSE /\ used = 0 /\ cnt = 0
  /\ frags = <<>> /\ sent = <<>>

-----------------------------------------------------------------------------
\* Characters "%ld" prints: one digit for every power of ten reached, and a sign.
Printed(v) ==
  LET a == IF v < 0 THEN -v ELSE v
  IN  (IF v < 0 THEN 2 ELSE 1) + Cardinality({d \in 1 .. MaxDigits : Pow10[d] <= a})

\* -value in two's complement: the smallest long is its own negation.
Negate(v) == IF v = MinLong THEN MinLong ELSE -v

\* The loop of get_integer_size: how often a value is divided before it is
\* below 10.  A negative value is not divided at all.
Divisions[n \in Nat] == IF n < 10 THEN 0 ELSE 1 + Divisions[n \div 10]

\* get_integer_size, a helper for callers: the builder itself does not use it.
IntegerSize(v) ==
  LET a == IF v < 0 THEN Negate(v) ELSE v
  IN  (IF v < 0 THEN 2 ELSE 1) + IF a < 10 THEN 0 ELSE Divisions[a]

-----------------------------------------------------------------------------
\* scnprintf stores at most one byte less than the room, for the NUL, and
\* returns what it stored; without room it returns 0.
Stored(len) ==
  LET room == MaxEvent - used IN
  IF room = 0 THEN 0 ELSE IF len < room THEN len ELSE room - 1

\* Mutant: the check does not notice that nothing was stored.
FailedOnlyIfLong(len) == Stored(len) >= MaxEvent - used

\* The check after every scnprintf.  Its second half never holds: a cut text
\* is one byte shorter than the room.
Failed(len) == Stored(len) <= 0 \/ Stored(len) >= MaxEvent - used

\* Mutant: sprintf, unchecked.
ExtendUnchecked(kind, len) ==
  /\ used' = used + len
  /\ frags' = Append(frags, [kind |-> kind, full |-> len, stored |-> len])

\* A text that passes the check is appended.
Extend(kind, len) ==
  /\ ~Failed(len)
  /\ used' = used + Stored(len)
  /\ frags' = Append(frags, [kind |-> kind, full |-> len, stored |-> Stored(len)])

Alloc(h) ==
  /\ ~live
  /\ live' = TRUE
  /\ Extend("head", h)
  /\ UNCHANGED <<cnt, sent>>

\* From the second parameter on a comma comes first.
Comma == IF cnt = 0 THEN 0 ELSE 1

\* A parameter is refused, and the event left alone, when there are MaxParams,
\* when the key is too long, or when its text finds no room at all.
AddParam(klen, len) ==
  /\ live
  /\ cnt < MaxParams
  /\ klen < MaxName
  /\ Extend("param", Comma + len)
  /\ cnt' = cnt + 1
  /\ UNCHANGED <<live, sent>>

\* "key":value
AddInt(klen, v) == AddParam(klen, klen + 3 + Printed(v))

\* "key":"value"
AddStr(klen, vlen) ==
  /\ vlen < MaxString
  /\ AddParam(klen, klen + 5 + vlen)

\* cdev_tevent_write.  The end "}\n" stays in the event whether or not the
\* queue takes the record, so that writing again appends another one.
Write ==
  /\ live
  /\ Extend("end", 2)
  /\ sent' = frags'
  /\ UNCHANGED <<live, cnt>>

\* cdev_tevent_destroy.
Destroy ==
  /\ live
  /\ live' = FALSE /\ used' = 0 /\ cnt' = 0 /\ frags' = <<>>
  /\ UNCHANGED sent

EventNext ==
  \/ \E h \in HeadLens : Alloc(h)
  \/ \E k \in KeyLens, v \in Longs : AddInt(k, v)
  \/ \E k \in KeyLens, t \in TextLens : AddStr(k, t)
  \/ Write
  \/ Destroy

EventSpec == EventInit /\ [][EventNext]_event

-----------------------------------------------------------------------------
\* The types of the variables; the text and its NUL stay inside the buffer.
EventTypeOK ==
  /\ live \in BOOLEAN
  /\ used \in 0 .. MaxEvent - 1
  /\ cnt \in 0 .. MaxParams
  /\ frags \in Seq(Fragment) /\ sent \in Seq(Fragment)

Cut(f) == f.stored < f.full

(***************************************************************************)
(* What reaches the queue has a head and parameters that are all whole:    *)
(* an event with a cut parameter can never be written, as there is no room *)
(* for its end.  Only the last end of a record may lack its line feed.     *)
(***************************************************************************)
SentIsWhole ==
  sent # <<>> =>
    /\ sent[Len(sent)].kind = "end"
    /\ \A i \in 1 .. Len(sent) - 1 : ~Cut(sent[i])

(***************************************************************************)
(* cdev_tevent_write reports "event_write:add json end str failed" when    *)
(* the end does not fit: no record goes out without its whole "}\n".       *)
(***************************************************************************)
SentIsTerminated ==
  sent # <<>> => ~Cut(sent[Len(sent)])

(***************************************************************************)
(* get_integer_size gives the characters an integer prints as, for every   *)
(* long except the smallest, whose negation overflows: it counts 2 there.  *)
(***************************************************************************)
IntegerSizeIsPrinted ==
  \A v \in MinLong .. LongMax :
    IntegerSize(v) = IF v = MinLong THEN 2 ELSE Printed(v)
=============================================================================
