----------------------------- MODULE MievSizes -----------------------------
\* What the event builder and the queue of miev/miev.c have in common.
CONSTANT
  MaxEvent   \* MIEV_MAX_EVENT_SIZE
=============================================================================
