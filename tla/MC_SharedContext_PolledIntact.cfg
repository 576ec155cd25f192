\* The pointer arcan_event_poll returns, read after the call: the
\* frameserver may wrap around the two-slot ring into the polled slot first.
CONSTANTS
  Kinds = {k1}
  Sources = {s1}
  NoSource = NoSource
  NoEvent = NoEvent
  Cap = 2
  MaxEvents = 3
  Timeout = 2

SPECIFICATION Spec
CHECK_DEADLOCK FALSE

INVARIANT PolledIntact
