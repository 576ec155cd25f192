\* One frameserver sharing two-slot rings with the main process: the
\* frameserver produces four events and the script sends four inputs (each ring
\* saturates, overwrites and wraps twice),
\* may hang anywhere, and the main side's timed wait lasts two ticks.
\* After a timeout the frameserver and its context are gone and the main
\* side has nothing left to wait on, so the system may stop there.
CONSTANTS
  Kinds = {k1}
  Sources = {s1}
  NoSource = NoSource
  NoEvent = NoEvent
  Cap = 2
  MaxEvents = 4
  Timeout = 2

SPECIFICATION Spec
CHECK_DEADLOCK FALSE

INVARIANT TypeOK
PROPERTY WaitBounded
PROPERTY EventuallyConsumed
PROPERTY InputDelivered
PROPERTY ImplementsChannel
