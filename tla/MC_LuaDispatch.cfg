\* The dispatcher and script operations over two reusable object ids.
\* arcan_fatal and the NULL dereferences end the engine, so a state with no
\* successor is an engine that stopped: deadlock is not checked.
CONSTANTS
  Vids = {v1, v2}
  NoVid = NoVid
  Handlers <- MCHandlersSystem
  Debug = 0
  MaxRefs = 2
  MaxEvents = 3
  TargetExts = {"so", "none"}
SPECIFICATION Spec
SYMMETRY MCSymmetry
CHECK_DEADLOCK FALSE
INVARIANT TypeOK
