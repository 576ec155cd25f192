\* Checks CallbackIdentity alone; TLC is expected to find it violated.
CONSTANTS
  Vids = {v1, v2}
  NoVid = NoVid
  Handlers <- MCHandlers
  Debug = 0
  MaxRefs = 2
  MaxEvents = 3
  TargetExts = {"so", "none"}
SPECIFICATION Spec
CHECK_DEADLOCK FALSE
INVARIANT CallbackIdentity
