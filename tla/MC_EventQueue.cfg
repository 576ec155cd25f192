\* Two contexts (the default context and a frameserver's): ring wrap-around,
\* saturation overwrite, masks, poll_masked, erase_vobj compaction,
\* keyrepeat, and queuetransfer in both directions against the ceiling,
\* with and without the source rewrite.
CONSTANTS
  Contexts = {main, fsrv}
  Kinds = {k1}
  Sources = {s1, s2}
  NoSource = NoSource
  NoEvent = NoEvent
  Cap = 2
  MaxEvents = 3
  Categories <- MCCategories
  Saturations <- MCSaturations
  Rates = {0}

SPECIFICATION Spec
VIEW QueueView

INVARIANT TypeOK
INVARIANT NoLossNoDup
INVARIANT LeakAccounting
PROPERTY AbsSpec
