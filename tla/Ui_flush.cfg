SPECIFICATION FairSpec
CONSTANTS
  Root = Root
  Comps = {a, b}
  MaxChain = 2
  MaxQueue = 4
  RendersSetState = FALSE
  MaxThrows = 1
  EffectsRedraw = FALSE
INVARIANTS
  TypeOK
  QuietIsCurrent
  GoneIsCleaned
  QuietHasRunEffects
PROPERTY PumpReturns
