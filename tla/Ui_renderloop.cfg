SPECIFICATION FairSpec
CONSTANTS
  Root = Root
  Comps = {a}
  MaxChain = 2
  MaxQueue = 4
  RendersSetState = TRUE
  MaxThrows = 0
  EffectsRedraw = FALSE
PROPERTY PumpReturns
