SPECIFICATION Spec
CONSTANTS
  Elements <- MCStill
  MaxPlaces = 2
  Keys <- MCKeys
  NoKey = "none"
  Strings <- MCStrings
  NoText = "none"
  Handlers <- MCHandlers
  NoHandler = "none"
  Refs <- MCRefs
  NoRef = "none"
  Colours <- MCColours
  Undefined = Undefined
INVARIANTS
  TypeOK
  AsGoodAsNew
  RefsAreCurrent
