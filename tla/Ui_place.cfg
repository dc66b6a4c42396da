SPECIFICATION Spec
CONSTANTS
  Elements <- MCMoving
  MaxPlaces = 1
  Keys <- MCKeys
  NoKey = "none"
  Strings <- MCStrings
  NoText = "none"
  Handlers <- MCHandlers
  NoHandler = "none"
  Refs <- MCRefs
  NoRef = "none"
  Colours <- MCColours
  Undefined = Undefined
INVARIANT PlacedAsGiven
