SPECIFICATION Spec
CONSTANTS
  Names <- MCNames
  Line <- MCLine
  NoText = NoText
  MaxScript = 5
  MaxRead = 5
  MaxUpload = 5
  Mounts <- MCMounts
  CardMayFill = FALSE
  ScriptTexts <- MCScriptTexts
  MaxFile = 3
  Scripts <- MCScripts
  SlowBoard = FALSE
  MaxPushes = 2
  MaxFaults = 1
INVARIANTS
  TypeOK
  VerifiedIsHeld
  HealthyPushVerifies
  EndLeavesUpload
PROPERTIES
  WroteIsWhole
