SPECIFICATION Spec
CONSTANTS
  Label = label
  Rows = Rows
  Screen = Screen
  Key = k1
  HostTags = {label}
  CompTags = {Rows, Screen}
  Keys = {k1, k2}
  NoKey = NoKey
  Elements <- MCDeep
  MaxKids = 2
  MaxRenders = 2
CHECK_DEADLOCK FALSE
INVARIANTS
  TypeOK
  OrderIsDeclared
  AllAccountedFor
  KeyedRecovers
PROPERTY KeyKeepsInstance
