SPECIFICATION Spec
CONSTANTS
  Label = label
  Rows = Rows
  Screen = Screen
  Key = k1
  HostTags = {label}
  CompTags = {Rows, Screen}
  Keys = {k1, k2}
  NoKey = NoKey
  Elements <- MCPlain
  MaxKids = 2
  MaxRenders = 1
CHECK_DEADLOCK FALSE
INVARIANT NoDeletedWidgetTouched
