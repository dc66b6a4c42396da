SPECIFICATION Spec
CONSTANTS
  Screen = Screen
  Bindings = {b1, b2}
  Widgets = {w1, w2}
  MaxMade = 3
  MaxDepth = 3
SYMMETRY MCSymmetry
INVARIANTS
  TypeOK
  RefsBalanced
  LvglMatchesLists
  NothingSurvivesStop
PROPERTIES
  NoFault
