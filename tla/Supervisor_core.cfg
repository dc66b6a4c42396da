SPECIFICATION SupervisorFairSpec
CONSTANTS
  Launcher = Launcher
  WifiApp = WifiApp
  NoPath = NoPath
  Builtin = Builtin
  NoVm = NoVm
  Scripts = {Launcher, WifiApp, Clock}
  PinsWhileBooting = FALSE
  MaxRestarts = 1
INVARIANTS
  SupervisorTypeOK
  CurrentIsRunning
  LauncherBeforeBuiltin
  NeverTrapped
PROPERTY PanelNeverDies
