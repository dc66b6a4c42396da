---------------------------- MODULE AppSupervisor ----------------------------
(***************************************************************************)
(* The app supervisor of jsvm_app.cpp, with the launch request of          *)
(* jsvm_core.cpp and the pin of bindings_sys.cpp: which script runs, who   *)
(* may ask for another, when the switch is made, where a broken script     *)
(* lands, and what the corner button shows.                                *)
(*                                                                         *)
(* Everything runs on the loop task, one stage of loop() after another;    *)
(* a script acts whenever a stage runs JavaScript, a person whenever a     *)
(* stage reads the touch panel, the button or the serial line.             *)
(* Storage is read anew at every load: a script may be there or not.       *)
(***************************************************************************)
EXTENDS Naturals

CONSTANTS
  Scripts,          \* the paths that can be asked for
  Launcher,         \* cfg.launcher
  WifiApp,          \* cfg.wifi_app
  NoPath,           \* the empty string of g_next_app, g_current_app, g_pinned...
  Builtin,          \* the fallback screen compiled into the firmware
  NoVm,             \* no JavaScript context
  PinsWhileBooting, \* the boot script may call sys.pin / sys.unpin at top level
  MaxRestarts       \* bound: power cycles

ASSUME SupervisorAssumption ==
  /\ Launcher \in Scripts /\ WifiApp \in Scripts /\ Launcher # WifiApp
  /\ {NoPath, Builtin, NoVm} \cap Scripts = {}
  /\ NoPath # Builtin /\ NoPath # NoVm /\ Builtin # NoVm
  /\ PinsWhileBooting \in BOOLEAN
  /\ MaxRestarts \in Nat

VARIABLES
  stage,      \* where the loop task is
  target,     \* the path runApp() was called with
  byBoot,     \* that path is the pointer jsvm_pinned_app() returned
  running,    \* what the VM is running
  current,    \* g_current_app
  next,       \* g_next_app
  pending,    \* g_pending_launch
  pinned,     \* g_pinned, and the NVS string it is written through to
  corner,     \* g_corner
  button,     \* what the long-press check has seen: up, down, fired
  touched,    \* g_network_touched
  offline,    \* no connection, and for a reason a person could fix
  tried,      \* the scripts runApp() has tried since the last switch
  orphan,     \* the pending launch was asked for by a VM that is gone
  homeAsked,  \* a long-press was seen in this pass, and no command since
  restarts

requests == <<next, pending, orphan, homeAsked>>
vm == <<target, byBoot, running, current, tried>>
ui == <<corner, button, touched, offline>>
supervisorVars == <<stage, vm, requests, ui, pinned, restarts>>

Paths == Scripts \cup {NoPath}

\* jsvm_app_begin() up to its call of runApp(), with a pin left by earlier boots.
Boot(pin) ==
  /\ stage' = "load"
  /\ target' = IF pin = NoPath THEN Launcher ELSE pin
  /\ byBoot' = (pin # NoPath)
  /\ running' = NoVm /\ current' = NoPath /\ tried' = {}
  /\ next' = NoPath /\ pending' = NoPath /\ orphan' = FALSE /\ homeAsked' = FALSE
  /\ corner' = "none" /\ button' = "up" /\ touched' = FALSE

SupervisorInit ==
  /\ pinned \in Paths
  /\ stage = "load"
  /\ target = IF pinned = NoPath THEN Launcher ELSE pinned
  /\ byBoot = (pinned # NoPath)
  /\ running = NoVm /\ current = NoPath /\ tried = {}
  /\ next = NoPath /\ pending = NoPath /\ orphan = FALSE /\ homeAsked = FALSE
  /\ corner = "none" /\ button = "up" /\ touched = FALSE /\ offline = FALSE
  /\ restarts = 0

-----------------------------------------------------------------------------
(* The corner button.                                                      *)

BackTarget(pin) == IF pin = NoPath THEN Launcher ELSE pin

\* Mutant of WantedCorner: a pin is forgotten when deciding to hide the button.
WantedCornerUnpinned(app, pin, wantsNetwork) ==
  IF wantsNetwork /\ app # WifiApp THEN "wifi"
  ELSE IF app = Launcher THEN "none"
  ELSE IF pin = NoPath THEN "home" ELSE "back"

\* updateCornerButton(), for the app it takes to be running.
WantedCorner(app, pin, wantsNetwork) ==
  IF wantsNetwork /\ app # WifiApp THEN "wifi"
  ELSE IF app = BackTarget(pin) THEN "none"
  ELSE IF pin = NoPath THEN "home" ELSE "back"

\* jsvm_network_setup_needed()
SetupNeeded == touched /\ offline

\* cornerClicked(): only queues the switch.
CornerTap ==
  /\ stage = "lvgl"
  /\ corner # "none"
  /\ next' = IF corner = "wifi" THEN WifiApp ELSE BackTarget(pinned)
  /\ UNCHANGED <<stage, vm, pending, orphan, homeAsked, ui, pinned, restarts>>

-----------------------------------------------------------------------------
(* runApp()                                                                *)

\* jsvm_stop(): the VM goes, and with it the script's interest in the network.
\* A launch it asked for stays in g_pending_launch.
Stop ==
  /\ touched' = FALSE
  /\ orphan' = (pending # NoPath)

\* What the path argument reads as: at boot it points into g_pinned, which the
\* script may have rewritten meanwhile.
Path == IF byBoot THEN pinned ELSE target

LoadFound ==
  /\ stage = "load"
  /\ Stop
  /\ stage' = "eval"
  /\ running' = target
  /\ tried' = tried \cup {target}
  /\ UNCHANGED <<target, byBoot, current, next, pending, homeAsked, corner,
                 button, offline, pinned, restarts>>

\* Mutants of FallBack: the built-in screen at once, the same script over again,
\* and a g_current_app that is not cleared.
FallBackAtOnce ==
  /\ Stop
  /\ tried' = tried \cup {target}
  /\ stage' = "lvgl" /\ running' = Builtin /\ current' = NoPath
  /\ corner' = WantedCorner(NoPath, pinned, FALSE)
  /\ UNCHANGED <<target, byBoot, next, pending, homeAsked, button, offline, pinned, restarts>>
FallBackRetries ==
  /\ Stop
  /\ tried' = tried \cup {target}
  /\ stage' = "load" /\ running' = NoVm
  /\ UNCHANGED <<target, byBoot, current, corner, next, pending, homeAsked, button,
                 offline, pinned, restarts>>
FallBackStaysCurrent ==
  /\ Stop
  /\ tried' = tried \cup {target}
  /\ IF Path # Launcher
     THEN /\ stage' = "load" /\ running' = NoVm
          /\ target' = Launcher /\ byBoot' = FALSE /\ UNCHANGED corner
     ELSE /\ stage' = "lvgl" /\ running' = Builtin
          /\ corner' = WantedCorner(current, pinned, FALSE) /\ UNCHANGED <<target, byBoot>>
  /\ UNCHANGED <<current, next, pending, homeAsked, button, offline, pinned, restarts>>

\* The else branch of runApp(): the launcher next, or the built-in screen when
\* it was the launcher that failed.
FallBack ==
  /\ Stop
  /\ tried' = tried \cup {target}
  /\ IF Path # Launcher
     THEN /\ stage' = "load"
          /\ target' = Launcher /\ byBoot' = FALSE
          /\ running' = NoVm
          /\ UNCHANGED <<current, corner>>
     ELSE /\ stage' = "lvgl"
          /\ running' = Builtin
          /\ current' = NoPath
          /\ corner' = WantedCorner(NoPath, pinned, FALSE)
          /\ UNCHANGED <<target, byBoot>>
  /\ UNCHANGED <<next, pending, homeAsked, button, offline, pinned, restarts>>

\* readAll() finds nothing, or a file too large for the cap or for memory.
LoadMissing == stage = "load" /\ FallBack

\* JS_Eval returned: current is copied from the path, and the corner follows.
EvalSucceeds ==
  /\ stage = "eval"
  /\ stage' = "lvgl"
  /\ current' = Path
  /\ corner' = WantedCorner(Path, pinned, SetupNeeded)
  /\ UNCHANGED <<target, byBoot, running, tried, requests, button, touched,
                 offline, pinned, restarts>>

EvalThrows == stage = "eval" /\ FallBack

-----------------------------------------------------------------------------
(* What a script can do while a stage runs JavaScript.                     *)

JsRuns == running # NoVm /\ stage \in {"eval", "lvgl", "serial", "pump"}

\* sys.launch(): the request waits for the switch.
ScriptLaunches(p) ==
  /\ JsRuns
  /\ pending' = p
  /\ orphan' = FALSE
  /\ UNCHANGED <<stage, vm, next, homeAsked, ui, pinned, restarts>>

\* sys.pin(), sys.unpin(): NVS and g_pinned.
ScriptPins(p) ==
  /\ JsRuns
  /\ PinsWhileBooting \/ ~(byBoot /\ stage = "eval")
  /\ pinned' = p
  /\ UNCHANGED <<stage, vm, requests, ui, restarts>>

\* wifi.status() or fetch()
ScriptAsksNetwork ==
  /\ JsRuns
  /\ touched' = TRUE
  /\ UNCHANGED <<stage, vm, requests, corner, button, offline, pinned, restarts>>

-----------------------------------------------------------------------------
(* One pass of loop(): lv_timer_handler(), then jsvm_app_service().        *)

Passes(from, to) == stage = from /\ stage' = to

LvglReturns ==
  /\ Passes("lvgl", "button")
  /\ UNCHANGED <<vm, requests, ui, pinned, restarts>>

\* The long-press check: up, down for less than 700 ms, or long enough.
ButtonUp ==
  /\ Passes("button", "serial")
  /\ button' = "up"
  /\ UNCHANGED <<vm, requests, corner, touched, offline, pinned, restarts>>

ButtonDown ==
  /\ Passes("button", "serial")
  /\ button' = IF button = "up" THEN "down" ELSE button
  /\ UNCHANGED <<vm, requests, corner, touched, offline, pinned, restarts>>

ButtonHeld ==
  /\ Passes("button", "serial")
  /\ button = "down"
  /\ button' = "fired"
  /\ next' = Launcher
  /\ homeAsked' = TRUE
  /\ UNCHANGED <<vm, pending, orphan, corner, touched, offline, pinned, restarts>>

\* home, reload, and an upload that was written: each queues a switch.
SerialAsks(p) ==
  /\ stage = "serial"
  /\ next' = p
  /\ homeAsked' = FALSE
  /\ UNCHANGED <<stage, vm, pending, orphan, ui, pinned, restarts>>

SerialHome == SerialAsks(Launcher)
SerialReload == SerialAsks(IF current = NoPath THEN Launcher ELSE current)
SerialUpload == \E p \in Scripts : SerialAsks(p)

\* pin [path] and unpin; the launcher is refused.
SerialPins(p) ==
  /\ stage = "serial"
  /\ p # Launcher
  /\ pinned' = p
  /\ UNCHANGED <<stage, vm, requests, ui, restarts>>

SerialDone ==
  /\ Passes("serial", "pump")
  /\ UNCHANGED <<vm, requests, ui, pinned, restarts>>

PumpDone ==
  /\ Passes("pump", "corner")
  /\ UNCHANGED <<vm, requests, ui, pinned, restarts>>

CornerUpdated ==
  /\ Passes("corner", "switch")
  /\ corner' = WantedCorner(current, pinned, SetupNeeded)
  /\ UNCHANGED <<vm, requests, button, touched, offline, pinned, restarts>>

\* Mutant of Switch: a script's request triggers the switch but is not copied.
SwitchForgetsLaunch ==
  /\ stage = "switch"
  /\ pending' = NoPath /\ orphan' = FALSE
  /\ next' = NoPath
  /\ homeAsked' = FALSE
  /\ IF pending = NoPath /\ next = NoPath
     THEN stage' = "lvgl" /\ UNCHANGED <<target, byBoot, tried>>
     ELSE stage' = "load" /\ target' = next /\ byBoot' = FALSE /\ tried' = {}
  /\ UNCHANGED <<running, current, ui, pinned, restarts>>

\* The end of the pass: a script's request goes over any other, and the switch
\* is made here, where nothing of the VM is on the stack.
Switch ==
  LET asked == IF pending # NoPath THEN pending ELSE next IN
  /\ stage = "switch"
  /\ pending' = NoPath /\ orphan' = FALSE
  /\ next' = NoPath
  /\ homeAsked' = FALSE
  /\ IF asked = NoPath
     THEN stage' = "lvgl" /\ UNCHANGED <<target, byBoot, tried>>
     ELSE stage' = "load" /\ target' = asked /\ byBoot' = FALSE /\ tried' = {}
  /\ UNCHANGED <<running, current, ui, pinned, restarts>>

-----------------------------------------------------------------------------
(* The world.                                                              *)

NetworkChanges ==
  /\ stage = "lvgl"
  /\ offline' = ~offline
  /\ UNCHANGED <<stage, vm, requests, corner, button, touched, pinned, restarts>>

\* Power off at any moment: what NVS holds is all that stays.
PowerCycle ==
  /\ restarts < MaxRestarts
  /\ restarts' = restarts + 1
  /\ Boot(pinned)
  /\ UNCHANGED <<pinned, offline>>

-----------------------------------------------------------------------------
Load == LoadFound \/ LoadMissing
EvalReturns == EvalSucceeds \/ EvalThrows
Script == \/ \E p \in Scripts : ScriptLaunches(p)
          \/ \E p \in Paths : ScriptPins(p)
          \/ ScriptAsksNetwork
ButtonCheck == ButtonUp \/ ButtonDown \/ ButtonHeld
Serial == \/ SerialHome \/ SerialReload \/ SerialUpload
          \/ \E p \in Paths : SerialPins(p)
Service == \/ LvglReturns \/ ButtonCheck \/ SerialDone \/ PumpDone
           \/ CornerUpdated \/ Switch

SupervisorNext ==
  \/ Load \/ EvalReturns \/ Script \/ Serial \/ Service
  \/ CornerTap \/ NetworkChanges \/ PowerCycle

SupervisorSpec == SupervisorInit /\ [][SupervisorNext]_supervisorVars

\* Scripts return (there is no interrupt handler: one that does not hangs the
\* board), storage answers, and loop() goes round.
SupervisorFairness ==
  /\ WF_supervisorVars(Load) /\ WF_supervisorVars(EvalReturns)
  /\ WF_supervisorVars(LvglReturns) /\ WF_supervisorVars(ButtonCheck) /\ WF_supervisorVars(SerialDone)
  /\ WF_supervisorVars(PumpDone) /\ WF_supervisorVars(CornerUpdated) /\ WF_supervisorVars(Switch)

SupervisorFairSpec == SupervisorSpec /\ SupervisorFairness

-----------------------------------------------------------------------------
SupervisorTypeOK ==
  /\ stage \in {"load", "eval", "lvgl", "button", "serial", "pump", "corner", "switch"}
  /\ target \in Scripts /\ byBoot \in BOOLEAN
  /\ running \in Scripts \cup {Builtin, NoVm}
  /\ current \in Paths /\ next \in Paths /\ pending \in Paths /\ pinned \in Paths
  /\ corner \in {"none", "home", "back", "wifi"}
  /\ button \in {"up", "down", "fired"}
  /\ touched \in BOOLEAN /\ offline \in BOOLEAN
  /\ tried \in SUBSET Scripts
  /\ orphan \in BOOLEAN /\ homeAsked \in BOOLEAN
  /\ restarts \in 0..MaxRestarts

UiIsUp == stage \notin {"load", "eval"}

\* jsvm_app_current() names the script the VM is running, and nothing when only
\* the built-in screen is up (js_bindings.h:183): reload, the bare pin, the
\* default upload path and the corner all go by it.
CurrentIsRunning ==
  UiIsUp => running = IF current = NoPath THEN Builtin ELSE current

\* Whoever fails, the built-in screen comes only after the launcher itself was
\* tried and failed (jsvm_app.cpp:225-228, 447-449).
LauncherBeforeBuiltin == UiIsUp /\ running = Builtin => Launcher \in tried

\* Once a pass has updated the corner, whoever is not where leaving would take
\* them has a button that leaves, and no button leads to where one already is.
NeverTrapped ==
  stage = "switch" =>
    /\ corner = "none" => running = BackTarget(pinned)
    /\ corner \in {"home", "back"} => running # BackTarget(pinned)
    /\ corner = "wifi" => running # WifiApp

\* Whatever is missing, throws or asks for a launch, the loop always gets back
\* to dispatching a user interface that is there (jsvm_app.cpp:19-21).
PanelNeverDies == []<>(stage = "lvgl" /\ running # NoVm)

\* A long-press of BOOT always opens the launcher (docs/binding-api.md:192).
LongPressOpensLauncher ==
  [][stage = "switch" /\ stage' # "switch" /\ homeAsked /\ restarts' = restarts
       => stage' = "load" /\ target' = Launcher]_supervisorVars

\* No request outlives the VM that made it: what switches apps is asked for by
\* the running script or by a person (jsvm_core.cpp:86-87).
NoOrphanLaunch == stage = "switch" => ~orphan

-----------------------------------------------------------------------------
(* The inductive invariant, for boot scripts that leave the pin alone      *)
(* until they are up.                                                      *)

\* While a script loads, the path it goes by is the one it was asked for by;
\* while it is evaluated it is what runs, and it counts as tried.
LoadInv ==
  /\ stage \in {"load", "eval"} /\ byBoot => pinned = target
  /\ stage = "eval" => running = target /\ target \in tried

SupervisorInv == SupervisorTypeOK /\ LoadInv /\ CurrentIsRunning /\ LauncherBeforeBuiltin /\ NeverTrapped
=============================================================================
