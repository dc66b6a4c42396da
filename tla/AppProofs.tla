----------------------------- MODULE AppProofs -----------------------------
(***************************************************************************)
(* Proofs about what is around a running script.                           *)
(*                                                                         *)
(* AppSupervisor, for any set of scripts: the name of the running app is   *)
(* right, the built-in screen comes only after the launcher, and the       *)
(* corner button always offers a way out.  All under the hypothesis that   *)
(* the boot script does not change the pin at top level, without which TLC *)
(* finds a counterexample (README, section 6).                             *)
(*                                                                         *)
(* Fetch, for every QueueLen, every number of requests and of app          *)
(* switches, and with or without memory for the worker: the inductive      *)
(* invariant FetchInv, hence one worker at a time, and that Fetch          *)
(* implements FetchPromise.  All of it for scripts that pass strings to    *)
(* fetch(), without which TLC finds a counterexample (README, section 6).  *)
(***************************************************************************)
EXTENDS AppSupervisor, Fetch, TLAPS

-----------------------------------------------------------------------------
(* The app supervisor.                                                     *)

USE SupervisorAssumption DEF Paths

\* SupervisorTypeOK in two halves, for the provers' sake: the flags and the rest.
FlagTypes ==
  /\ byBoot \in BOOLEAN /\ touched \in BOOLEAN /\ offline \in BOOLEAN
  /\ orphan \in BOOLEAN /\ homeAsked \in BOOLEAN

ValueTypes ==
  /\ stage \in {"load", "eval", "lvgl", "button", "serial", "pump", "corner", "switch"}
  /\ target \in Scripts
  /\ running \in Scripts \cup {Builtin, NoVm}
  /\ current \in Paths /\ next \in Paths /\ pending \in Paths /\ pinned \in Paths
  /\ corner \in {"none", "home", "back", "wifi"}
  /\ button \in {"up", "down", "fired"}
  /\ tried \in SUBSET Scripts
  /\ restarts \in 0..MaxRestarts

\* The two halves make up SupervisorTypeOK.
LEMMA TypeHalves == SupervisorTypeOK <=> FlagTypes /\ ValueTypes
BY DEF SupervisorTypeOK, FlagTypes, ValueTypes

\* A board that has just booted is where the invariant wants it.
LEMMA InitSupervisor == SupervisorInit => SupervisorInv
<1> SUFFICES ASSUME SupervisorInit PROVE SupervisorInv
  OBVIOUS
<1>1. SupervisorTypeOK
  <2>1. FlagTypes
    BY TypeHalves DEF SupervisorInit, FlagTypes
  <2>2. ValueTypes
    BY TypeHalves DEF SupervisorInit, ValueTypes
  <2> QED BY <2>1, <2>2, TypeHalves
<1>2. LoadInv
  BY DEF SupervisorInit, LoadInv
<1>3. CurrentIsRunning /\ LauncherBeforeBuiltin /\ NeverTrapped
  BY DEF SupervisorInit, CurrentIsRunning, LauncherBeforeBuiltin, NeverTrapped, UiIsUp
<1> QED BY <1>1, <1>2, <1>3 DEF SupervisorInv

\* Without a change of pin, the path a failing or succeeding load goes by is
\* the one it was called with.
LEMMA PathIsTarget ==
  ASSUME SupervisorInv, stage \in {"load", "eval"}
  PROVE  Path = target
BY DEF SupervisorInv, LoadInv, Path

\* Steps that change neither the stage nor anything the invariant speaks of.
LEMMA FallBackInv ==
  ASSUME SupervisorInv, stage \in {"load", "eval"}, FallBack
  PROVE  SupervisorInv'
<1>1. Path = target
  BY PathIsTarget
<1>2. CASE target # Launcher
  BY <1>1, <1>2 DEF FallBack, Stop, SupervisorInv, SupervisorTypeOK, LoadInv, CurrentIsRunning,
     LauncherBeforeBuiltin, NeverTrapped, UiIsUp
<1>3. CASE target = Launcher
  <2>1. SupervisorTypeOK'
    BY <1>1, <1>3 DEF FallBack, Stop, SupervisorInv, SupervisorTypeOK, WantedCorner
  <2>2. LoadInv' /\ CurrentIsRunning' /\ LauncherBeforeBuiltin' /\ NeverTrapped'
    BY <1>1, <1>3 DEF FallBack, LoadInv, CurrentIsRunning, LauncherBeforeBuiltin,
       NeverTrapped, UiIsUp
  <2> QED BY <2>1, <2>2 DEF SupervisorInv
<1> QED BY <1>2, <1>3

\* Every step of the loop, of a script and of a person keeps the invariant.
LEMMA NextSupervisor ==
  ASSUME ~PinsWhileBooting, SupervisorInv, [SupervisorNext]_supervisorVars
  PROVE  SupervisorInv'
<1> USE DEF SupervisorInv, LoadInv, CurrentIsRunning, LauncherBeforeBuiltin,
            NeverTrapped, UiIsUp
<1>1. CASE LoadFound
  BY <1>1 DEF LoadFound, Stop, SupervisorTypeOK
<1>2. CASE LoadMissing \/ EvalThrows
  <2>1. stage \in {"load", "eval"} /\ FallBack
    BY <1>2 DEF LoadMissing, EvalThrows
  <2> QED BY <2>1, FallBackInv
<1>3. CASE EvalSucceeds
  <2>1. Path = target /\ target \in Scripts /\ target # NoPath
    BY <1>3, PathIsTarget DEF EvalSucceeds, SupervisorTypeOK
  <2>2. SupervisorTypeOK'
    BY <1>3, <2>1 DEF EvalSucceeds, SupervisorTypeOK, WantedCorner, requests
  <2> QED BY <1>3, <2>1, <2>2 DEF EvalSucceeds, SupervisorTypeOK
<1>4. CASE Script
  <2>1. ASSUME NEW p \in Scripts, ScriptLaunches(p) PROVE SupervisorInv'
    <3>1. SupervisorTypeOK'
      <4>1. FlagTypes'
        BY TypeHalves, <2>1 DEF ScriptLaunches, JsRuns, FlagTypes, vm, ui
      <4>2. ValueTypes'
        BY TypeHalves, <2>1 DEF ScriptLaunches, JsRuns, ValueTypes, vm, ui
      <4> QED BY <4>1, <4>2 DEF SupervisorTypeOK, FlagTypes, ValueTypes
    <3>2. LoadInv' /\ CurrentIsRunning' /\ LauncherBeforeBuiltin'
      BY <2>1 DEF ScriptLaunches, JsRuns, vm, ui
    <3>3. NeverTrapped'
      BY <2>1 DEF ScriptLaunches, JsRuns, vm, ui
    <3> QED BY <3>1, <3>2, <3>3
  <2>2. ASSUME NEW p \in Paths, ScriptPins(p) PROVE SupervisorInv'
    <3>1. stage \in {"eval", "lvgl", "serial", "pump"}
      BY <2>2 DEF ScriptPins, JsRuns
    <3> QED BY <2>2, <3>1 DEF ScriptPins, SupervisorTypeOK, vm, ui, requests
  <2>3. ASSUME ScriptAsksNetwork PROVE SupervisorInv'
    BY <2>3 DEF ScriptAsksNetwork, SupervisorTypeOK, vm, requests, BackTarget
  <2> QED BY <1>4, <2>1, <2>2, <2>3 DEF Script
<1>5. CASE Serial
  <2>1. ASSUME NEW p \in Scripts, SerialAsks(p) PROVE SupervisorInv'
    <3>1. SupervisorTypeOK'
      <4>1. FlagTypes'
        BY TypeHalves, <2>1 DEF SerialAsks, FlagTypes, vm, ui
      <4>2. ValueTypes'
        BY TypeHalves, <2>1 DEF SerialAsks, ValueTypes, vm, ui
      <4> QED BY <4>1, <4>2 DEF SupervisorTypeOK, FlagTypes, ValueTypes
    <3>2. LoadInv' /\ CurrentIsRunning' /\ LauncherBeforeBuiltin'
      BY <2>1 DEF SerialAsks, vm, ui
    <3>3. NeverTrapped'
      BY <2>1 DEF SerialAsks, vm, ui
    <3> QED BY <3>1, <3>2, <3>3
  <2>2. ASSUME NEW p \in Paths, SerialPins(p) PROVE SupervisorInv'
    BY <2>2 DEF SerialPins, SupervisorTypeOK, vm, ui, requests
  <2>3. SerialHome \/ SerialReload => \E p \in Scripts : SerialAsks(p)
    BY DEF SerialHome, SerialReload, SupervisorTypeOK
  <2> QED BY <1>5, <2>1, <2>2, <2>3 DEF Serial, SerialUpload
<1>6. CASE LvglReturns \/ SerialDone \/ PumpDone
  BY <1>6 DEF LvglReturns, SerialDone, PumpDone, Passes, SupervisorTypeOK, vm, ui, requests
<1>7. CASE ButtonCheck
  <2>1. SupervisorTypeOK'
    <3>1. FlagTypes'
      BY TypeHalves, <1>7 DEF ButtonCheck, ButtonUp, ButtonDown, ButtonHeld, Passes, FlagTypes, vm, requests
    <3>2. ValueTypes'
      BY TypeHalves, <1>7 DEF ButtonCheck, ButtonUp, ButtonDown, ButtonHeld, Passes, ValueTypes, vm, requests
    <3> QED BY <3>1, <3>2 DEF SupervisorTypeOK, FlagTypes, ValueTypes
  <2>2. LoadInv' /\ CurrentIsRunning' /\ LauncherBeforeBuiltin'
    BY <1>7 DEF ButtonCheck, ButtonUp, ButtonDown, ButtonHeld, Passes, vm, requests
  <2>3. NeverTrapped'
    BY <1>7 DEF ButtonCheck, ButtonUp, ButtonDown, ButtonHeld, Passes, vm, requests
  <2> QED BY <2>1, <2>2, <2>3
<1>8. CASE CornerUpdated
  <2>1. SupervisorTypeOK'
    BY <1>8 DEF CornerUpdated, Passes, SupervisorTypeOK, vm, requests, WantedCorner
  <2>2. BackTarget(pinned) \in Scripts
    BY DEF BackTarget, SupervisorTypeOK
  <2>3. corner' = WantedCorner(current, pinned, SetupNeeded)
        /\ UNCHANGED <<pinned, running, current, byBoot, tried, target>>
        /\ stage = "corner" /\ stage' = "switch"
    BY <1>8 DEF CornerUpdated, Passes, vm
  <2>4. NeverTrapped'
    BY <2>2, <2>3 DEF WantedCorner, SupervisorTypeOK, BackTarget
  <2> QED BY <2>1, <2>3, <2>4
<1>9. CASE Switch
  <2>1. SupervisorTypeOK'
    <3>1. FlagTypes'
      BY TypeHalves, <1>9 DEF Switch, FlagTypes, ui
    <3>2. ValueTypes'
      BY TypeHalves, <1>9 DEF Switch, ValueTypes, ui
    <3> QED BY <3>1, <3>2 DEF SupervisorTypeOK, FlagTypes, ValueTypes
  <2>2. LoadInv' /\ CurrentIsRunning' /\ LauncherBeforeBuiltin'
    BY <1>9 DEF Switch, ui
  <2>3. NeverTrapped'
    BY <1>9 DEF Switch, ui
  <2> QED BY <2>1, <2>2, <2>3
<1>10. CASE CornerTap
  BY <1>10 DEF CornerTap, SupervisorTypeOK, vm, ui, BackTarget
<1>11. CASE NetworkChanges
  BY <1>11 DEF NetworkChanges, SupervisorTypeOK, vm, requests
<1>12. CASE PowerCycle
  <2>1. SupervisorTypeOK'
    <3>1. FlagTypes'
      BY TypeHalves, <1>12 DEF PowerCycle, Boot, FlagTypes
    <3>2. ValueTypes'
      BY TypeHalves, <1>12 DEF PowerCycle, Boot, ValueTypes
    <3> QED BY <3>1, <3>2 DEF SupervisorTypeOK, FlagTypes, ValueTypes
  <2>2. stage' = "load" /\ byBoot' = (pinned # NoPath) /\ pinned' = pinned
        /\ target' = IF pinned = NoPath THEN Launcher ELSE pinned
    BY <1>12 DEF PowerCycle, Boot
  <2>3. LoadInv' /\ CurrentIsRunning' /\ LauncherBeforeBuiltin' /\ NeverTrapped'
    BY <2>2
  <2> QED BY <2>1, <2>3
<1>13. CASE UNCHANGED supervisorVars
  BY <1>13 DEF supervisorVars, SupervisorTypeOK, vm, ui, requests, BackTarget
<1> QED
  BY <1>1, <1>2, <1>3, <1>4, <1>5, <1>6, <1>7, <1>8, <1>9, <1>10, <1>11, <1>12, <1>13
  DEF SupervisorNext, Load, EvalReturns, Service

\* The inductive invariant holds in every state.
THEOREM SupervisorInvariant ==
  ASSUME ~PinsWhileBooting PROVE SupervisorSpec => []SupervisorInv
<1>1. SupervisorInit => SupervisorInv
  BY InitSupervisor
<1>2. SupervisorInv /\ [SupervisorNext]_supervisorVars => SupervisorInv'
  BY NextSupervisor
<1> QED BY <1>1, <1>2, PTL DEF SupervisorSpec

\* The state is of the types the module declares.
THEOREM SupervisorTypes ==
  ASSUME ~PinsWhileBooting PROVE SupervisorSpec => []SupervisorTypeOK
<1>1. SupervisorInv => SupervisorTypeOK
  BY DEF SupervisorInv
<1> QED BY <1>1, SupervisorInvariant, PTL

\* The path the firmware takes for the running app is the one it runs.
THEOREM CurrentIsRunningAlways ==
  ASSUME ~PinsWhileBooting PROVE SupervisorSpec => []CurrentIsRunning
<1>1. SupervisorInv => CurrentIsRunning
  BY DEF SupervisorInv
<1> QED BY <1>1, SupervisorInvariant, PTL

\* Every chain of failures passes by the launcher before the built-in screen.
THEOREM LauncherBeforeBuiltinAlways ==
  ASSUME ~PinsWhileBooting PROVE SupervisorSpec => []LauncherBeforeBuiltin
<1>1. SupervisorInv => LauncherBeforeBuiltin
  BY DEF SupervisorInv
<1> QED BY <1>1, SupervisorInvariant, PTL

\* The corner button, once updated, is right for what is really on screen.
THEOREM NeverTrappedAlways ==
  ASSUME ~PinsWhileBooting PROVE SupervisorSpec => []NeverTrapped
<1>1. SupervisorInv => NeverTrapped
  BY DEF SupervisorInv
<1> QED BY <1>1, SupervisorInvariant, PTL

HIDE SupervisorAssumption DEF Paths

-----------------------------------------------------------------------------
(* fetch().                                                                *)

USE FetchAssumption

\* The result type a worker puts in the queue.
LEMMA RequestsFacts ==
  /\ NoRequest \notin Requests
  /\ \A r \in Requests : r \in Nat /\ r # 0 /\ r <= MaxRequests
  /\ \A n \in 0..MaxRequests : n < MaxRequests => n + 1 \in Requests
BY DEF Requests, NoRequest

\* Receiving from the queue shifts it by one place and invents nothing.
LEMMA TailFacts ==
  ASSUME NEW q \in Seq(Result), q # << >>
  PROVE  /\ Head(q) \in Result /\ Tail(q) \in Seq(Result)
         /\ Len(q) \in Nat \ {0} /\ Len(Tail(q)) = Len(q) - 1
         /\ Head(q) = q[1]
         /\ \A i \in 1..Len(Tail(q)) : Tail(q)[i] = q[i + 1] /\ i + 1 \in 1..Len(q)
OBVIOUS

\* Sending puts the result behind those already waiting.
LEMMA AppendFacts ==
  ASSUME NEW q \in Seq(Result), NEW e \in Result
  PROVE  /\ Append(q, e) \in Seq(Result)
         /\ Len(Append(q, e)) = Len(q) + 1
         /\ \A i \in 1..Len(q) : Append(q, e)[i] = q[i]
         /\ Append(q, e)[Len(q) + 1] = e
         /\ Len(q) \in Nat
OBVIOUS

\* With no request made, nothing waits and nothing is queued.
LEMMA InitFetch == Init => FetchInv
<1> SUFFICES ASSUME Init PROVE FetchInv
  OBVIOUS
<1>1. TypeOK
  <2>1. worker \in [Requests -> Worker]
    <3>1. NoWorker \in Worker
      BY DEF NoWorker, Worker
    <3> QED BY <3>1 DEF Init
  <2>2. queue \in Seq(Result) /\ Len(queue) <= QueueLen /\ calls \in 0..MaxRequests
    BY DEF Init
  <2> QED BY <2>1, <2>2 DEF Init, TypeOK
<1>2. LoopInv
  BY DEF Init, LoopInv
<1>3. PromiseInv
  BY RequestsFacts DEF Init, PromiseInv, NoWorker
<1>4. OneWorker /\ WorkerInv
  BY DEF Init, OneWorker, WorkerInv, NoWorker, Alive
<1>5. QueueInv
  BY DEF Init, QueueInv
<1> QED BY <1>1, <1>2, <1>3, <1>4, <1>5 DEF FetchInv

\* Every step of the loop task and of a worker keeps the invariant.
LEMMA NextFetch ==
  ASSUME ~ArgRunsScript, FetchInv, [Next]_vars
  PROVE  FetchInv'
<1> USE RequestsFacts DEF FetchInv
<1>1. CASE FetchRefused
  <2>1. TypeOK'
    BY <1>1 DEF FetchRefused, TypeOK, loopVars
  <2>2. LoopInv'
    BY <1>1 DEF FetchRefused, LoopInv, TypeOK, loopVars
  <2>3. PromiseInv'
    BY <1>1 DEF FetchRefused, PromiseInv, LoopInv, TypeOK, loopVars
  <2>4. OneWorker'
    BY <1>1 DEF FetchRefused, OneWorker, Alive, loopVars
  <2>5. WorkerInv'
    BY <1>1 DEF FetchRefused, WorkerInv, LoopInv, Alive, loopVars
  <2>6. QueueInv'
    BY <1>1 DEF FetchRefused, QueueInv, LoopInv, loopVars
  <2> QED BY <2>1, <2>2, <2>3, <2>4, <2>5, <2>6 DEF FetchInv
<1>2. CASE FetchAccepted
  <2>1. TypeOK'
    BY <1>2 DEF FetchAccepted, TypeOK, ScriptRuns
  <2>2. LoopInv'
    BY <1>2 DEF FetchAccepted, LoopInv, TypeOK, ScriptRuns
  <2>3. PromiseInv'
    BY <1>2 DEF FetchAccepted, PromiseInv, LoopInv, TypeOK, ScriptRuns
  <2>4. OneWorker'
    BY <1>2 DEF FetchAccepted, OneWorker, Alive, ScriptRuns
  <2>5. WorkerInv'
    BY <1>2 DEF FetchAccepted, WorkerInv, LoopInv, Alive, ScriptRuns
  <2>6. QueueInv'
    BY <1>2 DEF FetchAccepted, QueueInv, LoopInv, ScriptRuns
  <2> QED BY <2>1, <2>2, <2>3, <2>4, <2>5, <2>6 DEF FetchInv
<1>3. CASE FetchStarted
  <2> DEFINE r == calls + 1
             w == [at |-> "started", generation |-> generation, url |-> NoRequest]
  <2>a. r \in Requests /\ w \in Worker /\ calls \in Nat
    BY <1>3 DEF FetchStarted, TypeOK, Worker
  <2>b. nested = 1 /\ ~busy /\ ~workerAlive /\ settling = NoRequest
    BY <1>3 DEF FetchStarted, TypeOK, LoopInv
  <2>c. worker' = [worker EXCEPT ![r] = w]
    BY <1>3 DEF FetchStarted
  <2>d. \A s \in Requests : worker'[s] = IF s = r THEN w ELSE worker[s]
    BY <2>a, <2>c DEF TypeOK
  <2>e. \A s \in Requests : ~Alive(s)
    BY <2>b DEF WorkerInv
  <2>f. \A i \in 1..Len(queue) : queue[i].generation # generation
    <3> SUFFICES ASSUME NEW i \in 1..Len(queue), queue[i].generation = generation
                 PROVE  FALSE
      OBVIOUS
    <3>1. queue[i] \in Result
      BY DEF TypeOK
    <3> QED BY <3>1, <2>b DEF QueueInv, Result
  <2>1. TypeOK'
    <3>1. worker' \in [Requests -> Worker]
      BY <2>a, <2>c DEF TypeOK
    <3>2. promise' \in [Requests -> {"none", "pending", "resolved", "rejected", "gone"}]
          /\ owner' \in [Requests -> Nat]
      BY <1>3, <2>a DEF FetchStarted, TypeOK
    <3>3. /\ queue' \in Seq(Result) /\ Len(queue') <= QueueLen
          /\ generation' \in Nat /\ app' \in Nat
          /\ answer' \in [Requests -> Requests \cup {NoRequest}]
      BY <1>3 DEF FetchStarted, TypeOK
    <3>4. timers' \in Nat /\ nested' \in Nat
      BY <1>3, <2>b DEF FetchStarted, TypeOK
    <3>5. calls' \in 0..MaxRequests /\ url' \in Requests /\ settling' \in Requests
      BY <1>3, <2>a DEF FetchStarted, Requests
    <3>6. /\ busy' \in BOOLEAN /\ workerAlive' \in BOOLEAN /\ poll' \in BOOLEAN
          /\ thrown' = "nothing"
      BY <1>3 DEF FetchStarted
    <3> QED BY <3>1, <3>2, <3>3, <3>4, <3>5, <3>6 DEF TypeOK
  <2>2. LoopInv'
    BY <1>3 DEF FetchStarted, LoopInv, TypeOK
  <2>3. PromiseInv'
    BY <1>3 DEF FetchStarted, PromiseInv, LoopInv, TypeOK
  <2>4. OneWorker'
    BY <2>d, <2>e DEF OneWorker, Alive
  <2>5. WorkerInv'
    <3> SUFFICES ASSUME NEW s \in Requests, Alive(s)'
                 PROVE  s = r
      BY <1>3, <2>a, <2>d, <2>f DEF FetchStarted, WorkerInv, Alive, TypeOK
    <3> QED BY <2>d, <2>e DEF Alive
  <2>6. QueueInv'
    BY <1>3, <2>f DEF FetchStarted, QueueInv
  <2> QED BY <2>1, <2>2, <2>3, <2>4, <2>5, <2>6 DEF FetchInv
<1>4. CASE FetchArgumentThrows
  <2>1. TypeOK'
    BY <1>4 DEF FetchArgumentThrows, TypeOK
  <2>2. LoopInv'
    BY <1>4 DEF FetchArgumentThrows, LoopInv, TypeOK
  <2>3. PromiseInv'
    BY <1>4 DEF FetchArgumentThrows, PromiseInv, LoopInv, TypeOK
  <2>4. OneWorker'
    BY <1>4 DEF FetchArgumentThrows, OneWorker, Alive
  <2>5. WorkerInv'
    BY <1>4 DEF FetchArgumentThrows, WorkerInv, LoopInv, Alive
  <2>6. QueueInv'
    BY <1>4 DEF FetchArgumentThrows, QueueInv, LoopInv
  <2> QED BY <2>1, <2>2, <2>3, <2>4, <2>5, <2>6 DEF FetchInv
<1>5. CASE FetchOutOfMemory
  <2>1. TypeOK'
    BY <1>5 DEF FetchOutOfMemory, TypeOK
  <2>2. LoopInv'
    BY <1>5 DEF FetchOutOfMemory, LoopInv, TypeOK
  <2>3. PromiseInv'
    BY <1>5 DEF FetchOutOfMemory, PromiseInv, LoopInv, TypeOK
  <2>4. OneWorker'
    BY <1>5 DEF FetchOutOfMemory, OneWorker, Alive
  <2>5. WorkerInv'
    BY <1>5 DEF FetchOutOfMemory, WorkerInv, LoopInv, Alive
  <2>6. QueueInv'
    BY <1>5 DEF FetchOutOfMemory, QueueInv, LoopInv
  <2> QED BY <2>1, <2>2, <2>3, <2>4, <2>5, <2>6 DEF FetchInv
<1>6. CASE FetchTaskNotCreated
  <2>a. ~busy /\ ~poll /\ ~workerAlive /\ calls + 1 \in Requests
    BY <1>6 DEF FetchTaskNotCreated, LoopInv, TypeOK
  <2>1. TypeOK'
    <3>1. timers' = timers /\ nested' \in Nat /\ calls' \in 0..MaxRequests
      BY <1>6, <2>a DEF FetchTaskNotCreated, TypeOK, Release
    <3>2. url' \in Requests /\ settling' = NoRequest
          /\ busy' = FALSE /\ poll' = FALSE /\ workerAlive' = FALSE
      BY <1>6, <2>a DEF FetchTaskNotCreated, Release
    <3> QED BY <1>6, <3>1, <3>2 DEF FetchTaskNotCreated, TypeOK
  <2>2. LoopInv'
    BY <1>6 DEF FetchTaskNotCreated, LoopInv, TypeOK, Release
  <2>3. PromiseInv'
    BY <1>6 DEF FetchTaskNotCreated, PromiseInv, LoopInv, TypeOK, Release
  <2>4. OneWorker'
    BY <1>6 DEF FetchTaskNotCreated, OneWorker, Alive, Release
  <2>5. WorkerInv'
    BY <1>6 DEF FetchTaskNotCreated, WorkerInv, LoopInv, Alive, Release
  <2>6. QueueInv'
    BY <1>6 DEF FetchTaskNotCreated, QueueInv, LoopInv, Release
  <2> QED BY <2>1, <2>2, <2>3, <2>4, <2>5, <2>6 DEF FetchInv
<1>7. CASE PollDrops
  <2>1. TypeOK'
    BY <1>7 DEF PollDrops, TypeOK, loopVars
  <2>2. LoopInv'
    BY <1>7 DEF PollDrops, LoopInv, TypeOK, loopVars
  <2>3. PromiseInv'
    BY <1>7 DEF PollDrops, PromiseInv, LoopInv, TypeOK, loopVars
  <2>4. OneWorker'
    BY <1>7 DEF PollDrops, OneWorker, Alive, loopVars
  <2>5. WorkerInv'
    BY <1>7 DEF PollDrops, WorkerInv, LoopInv, Alive, loopVars
  <2>6. QueueInv'
    BY <1>7 DEF PollDrops, QueueInv, LoopInv, loopVars
  <2> QED BY <2>1, <2>2, <2>3, <2>4, <2>5, <2>6 DEF FetchInv
<1>8. CASE PollSettles
  <2>1. TypeOK'
    <3>1. timers' \in Nat
      BY <1>8 DEF PollSettles, Release, TypeOK
    <3>2. queue' \in Seq(Result) /\ Len(queue') <= QueueLen /\ Head(queue).url \in Requests
      <4>1. queue \in Seq(Result) /\ Len(queue) <= QueueLen /\ queue # << >> /\ queue' = Tail(queue)
        BY <1>8 DEF PollSettles, TypeOK
      <4>2. /\ Head(queue) \in Result /\ Tail(queue) \in Seq(Result)
            /\ Len(queue) \in Nat \ {0} /\ Len(Tail(queue)) = Len(queue) - 1
        BY <4>1, TailFacts
      <4> QED BY <4>1, <4>2 DEF Result
    <3>3. promise' \in [Requests -> {"none", "pending", "resolved", "rejected", "gone"}]
      BY <1>8 DEF PollSettles, TypeOK
    <3>4. answer' \in [Requests -> Requests \cup {NoRequest}]
      BY <1>8, <3>2 DEF PollSettles, TypeOK
    <3> QED BY <1>8, <3>1, <3>2, <3>3, <3>4 DEF PollSettles, TypeOK, Release
  <2>2. LoopInv'
    BY <1>8 DEF PollSettles, LoopInv, TypeOK, Release
  <2>3. PromiseInv'
    BY <1>8 DEF PollSettles, PromiseInv, LoopInv, TypeOK, Release
  <2>4. OneWorker'
    BY <1>8 DEF PollSettles, OneWorker, Alive, Release
  <2>5. WorkerInv'
    BY <1>8 DEF PollSettles, WorkerInv, LoopInv, Alive, Release
  <2>6. QueueInv'
    BY <1>8 DEF PollSettles, QueueInv, LoopInv, Release
  <2> QED BY <2>1, <2>2, <2>3, <2>4, <2>5, <2>6 DEF FetchInv
<1>9. CASE Teardown
  <2>1. TypeOK'
    <3>1. generation' \in Nat /\ timers' \in Nat /\ app' \in Nat
      BY <1>9 DEF Teardown, Release, TypeOK, LoopInv
    <3>2. promise' \in [Requests -> {"none", "pending", "resolved", "rejected", "gone"}]
      BY <1>9 DEF Teardown, TypeOK
    <3> QED BY <1>9, <3>1, <3>2 DEF Teardown, TypeOK, Release
  <2>2. LoopInv'
    BY <1>9 DEF Teardown, LoopInv, TypeOK, Release
  <2>3. PromiseInv'
    BY <1>9 DEF Teardown, PromiseInv, LoopInv, TypeOK, Release
  <2>4. OneWorker'
    BY <1>9 DEF Teardown, OneWorker, Alive, Release
  <2>5. WorkerInv'
    <3>1. CASE busy
      <4>1. generation' = generation + 1 /\ worker' = worker
            /\ workerAlive' = workerAlive /\ url' = url /\ generation \in Nat
        BY <1>9, <3>1 DEF Teardown, TypeOK
      <4>2. \A r \in Requests : worker[r].generation \in Nat
        BY DEF TypeOK, Worker
      <4> QED BY <4>1, <4>2 DEF WorkerInv, Alive
    <3>2. CASE ~busy
      BY <1>9, <3>2 DEF Teardown, WorkerInv, Alive
    <3> QED BY <3>1, <3>2
  <2>6. QueueInv'
    <3>1. CASE busy
      <4>1. generation' = generation + 1 /\ queue' = queue /\ generation \in Nat
        BY <1>9, <3>1 DEF Teardown, TypeOK
      <4>2. \A i \in 1..Len(queue) : queue[i] \in Result
        BY DEF TypeOK
      <4>3. \A i \in 1..Len(queue) : queue[i].generation \in Nat
        BY <4>2 DEF Result
      <4> QED BY <4>1, <4>3 DEF QueueInv
    <3>2. CASE ~busy
      BY <1>9, <3>2 DEF Teardown, QueueInv
    <3> QED BY <3>1, <3>2
  <2> QED BY <2>1, <2>2, <2>3, <2>4, <2>5, <2>6 DEF FetchInv
<1>10. ASSUME NEW r \in Requests, WorkerBegins(r) PROVE FetchInv'
  <2>a. /\ worker[r].at = "started" /\ worker[r] \in Worker
        /\ \/ worker' = [worker EXCEPT ![r].at = "requesting", ![r].url = url]
           \/ worker' = [worker EXCEPT ![r].at = "leaving"]
        /\ UNCHANGED <<loopVars, workerAlive, queue>> /\ thrown' = "nothing"
    BY <1>10 DEF WorkerBegins, TypeOK
  <2>b. url = r
    BY <2>a DEF WorkerInv
  <2>c. /\ worker' \in [Requests -> Worker]
        /\ worker'[r].at \in {"requesting", "leaving"}
        /\ worker'[r].generation = worker[r].generation
        /\ worker'[r].at = "requesting" => worker'[r].url = r
        /\ \A s \in Requests : s # r => worker'[s] = worker[s]
    <3> DEFINE asking == [worker[r] EXCEPT !.at = "requesting", !.url = url]
               failed == [worker[r] EXCEPT !.at = "leaving"]
    <3>1. /\ asking \in Worker /\ asking.at = "requesting" /\ asking.url = r
          /\ asking.generation = worker[r].generation
          /\ failed \in Worker /\ failed.at = "leaving"
          /\ failed.generation = worker[r].generation
      BY <2>a, <2>b DEF Worker
    <3>2. \/ worker' = [worker EXCEPT ![r] = asking]
          \/ worker' = [worker EXCEPT ![r] = failed]
      BY <2>a
    <3> HIDE DEF asking, failed
    <3>3. worker \in [Requests -> Worker]
      BY DEF TypeOK
    <3> QED BY <3>1, <3>2, <3>3
  <2>1. TypeOK'
    BY <2>a, <2>c DEF TypeOK, loopVars
  <2>2. LoopInv'
    BY <2>a DEF LoopInv, loopVars
  <2>3. PromiseInv'
    BY <2>a, <2>c DEF PromiseInv, loopVars
  <2>4. OneWorker'
    BY <2>a, <2>c DEF OneWorker, Alive
  <2>5. WorkerInv'
    <3> SUFFICES ASSUME NEW s \in Requests PROVE WorkerInv!(s)'
      BY DEF WorkerInv
    <3> QED BY <2>a, <2>c DEF WorkerInv, loopVars, Alive
  <2>6. QueueInv'
    BY <2>a DEF QueueInv, loopVars
  <2> QED BY <2>1, <2>2, <2>3, <2>4, <2>5, <2>6 DEF FetchInv
<1>11. ASSUME NEW r \in Requests, WorkerSends(r) PROVE FetchInv'
  <2>a. /\ worker[r].at = "requesting" /\ worker[r] \in Worker
        /\ worker' = [worker EXCEPT ![r].at = "leaving"]
        /\ UNCHANGED <<loopVars, workerAlive>> /\ thrown' = "nothing"
    BY <1>11 DEF WorkerSends, TypeOK
  <2>b. /\ worker' \in [Requests -> Worker]
        /\ worker'[r].at = "leaving"
        /\ \A s \in Requests : s # r => worker'[s] = worker[s]
    BY <2>a DEF TypeOK, Worker
  <2>c. \A s \in Requests : Alive(s) => s = r
    BY <2>a DEF OneWorker, Alive
  <2>d. PICK outcome \in Outcomes :
          queue' = IF Len(queue) < QueueLen
                   THEN Append(queue, [request |-> r, url |-> worker[r].url,
                                       generation |-> worker[r].generation,
                                       outcome |-> outcome])
                   ELSE queue
    BY <1>11 DEF WorkerSends
  <2> DEFINE e == [request |-> r, url |-> worker[r].url,
                   generation |-> worker[r].generation, outcome |-> outcome]
  <2>e. e \in Result /\ e.url = e.request /\ e.generation <= generation
        /\ (e.generation = generation =>
              /\ settling = e.request
              /\ \A i \in 1..Len(queue) : queue[i].generation # generation)
    <3>1. worker[r].url = r /\ worker[r].generation \in Nat
          /\ outcome \in {"body", "bodyless", "error"}
      BY <2>a DEF WorkerInv, Worker, Outcomes
    <3> QED BY <2>a, <3>1 DEF WorkerInv, Result
  <2>f. queue' = queue \/ queue' = Append(queue, e)
    BY <2>d
  <2> HIDE DEF e
  <2>1. TypeOK'
    <3>1. queue' \in Seq(Result) /\ Len(queue') <= QueueLen
      <4>1. queue \in Seq(Result) /\ Len(queue) <= QueueLen /\ Len(queue) \in Nat /\ e \in Result
        BY <2>e DEF TypeOK
      <4>2. Append(queue, e) \in Seq(Result) /\ Len(Append(queue, e)) = Len(queue) + 1
        BY <4>1, AppendFacts
      <4>3. queue' = queue \/ (Len(queue) < QueueLen /\ queue' = Append(queue, e))
        BY <2>d DEF e
      <4> QED BY <4>1, <4>2, <4>3
    <3> QED BY <2>a, <2>b, <3>1 DEF TypeOK, loopVars
  <2>2. LoopInv'
    BY <2>a DEF LoopInv, loopVars
  <2>3. PromiseInv'
    BY <2>a, <2>b DEF PromiseInv, loopVars
  <2>4. OneWorker'
    BY <2>a, <2>b DEF OneWorker, Alive
  <2>5. WorkerInv'
    <3> SUFFICES ASSUME NEW s \in Requests PROVE WorkerInv!(s)'
      BY DEF WorkerInv
    <3>1. CASE s = r
      BY <2>a, <2>b, <3>1 DEF WorkerInv, loopVars, Alive
    <3>2. CASE s # r
      BY <2>a, <2>b, <2>c, <3>2 DEF WorkerInv, loopVars, Alive
    <3> QED BY <3>1, <3>2
  <2>6. QueueInv'
    <3>1. CASE queue' = queue
      BY <2>a, <3>1 DEF QueueInv, loopVars
    <3>2. CASE queue' = Append(queue, e)
      <4>1. /\ Len(queue') = Len(queue) + 1 /\ Len(queue) \in Nat
            /\ \A i \in 1..Len(queue) : queue'[i] = queue[i]
            /\ queue'[Len(queue) + 1] = e
        BY <3>2, <2>e, AppendFacts DEF TypeOK
      <4>2. \A i \in 1..Len(queue') :
              \/ i \in 1..Len(queue) /\ queue'[i] = queue[i]
              \/ i = Len(queue) + 1 /\ queue'[i] = e
        BY <4>1
      <4>3. settling' = settling /\ generation' = generation
        BY <2>a DEF loopVars
      <4> QED BY <2>e, <4>2, <4>3 DEF QueueInv
    <3> QED BY <2>f, <3>1, <3>2
  <2> QED BY <2>1, <2>2, <2>3, <2>4, <2>5, <2>6 DEF FetchInv
<1>12. ASSUME NEW r \in Requests, WorkerLeaves(r) PROVE FetchInv'
  <2>a. /\ worker[r].at = "leaving" /\ worker[r] \in Worker
        /\ worker' = [worker EXCEPT ![r].at = "gone"] /\ workerAlive' = FALSE
        /\ UNCHANGED <<loopVars, queue>> /\ thrown' = "nothing"
    BY <1>12 DEF WorkerLeaves, TypeOK
  <2>b. /\ worker' \in [Requests -> Worker]
        /\ worker'[r].at = "gone"
        /\ \A s \in Requests : s # r => worker'[s] = worker[s]
    BY <2>a DEF TypeOK, Worker
  <2>c. \A s \in Requests : Alive(s) => s = r
    BY <2>a DEF OneWorker, Alive
  <2>1. TypeOK'
    BY <2>a, <2>b DEF TypeOK, loopVars
  <2>2. LoopInv'
    BY <2>a DEF LoopInv, loopVars
  <2>3. PromiseInv'
    BY <2>a, <2>b DEF PromiseInv, loopVars
  <2>4. OneWorker'
    BY <2>a, <2>b DEF OneWorker, Alive
  <2>5. WorkerInv'
    <3> SUFFICES ASSUME NEW s \in Requests PROVE WorkerInv!(s)'
      BY DEF WorkerInv
    <3>1. CASE s = r
      BY <2>a, <2>b, <3>1 DEF WorkerInv, loopVars, Alive
    <3>2. CASE s # r
      BY <2>a, <2>b, <2>c, <3>2 DEF WorkerInv, loopVars, Alive
    <3> QED BY <3>1, <3>2
  <2>6. QueueInv'
    BY <2>a DEF QueueInv, loopVars
  <2> QED BY <2>1, <2>2, <2>3, <2>4, <2>5, <2>6 DEF FetchInv
<1>13. CASE UNCHANGED vars
  BY <1>13 DEF vars, loopVars, TypeOK, LoopInv, PromiseInv, OneWorker, WorkerInv, QueueInv, Alive
<1> QED
  BY <1>1, <1>2, <1>3, <1>4, <1>5, <1>6, <1>7, <1>8, <1>9, <1>10, <1>11, <1>12, <1>13
  DEF Next, FetchCall, PollTimer, WorkerStep

\* Every reachable state satisfies the inductive invariant.
THEOREM FetchInvariant ==
  ASSUME ~ArgRunsScript PROVE Spec => []FetchInv
<1>1. Init => FetchInv
  BY InitFetch
<1>2. FetchInv /\ [Next]_vars => FetchInv'
  BY NextFetch
<1> QED BY <1>1, <1>2, PTL DEF Spec

\* No two workers are ever inside a request: g_fetch_worker_alive does what the
\* comment at bindings_wifi.cpp:310-317 asks of it.
THEOREM OneWorkerAlways ==
  ASSUME ~ArgRunsScript PROVE Spec => []OneWorker
<1>1. FetchInv => OneWorker
  BY DEF FetchInv
<1> QED BY <1>1, FetchInvariant, PTL

\* No poll timer outlives its request, and none is missing while one waits.
THEOREM PollTimerOwnedAlways ==
  ASSUME ~ArgRunsScript PROVE Spec => []PollTimerOwned
<1>1. FetchInv => PollTimerOwned
  BY DEF FetchInv, LoopInv, PollTimerOwned
<1> QED BY <1>1, FetchInvariant, PTL

\* The state is of the types the module declares.
THEOREM FetchTypes ==
  ASSUME ~ArgRunsScript PROVE Spec => []TypeOK
<1>1. FetchInv => TypeOK
  BY DEF FetchInv
<1> QED BY <1>1, FetchInvariant, PTL

-----------------------------------------------------------------------------
(* No answer is lost but to a full queue.                                  *)

\* No request, no result, no worker.
LEMMA InitAnswer == Init => AnswerInv
BY DEF Init, AnswerInv, NoWorker

\* Whether an answer is on its way, was never made or was dropped is a matter of
\* one worker, the queue and the generation.
LEMMA SameAnswer ==
  ASSUME NEW r \in Requests, UNCHANGED <<queue, generation>>, worker'[r] = worker[r]
  PROVE  /\ OnItsWay(r)' <=> OnItsWay(r)
         /\ Starved(r)' <=> Starved(r)
         /\ Dropped(r)' <=> Dropped(r)
BY DEF OnItsWay, Starved, Dropped

\* What a step does to the answer of a script that waits.
Kept(r) ==
  /\ settling' = r /\ poll'
  /\ \/ OnItsWay(r)' \/ Starved(r)'
     \/ Dropped(r)' /\ (Dropped(r) \/ FullOfAbandoned)

\* A result leaves the queue by the poll alone, and finds no place in it only
\* among results nobody waits for.
LEMMA NextKept ==
  ASSUME ~ArgRunsScript, FetchInv, AnswerInv, [Next]_vars, NEW r \in Requests, promise'[r] = "pending"
  PROVE  Kept(r)
<1> USE RequestsFacts
<1>t. /\ queue \in Seq(Result) /\ Len(queue) \in Nat /\ Len(queue) <= QueueLen
      /\ worker \in [Requests -> Worker]
      /\ promise \in [Requests -> {"none", "pending", "resolved", "rejected", "gone"}]
      /\ DOMAIN queue = 1..Len(queue)
  BY DEF FetchInv, TypeOK
<1>p. settling' = r /\ poll'
  <2>1. FetchInv'
    BY NextFetch
  <2>2. settling' = r
    BY <2>1 DEF FetchInv, PromiseInv
  <2>3. busy'
    BY <2>1, <2>2 DEF FetchInv, LoopInv
  <2>4. poll'
    BY <2>1, <2>3 DEF FetchInv, LoopInv
  <2> QED BY <2>2, <2>4
<1>w. \A s \in Requests : promise[s] = "pending" <=> settling = s
  BY DEF FetchInv, PromiseInv
<1>k. promise[r] = "pending" => OnItsWay(r) \/ Starved(r) \/ Dropped(r)
  BY DEF AnswerInv
<1> SUFFICES \/ OnItsWay(r)' \/ Starved(r)'
             \/ Dropped(r)' /\ (Dropped(r) \/ FullOfAbandoned)
  BY <1>p DEF Kept
<1>1. CASE FetchRefused \/ FetchAccepted \/ FetchArgumentThrows \/ FetchOutOfMemory
           \/ UNCHANGED vars
  <2>1. UNCHANGED <<promise, generation, queue, worker>>
    BY <1>1 DEF FetchRefused, FetchAccepted, FetchArgumentThrows, FetchOutOfMemory,
                loopVars, vars
  <2> QED BY <1>k, <2>1, SameAnswer
<1>2. CASE FetchStarted
  <2>1. settling = NoRequest /\ calls + 1 \in Requests
    BY <1>2 DEF FetchStarted, FetchInv, LoopInv, TypeOK
  <2>2. r = calls + 1
    BY <1>t, <1>w, <1>2, <2>1 DEF FetchStarted
  <2>3. /\ generation' = generation
        /\ worker'[r].at = "started" /\ worker'[r].generation = generation
    BY <1>t, <1>2, <2>1, <2>2 DEF FetchStarted
  <2> QED BY <2>3 DEF OnItsWay
<1>3. CASE FetchTaskNotCreated \/ PollSettles \/ Teardown
  <2>1. promise'[r] # "pending"
    BY <1>t, <1>w, <1>3
    DEF FetchTaskNotCreated, PollSettles, Teardown, FetchInv, LoopInv, TypeOK
  <2> QED BY <2>1
<1>4. CASE PollDrops
  <2>1. /\ UNCHANGED <<promise, generation, worker>>
        /\ queue # << >> /\ queue' = Tail(queue)
        /\ Head(queue).generation # generation
    BY <1>4 DEF PollDrops, loopVars
  <2>2. \A i \in 1..Len(queue) : queue[i].generation = generation =>
          i - 1 \in 1..Len(queue') /\ queue'[i - 1] = queue[i]
    BY <1>t, <2>1
  <2>3. /\ DOMAIN queue' = 1..Len(queue')
        /\ \A i \in 1..Len(queue') : i + 1 \in 1..Len(queue) /\ queue'[i] = queue[i + 1]
    BY <1>t, <2>1, TailFacts
  <2>4. CASE OnItsWay(r)
    <3>1. CASE worker[r].at \in {"started", "requesting"} /\ worker[r].generation = generation
      BY <2>1, <3>1 DEF OnItsWay
    <3>2. ASSUME NEW i \in DOMAIN queue, queue[i].request = r, queue[i].generation = generation
          PROVE  OnItsWay(r)'
      <4>1. i - 1 \in DOMAIN queue' /\ queue'[i - 1] = queue[i]
        BY <1>t, <2>2, <2>3, <3>2
      <4>2. \E j \in DOMAIN queue' : queue'[j].request = r /\ queue'[j].generation = generation'
        BY <2>1, <3>2, <4>1
      <4> QED BY <4>2 DEF OnItsWay
    <3> QED BY <2>4, <3>1, <3>2 DEF OnItsWay
  <2>5. CASE Starved(r)
    BY <2>1, <2>5 DEF Starved
  <2>6. CASE Dropped(r)
    <3>1. Dropped(r)'
      BY <1>t, <2>1, <2>3, <2>6 DEF Dropped
    <3> QED BY <2>6, <3>1
  <2> QED BY <1>k, <2>1, <2>4, <2>5, <2>6
<1>5. ASSUME NEW s \in Requests, WorkerBegins(s)
      PROVE  \/ OnItsWay(r)' \/ Starved(r)'
             \/ Dropped(r)' /\ (Dropped(r) \/ FullOfAbandoned)
  <2>1. /\ UNCHANGED <<promise, generation, queue>>
        /\ worker[s].at = "started" /\ worker[s].url = NoRequest
        /\ \A x \in Requests : x # s => worker'[x] = worker[x]
        /\ worker'[s].generation = worker[s].generation
        /\ \/ worker'[s].at = "requesting"
           \/ worker'[s].at = "leaving" /\ worker'[s].url = NoRequest
    BY <1>t, <1>5 DEF WorkerBegins, loopVars, Worker, AnswerInv
  <2>2. CASE r # s
    BY <1>k, <2>1, <2>2, SameAnswer
  <2>3. CASE r = s
    <3>1. OnItsWay(r)
      BY <1>k, <2>1, <2>3 DEF Starved, Dropped
    <3> QED BY <2>1, <2>3, <3>1 DEF OnItsWay, Starved
  <2> QED BY <2>2, <2>3
<1>6. ASSUME NEW s \in Requests, WorkerSends(s)
      PROVE  \/ OnItsWay(r)' \/ Starved(r)'
             \/ Dropped(r)' /\ (Dropped(r) \/ FullOfAbandoned)
  <2>1. /\ worker[s].at = "requesting" /\ worker[s] \in Worker
        /\ UNCHANGED <<promise, generation>>
        /\ worker' = [worker EXCEPT ![s].at = "leaving"]
    BY <1>t, <1>6 DEF WorkerSends, loopVars
  <2>2. /\ worker'[s].at = "leaving" /\ worker'[s].url = worker[s].url
        /\ \A x \in Requests : x # s => worker'[x] = worker[x]
    BY <1>t, <2>1 DEF Worker
  <2>3. worker[s].url = s
    BY <2>1 DEF FetchInv, WorkerInv
  <2>4. PICK outcome \in Outcomes :
          queue' = IF Len(queue) < QueueLen
                   THEN Append(queue, [request |-> s, url |-> worker[s].url,
                                       generation |-> worker[s].generation,
                                       outcome |-> outcome])
                   ELSE queue
    BY <1>6 DEF WorkerSends
  <2>5. CASE Len(queue) < QueueLen
    <3>1. /\ DOMAIN queue' = 1..(Len(queue) + 1)
          /\ \A i \in 1..Len(queue) : queue'[i] = queue[i]
          /\ queue'[Len(queue) + 1].request = s
          /\ queue'[Len(queue) + 1].generation = worker[s].generation
      BY <1>t, <2>4, <2>5
    <3>2. CASE r = s
      <4>1. OnItsWay(r)
        BY <1>k, <2>1, <3>2 DEF Starved, Dropped
      <4>2. \/ worker[s].generation = generation
            \/ \E i \in DOMAIN queue : queue[i].request = r /\ queue[i].generation = generation
        BY <3>2, <4>1 DEF OnItsWay
      <4>3. \E i \in DOMAIN queue' : queue'[i].request = r /\ queue'[i].generation = generation
        <5>1. CASE worker[s].generation = generation
          <6>1. Len(queue) + 1 \in DOMAIN queue'
            BY <1>t, <3>1
          <6> QED BY <3>1, <3>2, <5>1, <6>1
        <5>2. ASSUME NEW i \in DOMAIN queue, queue[i].request = r, queue[i].generation = generation
              PROVE  \E j \in DOMAIN queue' :
                       queue'[j].request = r /\ queue'[j].generation = generation
          <6>1. i \in DOMAIN queue' /\ queue'[i] = queue[i]
            BY <1>t, <3>1, <5>2
          <6> QED BY <5>2, <6>1
        <5> QED BY <4>2, <5>1, <5>2
      <4> QED BY <2>1, <4>3 DEF OnItsWay
    <3>3. CASE r # s
      <4>1. worker'[r] = worker[r]
        BY <2>2, <3>3
      <4>2. CASE OnItsWay(r)
        BY <1>t, <2>1, <3>1, <4>1, <4>2 DEF OnItsWay
      <4>3. CASE Starved(r)
        BY <4>1, <4>3 DEF Starved
      <4>4. CASE Dropped(r)
        <5>1. \A i \in DOMAIN queue' : queue'[i].request # r
          BY <1>t, <3>1, <3>3, <4>4 DEF Dropped
        <5>2. Dropped(r)'
          BY <4>1, <4>4, <5>1 DEF Dropped
        <5> QED BY <4>4, <5>2
      <4> QED BY <1>k, <2>1, <4>2, <4>3, <4>4
    <3> QED BY <3>2, <3>3
  <2>6. CASE ~(Len(queue) < QueueLen)
    <3>1. queue' = queue /\ Len(queue) = QueueLen
      <4>1. queue' = queue
        BY <2>4, <2>6
      <4>2. Len(queue) = QueueLen
        <5> DEFINE taken == Len(queue)
        <5>1. taken \in Nat /\ taken <= QueueLen /\ ~(taken < QueueLen) /\ QueueLen \in Nat
          BY <1>t, <2>6
        <5> HIDE DEF taken
        <5>2. taken = QueueLen
          BY <5>1
        <5> QED BY <5>2 DEF taken
      <4> QED BY <4>1, <4>2
    <3>2. CASE r # s
      BY <1>k, <2>1, <2>2, <3>1, <3>2, SameAnswer
    <3>3. CASE r = s
      <4>1. CASE \E i \in DOMAIN queue : queue[i].request = r /\ queue[i].generation = generation
        BY <2>1, <3>1, <4>1 DEF OnItsWay
      <4>2. CASE ~\E i \in DOMAIN queue : queue[i].request = r /\ queue[i].generation = generation
        <5>1. worker[s].generation = generation
          BY <1>k, <2>1, <3>3, <4>2 DEF OnItsWay, Starved, Dropped
        <5>2. FullOfAbandoned
          BY <1>t, <2>1, <3>1, <5>1 DEF FetchInv, WorkerInv, FullOfAbandoned
        <5>3. \A i \in DOMAIN queue : queue[i].request # r
          BY <2>1, <3>3 DEF AnswerInv
        <5>4. Dropped(r)'
          BY <2>2, <2>3, <3>1, <3>3, <5>3 DEF Dropped
        <5> QED BY <5>2, <5>4
      <4> QED BY <4>1, <4>2
    <3> QED BY <3>2, <3>3
  <2> QED BY <2>5, <2>6
<1>7. ASSUME NEW s \in Requests, WorkerLeaves(s)
      PROVE  \/ OnItsWay(r)' \/ Starved(r)'
             \/ Dropped(r)' /\ (Dropped(r) \/ FullOfAbandoned)
  <2>1. /\ UNCHANGED <<promise, generation, queue>>
        /\ worker[s].at = "leaving" /\ worker'[s].at = "gone"
        /\ worker'[s].url = worker[s].url
        /\ \A x \in Requests : x # s => worker'[x] = worker[x]
    BY <1>t, <1>7 DEF WorkerLeaves, loopVars, Worker
  <2>2. CASE r # s
    BY <1>k, <2>1, <2>2, SameAnswer
  <2>3. CASE r = s
    BY <1>k, <2>1, <2>3 DEF OnItsWay, Starved, Dropped
  <2> QED BY <2>2, <2>3
<1> QED BY <1>1, <1>2, <1>3, <1>4, <1>5, <1>6, <1>7
    DEF Next, FetchCall, PollTimer, WorkerStep

\* Hence every state has the answer of whoever waits accounted for.
LEMMA NextAnswer ==
  ASSUME ~ArgRunsScript, FetchInv, AnswerInv, [Next]_vars
  PROVE  AnswerInv'
<1>t. worker \in [Requests -> Worker]
  BY DEF FetchInv, TypeOK
<1>1. ASSUME NEW r \in Requests, worker'[r].at = "started" PROVE worker'[r].url = NoRequest
  <2>1. worker'[r] = worker[r] \/ worker'[r].url = NoRequest
    <3>1. CASE FetchStarted
      BY <1>t, <3>1 DEF FetchStarted
    <3>2. ASSUME NEW s \in Requests, WorkerStep(s) PROVE worker'[r] = worker[r]
      BY <1>t, <1>1, <3>2 DEF WorkerStep, WorkerBegins, WorkerSends, WorkerLeaves, Worker
    <3>3. CASE UNCHANGED worker
      BY <3>3
    <3> QED BY <3>1, <3>2, <3>3
        DEF Next, FetchCall, PollTimer, FetchRefused, FetchAccepted, FetchArgumentThrows,
            FetchOutOfMemory, FetchTaskNotCreated, PollDrops, PollSettles, Teardown, loopVars, vars
  <2> QED BY <1>1, <2>1 DEF AnswerInv
<1>2. ASSUME NEW r \in Requests, promise'[r] = "pending"
      PROVE  OnItsWay(r)' \/ Starved(r)' \/ Dropped(r)'
  BY <1>2, NextKept DEF Kept
<1>3. ASSUME NEW r \in Requests, NEW i \in DOMAIN queue', queue'[i].request = r
      PROVE  worker'[r].at \in {"leaving", "gone"}
  <2>q. /\ queue \in Seq(Result) /\ Len(queue) \in Nat /\ DOMAIN queue = 1..Len(queue)
        /\ \A j \in DOMAIN queue : queue[j].request = r => worker[r].at \in {"leaving", "gone"}
    BY DEF FetchInv, TypeOK, AnswerInv
  <2>1. ASSUME NEW s \in Requests, WorkerSends(s) PROVE worker'[r].at \in {"leaving", "gone"}
    <3>1. worker' = [worker EXCEPT ![s].at = "leaving"]
      BY <2>1 DEF WorkerSends
    <3>2. worker[s] \in Worker /\ worker'[s].at = "leaving"
      BY <1>t, <3>1 DEF Worker
    <3>3. CASE r = s
      BY <3>2, <3>3
    <3>4. CASE r # s
      <4>1. PICK outcome \in Outcomes :
              queue' = IF Len(queue) < QueueLen
                       THEN Append(queue, [request |-> s, url |-> worker[s].url,
                                           generation |-> worker[s].generation,
                                           outcome |-> outcome])
                       ELSE queue
        BY <2>1 DEF WorkerSends
      <4>2. i \in DOMAIN queue /\ queue'[i] = queue[i]
        <5>1. CASE queue' = queue
          BY <5>1
        <5>2. CASE queue' # queue
          <6>1. /\ DOMAIN queue' = 1..(Len(queue) + 1)
                /\ \A j \in 1..Len(queue) : queue'[j] = queue[j]
                /\ queue'[Len(queue) + 1].request = s
            <7>1. queue' = Append(queue, [request |-> s, url |-> worker[s].url,
                                          generation |-> worker[s].generation,
                                          outcome |-> outcome])
              BY <4>1, <5>2
            <7> QED BY <2>q, <7>1
          <6> QED BY <1>3, <2>q, <3>4, <6>1
        <5> QED BY <5>1, <5>2
      <4>3. worker'[r] = worker[r]
        BY <1>t, <3>1, <3>4
      <4> QED BY <1>3, <2>q, <4>2, <4>3
    <3> QED BY <3>3, <3>4
  <2>2. \/ queue' = queue
        \/ queue # << >> /\ queue' = Tail(queue)
        \/ \E s \in Requests : WorkerSends(s)
    BY DEF Next, FetchCall, PollTimer, FetchRefused, FetchAccepted, FetchStarted,
           FetchArgumentThrows, FetchOutOfMemory, FetchTaskNotCreated, PollDrops, PollSettles,
           Teardown, WorkerStep, WorkerBegins, WorkerLeaves, loopVars, vars
  <2>3. CASE queue' = queue \/ (queue # << >> /\ queue' = Tail(queue))
    <3>1. \E j \in DOMAIN queue : queue[j].request = r
      <4>1. CASE queue' = queue
        BY <1>3, <4>1
      <4>2. CASE queue # << >> /\ queue' = Tail(queue)
        <5>1. i \in 1..Len(Tail(queue))
          BY <2>q, <4>2, TailFacts
        <5>2. Tail(queue)[i] = queue[i + 1] /\ i + 1 \in 1..Len(queue)
          BY <2>q, <4>2, <5>1, TailFacts
        <5> QED BY <1>3, <2>q, <4>2, <5>2
      <4> QED BY <2>3, <4>1, <4>2
    <3>2. worker[r].at \in {"leaving", "gone"}
      BY <2>q, <3>1
    <3>3. CASE FetchStarted
      <4>1. calls + 1 \in Nat /\ calls + 1 > calls
        BY DEF FetchInv, TypeOK
      <4>2. r # calls + 1
        BY <3>2, <4>1 DEF FetchInv, PromiseInv
      <4>3. worker'[r] = worker[r]
        BY <1>t, <3>3, <4>2 DEF FetchStarted
      <4> QED BY <3>2, <4>3
    <3>4. ASSUME NEW s \in Requests, WorkerStep(s) PROVE worker'[r].at \in {"leaving", "gone"}
      <4>1. CASE WorkerBegins(s)
        <5>1. s # r
          BY <3>2, <4>1 DEF WorkerBegins
        <5>2. worker'[r] = worker[r]
          BY <1>t, <4>1, <5>1 DEF WorkerBegins
        <5> QED BY <3>2, <5>2
      <4>2. CASE WorkerSends(s)
        BY <2>1, <4>2
      <4>3. CASE WorkerLeaves(s)
        BY <1>t, <3>2, <4>3 DEF WorkerLeaves, Worker
      <4> QED BY <3>4, <4>1, <4>2, <4>3 DEF WorkerStep
    <3>5. CASE UNCHANGED worker
      BY <3>2, <3>5
    <3> QED BY <3>3, <3>4, <3>5
        DEF Next, FetchCall, PollTimer, FetchRefused, FetchAccepted, FetchArgumentThrows,
            FetchOutOfMemory, FetchTaskNotCreated, PollDrops, PollSettles, Teardown, loopVars, vars
  <2> QED BY <2>1, <2>2, <2>3
<1> QED BY <1>1, <1>2, <1>3 DEF AnswerInv

\* However many apps are switched away from, a waiting script's answer is lost in
\* one way only: xQueueSend() finds every place taken by results that nobody waits
\* for (bindings_wifi.cpp:373).
THEOREM PendingIsServedAlways ==
  ASSUME ~ArgRunsScript PROVE Spec => PendingIsServed
<1> DEFINE Inv == FetchInv /\ AnswerInv
<1>1. Init => Inv
  BY InitFetch, InitAnswer
<1>2. Inv /\ [Next]_vars => Inv'
  BY NextFetch, NextAnswer
<1>3. Inv /\ [Next]_vars =>
        [\A r \in Requests : promise'[r] = "pending" =>
           /\ settling' = r /\ poll'
           /\ \/ OnItsWay(r)' \/ Starved(r)'
              \/ Dropped(r)' /\ (Dropped(r) \/ FullOfAbandoned)]_vars
  BY NextKept DEF Kept
<1> QED BY <1>1, <1>2, <1>3, PTL DEF Spec, PendingIsServed

-----------------------------------------------------------------------------
(* Fetch implements FetchPromise.                                          *)

\* No promise has been made yet, in the one as in the other.
LEMMA InitImplements == Init => Promise!PInit
BY DEF Init, Promise!PInit, NoRequest, Promise!NoRequest

\* Only three steps concern the promises: the start of a request, the settle in
\* the poll and the teardown; the invariant says each does what it may.
LEMMA StepImplements ==
  ASSUME ~ArgRunsScript, FetchInv, [Next]_vars
  PROVE  [Promise!PNext]_(Promise!pvars)
<1> USE RequestsFacts DEF Promise!pvars
<1> SUFFICES ASSUME ~UNCHANGED <<promise, answer, owner, app>>
             PROVE  Promise!PNext
  OBVIOUS
<1>1. FetchStarted \/ PollSettles \/ Teardown
  BY DEF Next, FetchCall, PollTimer, WorkerStep, FetchRefused, FetchAccepted,
     FetchArgumentThrows, FetchOutOfMemory, FetchTaskNotCreated, PollDrops,
     WorkerBegins, WorkerSends, WorkerLeaves, loopVars, vars
<1>2. CASE FetchStarted
  <2> DEFINE r == calls + 1
  <2>1. r \in Requests /\ promise[r] = "none" /\ settling = NoRequest
    BY <1>2 DEF FetchStarted, FetchInv, TypeOK, LoopInv, PromiseInv
  <2>2. \A s \in Requests : ~Promise!Pending(s)
    BY <2>1 DEF FetchInv, PromiseInv, Promise!Pending
  <2>3. Promise!Ask(r)
    BY <1>2, <2>1, <2>2 DEF FetchStarted, Promise!Ask
  <2> QED BY <2>1, <2>3 DEF Promise!PNext
<1>3. CASE PollSettles
  <2>1. 1 \in 1..Len(queue) /\ Head(queue) = queue[1] /\ Head(queue) \in Result
    BY <1>3, TailFacts DEF PollSettles, FetchInv, TypeOK
  <2>2. settling \in Requests /\ Head(queue).url = settling
    BY <1>3, <2>1 DEF PollSettles, FetchInv, QueueInv, Result
  <2>3. promise[settling] = "pending" /\ owner[settling] = app
    BY <2>2 DEF FetchInv, PromiseInv
  <2>4. \E how \in {"resolved", "rejected"} :
          promise' = [promise EXCEPT ![settling] = how]
    BY <1>3, <2>2 DEF PollSettles
  <2>5. answer' = [answer EXCEPT ![settling] = settling] /\ UNCHANGED <<owner, app>>
    BY <1>3, <2>2 DEF PollSettles
  <2>6. Promise!Settle(settling)
    BY <2>3, <2>4, <2>5 DEF Promise!Settle, Promise!Pending
  <2> QED BY <2>2, <2>6 DEF Promise!PNext
<1>4. CASE Teardown
  <2>1. Promise!SwitchApp
    BY <1>4 DEF Teardown, Promise!SwitchApp, Promise!Pending
  <2> QED BY <2>1 DEF Promise!PNext
<1> QED BY <1>1, <1>2, <1>3, <1>4

\* The worker, the queue and the generation counter keep the promise fetch()
\* makes: a request settles at most once, with its own url's answer, while its
\* app runs, and there is one at a time (docs/binding-api.md:131).
THEOREM FetchImplements ==
  ASSUME ~ArgRunsScript PROVE Spec => FetchImplementsPromise
<1>1. Init => Promise!PInit
  BY InitImplements
<1>2. FetchInv /\ [Next]_vars => [Promise!PNext]_(Promise!pvars)
  BY StepImplements
<1> QED BY <1>1, <1>2, FetchInvariant, PTL
     DEF Spec, FetchImplementsPromise, Promise!PSpec
=============================================================================
