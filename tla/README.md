# A verification project for esp32-ui-lab

esp32-ui-lab turns an ESP32-S3 board with a small touch display into a machine that runs
JavaScript apps: a firmware (LVGL for the display, QuickJS for the scripts, bindings between the
two), a React-like runtime that apps are built with, and the tools that build and push apps. This
directory holds TLA+ models of the parts where order, ownership and failure decide whether it
works, the TLC runs that check them, and proofs of the properties that matter most.

Every definition is translated from the source; `PROJECT.json` (`map`) names the lines each one
stands for. Paths below are relative to the repository (`src/` in `PROJECT.json`).
`B/` stands for `firmware/lvgl-js-bindings/src/`.

## 1. The system

### How it runs

`loop()` of the board sketch runs on one FreeRTOS task: `lv_timer_handler()` (LVGL: timers, input,
drawing; it calls script callbacks through trampolines), then `jsvm_app_service()` (button, serial
line, promise jobs, corner button, and last a queued app switch). The only other tasks that touch
shared state are the fetch worker and the Wi-Fi event task. So there are three sources of
difficulty: real concurrency (worker and event task against the loop task), calls within calls
(LVGL calls the script, the script calls LVGL, LVGL calls the script again, or frees what is being
called), and sequences (switches, failures, restarts, uploads cut short).

### Inventory

| Component | State | Operations | Talks to | What makes it correct |
|---|---|---|---|---|
| fetch (`B/bindings_wifi.cpp` 289-506) | generation, busy flag, worker-alive flag, shared url, resolving functions, poll timer, result queue | `js_fetch`, worker task, `fetch_poll_timer`, `js_teardown_wifi` | script promise, FreeRTOS queue and task, app switch | one worker; the right answer to the right promise, once; nothing left behind; every promise settles |
| Wi-Fi supervisor (25-226, 486-491) | wanted, attempts (8 bit), next attempt (32-bit ms), last reason, supervisor timer, interest of the script, NVS | `supervise`, `wifi_event`, save, forget, connect, status, `jsvm_network_setup_needed` | Wi-Fi driver's task, corner button | keeps retrying, backs off, sends a person to the setup screen exactly when one can help |
| wifi.scan (230-283) | active flag, callback, poll timer | scan, poll, teardown | script callback | called once, released once |
| app supervisor (`B/jsvm_app.cpp`, pin in `B/bindings_sys.cpp`, launch request in `B/jsvm_core.cpp`) | current, next, pending launch, pin (NVS), corner button, button state | boot, `runApp` with its two fallbacks, service pass, switch, corner tap, sys.launch/pin/unpin, serial home/reload/pin | VM, storage, person, scripts | knows what runs; a broken app never strands the board; there is always a way out |
| serial protocol (`B/jsvm_app.cpp` 262-419) and its other end (`push.ps1`) | line buffer, upload buffer, upload target, modes; what was sent and what was answered | REPL lines, app-begin/app-end upload, commands; push and verification | storage, VM | what is reported as written is what was sent; what is verified is what will run; an upload ends |
| VM core (`B/jsvm_core.cpp`) | lists of event and timer bindings, reference counts, opaque pointers, context | trampolines, timers, `.on`, `jsvm_start`, `jsvm_stop`, handle validation | LVGL tree and timers, QuickJS | nothing freed is touched, every reference is returned, nothing survives a stop |
| lv bindings (`B/bindings_lv.cpp`) | none of its own | make, set, clean, delete, value, list, tabs... | VM core, LVGL | arguments converted and widgets validated in a safe order |
| fs bindings (`B/bindings_fs.cpp`), script storage (`B/jsvm_app.cpp` 40-103, 264-300) | files and folders of card and flash, which of them is mounted | read, write, append, remove, mkdir; load and write a script | card, flash | what a script, the loader and the host commands make of one path fits together |
| UI runtime (`app/lib/ui.js`) | instance tree, hooks, dirty list, effect queue, handlers, refs, widgets | useState, useEffect, schedule, flush, mount, patch, diff, unmount | lv bindings | no state write lost, effects cleaned up once, widgets in the order of the tree and as the elements say |
| board sketch | none of its own | `setup`, `loop` | everything | the order of the stages |

Drivers, example apps, self tests, the host test harness, the vendored QuickJS, the build tools and
scripts and the frozen C dashboard are listed in `PROJECT.json` with the reason each is left out.

### What is hard, component by component

- **fetch**: the worker queues its result, then lowers its flag; the poll, a `.then()`, an app
  switch and the next `fetch()` may all fall in between. Abandoned results stay in a bounded queue.
- **Wi-Fi supervisor**: the driver reports the reason of a lost link later than the link is lost,
  maybe after another network was asked for; preferences may fail to open, or to take in what they
  are given; two counters wrap.
- **app supervisor**: five parties write one "next app"; every load may fail, the fallback too;
  power may go at any moment; the corner button is decided one pass before it is tapped.
- **VM core**: whatever is called may destroy what it was called for; a stop has to take apart
  lists that hold pointers into each other.
- **UI runtime**: a flush may be re-entered by what it runs; diffs nest, and share a container; a
  widget lives through any number of patches, each of which sends only differences.
- **serial protocol**: the line loses and garbles, an upload may be cut short at any line, push and
  board each know half of what happened.
- **storage**: two file systems, one name, and three pieces of code that do not look for it alike.

`PROJECT.json` (`hazards`) lists the places, with the properties that watch over each.

## 2. Modules

| | Module | Models | Extended or used by |
|---|---|---|---|
| A | `FetchPromise`, `Fetch` | the promise a script gets (abstract); worker, queue, poll, teardown (detailed, implements A's abstract half) | `AppProofs` |
| B | `AppSupervisor` | which script runs, who asks for another, fallbacks, pin, corner button | `AppProofs`, with `Fetch` |
| C | `JsvmCore` | references, bindings, handles, nested calls, start and stop of the VM | `MCJsvmCore`, `JsvmCoreProofs` |
| D | `WifiSupervisor` | the reconnect schedule, credentials, the setup verdict | `WifiProofs` |
| E | `UiScheduler` | state writes, flush, nested renders, effects, unmounting, runaway guard | `UiProofs` |
| F | `UiOrder` | `.delete()`, `.index()` and `reorder()` of one container | `UiReconciler`, `UiElement` |
| | `UiReconciler` | mount, unmount, children diff, order of widgets, of components in components, and diffs cut short by a throw | `MCUiReconciler`, `UiReconcilerProofs` |
| G | `Storage`, `Push` | both file systems and who looks where; push.ps1 and the board's end of the line (extends `Storage`) | `MCPush`, `PushProofs` |
| H | `UiElement` | props, text, handlers and refs of elements that stay, what `.set()` makes of the props, and the order of the widgets | `MCUiElement`, `UiElementProofs` |
| | `Lemmas` | no code of its own: induction and recursion on the numbers, and what follows from them about `UiOrder` | `WifiProofs`, `UiElementProofs`, `UiReconcilerProofs` |

Each module is parameterised by constants with a named assumption; each run is a `.cfg` that gives
them values. Operators named `...Unguarded`, `...Alone`, and so on, introduced by a comment "Mutant
of", are plausible bugs: put in place of the definition they follow, they break the property
`PROJECT.json` (`mutants`) pairs them with.

### How state and actions correspond to the code

**Fetch.** Variables are the file statics of `bindings_wifi.cpp` (`generation`, `busy`,
`workerAlive`, `url`, `poll`, `queue`), the worker tasks, and what the script sees (`promise`,
`answer`, `owner`). `js_fetch` is split where script code may run, at the conversion of its argument:
`FetchAccepted`, then `FetchStarted` or one of its three failures. The worker takes three steps
(reads the url, queues the result, lowers the flag), each an action, since the loop task runs in
parallel. The poll and the teardown are one action each: they run on the loop task, and what they
share with the worker they touch once. A request's number doubles as its url, so "the right answer"
is `answer[r] = r`.

**AppSupervisor.** `stage` is where `loop()` is: LVGL, then the stages of `jsvm_app_service()`. A
script may ask for a launch or change the pin in the stages that run JavaScript; a person acts on
the stage that reads the device. `runApp()` is a load and an evaluation with `FallBack` when either
fails, to the launcher once, then to the screen compiled in. `PowerCycle` keeps the pin alone. Its
initial states, steps and types are called `SupervisorInit`, `SupervisorNext` and so on, as
`AppProofs` has `Fetch` beside it.

**JsvmCore.** The stack of calls is a variable. A frame is a script, a callback with a reference of
its own, a binding at work on the object it has unwrapped (`native`), or a constructor at work on
the widget it has made (`make`). Script code runs, and deletes widgets or stops timers, on top of
any frame: a binding converts arguments and reads props, and half way through `apply_props()` or
`.value(n)` LVGL may raise an event on the very object (`SetValueRaises`). When the frame goes on
(`Touch`, `Made`), its object may be gone: that is `Undercut`. `refs` counts what C holds on a
function; `fault` is set by any touch of what is freed. `waits` holds the functions of a scan or a
fetch with their poll timers (`ScanStarts`, `FetchStarts`, and `ScanAnswers`, whose callback runs
while the poll timer that called it is being released and may scan again; `FetchSettles`).
`jsvm_stop()` is five steps, as its releases re-enter the lists; nothing else runs between them.

**WifiSupervisor.** Time goes in periods of the supervisor's timer; `now` wraps at `ClockMod` as
`millis()` does, `attempts` at `AttemptsMod`. `Tick` makes the timer due, one `Supervise...` action
runs it, and anything else may happen in between. The driver joins, fails, loses the link as it
likes, and tells so in an event delivered later (`WifiEvent`). A save joins even if flash took one
of its two strings, or neither, and joins with an empty name, which the driver refuses. `quiet`,
`since`, `blamed`, `kept` and `wrapped` are ghosts: how long ago the driver was last asked, how long
the wanted link has been away, what the last reason was about, whether the join that is wanted was
asked for by something that flash holds in full, and whether the count of attempts has wrapped since
it was reset.

**UiScheduler.** `stack` holds the runtime's calls under way: flush, render, diff, effect. A diff is
a frame with the tasks it has left (patch, mount, unmount, in any order), each of which pushes a
render; a throw unwinds to the `try` of the flush. `fresh[c]` is a ghost: whether the last render of
`c` read the state it has now.

**UiOrder.** A container is the sequence of its widgets. `MoveTo` is `.index(i)`; `Ordered` is the loop
of `reorder()`, a recursive function of how many widgets it has asked. What throws is the first handle
to a deleted widget, and `Asked` are the widgets before it.

**UiReconciler.** An instance is known by the order it was made in, its widget by its instance; `inst`
has all that were ever made, `box` is the container. `stack` has the diffs under way: what each wants
(`elems`), what it has (`next`), what it has unmounted (`dropped`). A step is one element of the diff on
top: a widget that stays (`PatchHost`) or is made (`MountHost`), a component that stays or is made, whose
own diff is then the top (`PatchComponent`, `MountComponent`), and one child that goes (`Drop`), followed
by `unmount()` of what is below it, one by one (`doomed`, from the top down). `End` gives the owner its
children and puts the container in order. What throws, a component (`PatchThrows`, `MountThrows`) or a
call on a deleted widget, empties the stack and leaves the rest as it is. `RenderAll` is `.update()`,
`RenderOne` a component that renders again by itself, even one that nobody lists any more. `Collect` is
`collect()` from the root without recursion: each component in the row is replaced by its children, the
eldest first. `failed` and `keyed` are ghosts: something has thrown; all children with components among
them were matched by key.

**Storage, Push.** `files` is what each file system holds, `Resolve` and `LoadScript` the two
readings of a path. `Push` has both ends of the serial line: `wire` is what was sent and not read,
`uploading`, `upload`, `uploadPath` the statics of `pollSerialRepl()`, of which one action takes one
line (`UploadGrows`, `UploadEnds`, `CommandCheck`, ...); `at`, `job`, `sent` are where `push.ps1` is
(`PushStarts`, `SendsLine`, `SendsEnd`, `SendsCheck`, `GetsReply`, `GetsNoReply`). A fault loses or
garbles a line, refuses it for want of memory, fails to open the file, cuts the power or interrupts
the push. Meanwhile the running app uses the same files and a person types commands. `received`,
`held`, `whole` and `smooth` are ghosts that say what really happened; `push.ps1` sees `replies` only.

**UiElement.** `inst` holds, for each instance, the element it was last patched with and the state of
its widget (`look`, `labels`, `trampolines`). A render is `RenderBegins`, then one action for each
element (`Patch`, `Replace`, `Mount`) and each instance left over (`Sweep`), since refs are set and
cleared in that order. `Patched` is `diffProps()`, `updateEvents()` and the diff of what is inside;
`Apply` is `.set()` in C. `box` is the container: what is made comes last in it, what is unmounted goes,
and `RenderEnds` puts it in order where it has to (`structural`). `shared` is a ghost: a ref was given
to an element while another had it.

## 3. Runs

Times are of the order of a minute or two with two workers.

| Run | Bounds | Shows |
|---|---|---|
| `fetch_core` | queue of 2, 4 requests, 3 switches, memory may fail | one worker; no answer misdelivered, or lost but to a queue full of abandoned ones; no timer leaked; every fetch whose answer is not lost settles; `Fetch` implements `FetchPromise` |
| `supervisor_core` | launcher, Wi-Fi app, one more script, 1 power cycle | the firmware knows what runs; launcher before built-in; never trapped; always back to a live screen |
| `jsvm_ownership` | 2 bindings, 2 addresses, 3 widgets made, calls 3 deep | nothing freed is touched, but the object that a script deletes under the binding that runs it; references balance; LVGL calls what the core holds; nothing survives a stop |
| `wifi_core` | gaps 1, 2, 3 (doubled twice, capped), gone after 3 attempts, the count wraps at 4, 10 periods, one event under way | keeps asking, with a widening gap; missing is noticed until the count wraps; forgotten stays away; joined is what a restart joins, if flash took it |
| `wifi_stale` (violation) | same | the old network's wrong password condemns the new one |
| `ui_flush` | 2 components, guard at 2 flushes, 1 throw | no state write or effect lost; no effect outlives its component; the pump returns |
| `ui_renderloop` (violation) | 1 component that sets state while rendering | the guard never sees it |
| `ui_diff` | 2 children out of labels and components of up to one label, with and without keys, components in components, some of which throw; 2 renders after the first | declared order, nothing lost or left over, keyed instances kept, keyed lists survive a component that throws |
| `ui_reorder` (violation) | 2 children without keys | a nested diff asks a deleted widget for its index |
| `ui_element` | 8 elements, 2 places, any number of renders | a patched widget looks and acts as a new one, in the place of its element; refs are current |
| `ui_place` (violation) | 2 elements, 1 place | an element that moves along one axis jumps along the other |
| `push_core` | caps of 5 characters, scripts of 1 to 3 lines, 2 pushes or commands, 1 fault, card, flash or both mounted | verified means held; a healthy push verifies; app-end ends an upload; wrote means whole |

Why these bounds are enough to be interesting:

- `fetch_core`: a request abandoned by a switch overlaps the next app's; with 4 requests and 3
  switches two abandoned results fill the queue and the awaited one is dropped. The firmware's queue
  has four places; the proofs lift the bounds for the safety properties.
- `supervisor_core`: three scripts are the launcher, the setup screen and "any other": the code tells
  no more apart. One power cycle leaves a pin whose script may since have broken.
- `jsvm_ownership`: a callback nested in a callback that removes both bindings takes depth 3; reuse
  of an address takes one widget more than there are addresses. Bindings and addresses are symmetric:
  the module compares them and nothing else.
- `wifi_core`: the schedule is scaled, not cut: first gap, doubled gaps, the cap and the "gone"
  threshold are all passed, and the count of attempts wraps, within 10 periods; connects, drops and
  restarts fall anywhere. `millis()` does not wrap in it (see section 6).
- `ui_flush`: two components give siblings and parent and child; a guard at 2 lets a chain of one
  legitimate flush pass and the next be stopped. At most 4 places of the dirty list are used.
- `ui_diff`: two children are enough for a move, an insertion and a removal, and for a component that
  throws before or after its sibling is unmounted; two renders after the first for one of what a
  failed one has left, or of a stray by itself. More children, more depth and more renders are left
  to the proofs, which lift all of these bounds.
- `ui_element`: elements of one tag and key differ in colour and `hidden`, in their texts, handlers
  and refs, so that each of these is sent, taken back and sent again; where they stand and whether
  they scroll goes with the tag, as `.set()` cannot undo either (`ui_place`, section 6). The number
  of renders is not bounded. What happens at one place depends on the others through keys and refs
  only, for which two places do.
- `push_core`: a line is two characters with its newline, so that a script of two lines and its
  app-end fill the cap exactly, and one of three passes it. Two pushes are what it takes for one to
  meet the remains of another; one fault of any kind is what the protocol claims to survive.

`CHECK_DEADLOCK FALSE` appears where stopping is legitimate: an app may never render again
(`ui_diff`), and the bounded clock of `wifi_core` may run out.

### Fairness

- `Fetch`: the worker's steps and the poll timer. FreeRTOS schedules the worker, whose request has a
  10 s timeout, and `lv_timer_handler()` runs the poll. No script is obliged to do anything.
- `AppSupervisor`: every stage of `loop()` ends. Scripts return: one that does not hangs the board,
  as there is no interrupt handler, and nothing in this code promises otherwise.
- `UiScheduler`: the runtime and the pump go on, components and effects return.
- `JsvmCore`, `WifiSupervisor`, `UiReconciler`, `UiElement` and `Push` have safety properties only:
  nothing obliges an app to render or a person to push.
  `KeepsAsking` is the bounded form of "eventually asks again".

## 4. Proofs

TLAPS checks seven modules of proofs and the lemmas of `Lemmas`, for all values of the constants:

| Module | Theorems | Under |
|---|---|---|
| `AppProofs`, of `Fetch` | `FetchInvariant`, `FetchTypes`, `OneWorkerAlways`, `PollTimerOwnedAlways`, `FetchImplements`, `PendingIsServedAlways` | scripts pass strings to `fetch()` (`~ArgRunsScript`) |
| `AppProofs`, of `AppSupervisor` | `SupervisorInvariant`, `SupervisorTypes`, `CurrentIsRunningAlways`, `LauncherBeforeBuiltinAlways`, `NeverTrappedAlways` | a boot script leaves the pin alone until it is up (`~PinsWhileBooting`) |
| `JsvmCoreProofs` | `CoreInvariant`, `CoreTypes`, `NoFaultAlways`, `NothingFreedIsTouched`, `RefsBalancedAlways`, `LvglMatchesListsAlways`, `NothingSurvivesStopAlways` | nothing: what `NoFault` excepts is part of it |
| `WifiProofs` | `WifiInvariant`, `WifiTypes`, `KeepsAskingAlways`, `WideningGapAlways`, `ForgottenStaysOfflineAlways`, `NoticeInvariant`, `MissingIsNoticedAlways`; `WantedIsStoredAlways` | `millis()` does not wrap (`NoWrap`); the last: nothing |
| `UiProofs` | `UiInvariant`, `UiTypes`, `QuietStaysCurrent`, `GoneStaysClean`, `EffectInvariant`, `QuietHasRun` | effects do not redraw the tree by its handle (`~EffectsRedraw`) |
| `UiElementProofs` | `RefsAreCurrentAlways`, `RefsAreLiveAlways`, `ElementTypes`, `BoxInvariant`; `AsGoodAsNewAlways` | the last: elements that follow one another on a widget differ in nothing that ui.js cannot bring up to date (`Steady`) |
| `UiReconcilerProofs` | `DiffInvariant`, `ReconcilerTypes`, `OrderIsDeclaredAlways`, `AllAccountedForAlways`, `KeyKeepsInstanceAlways`, `KeyedRecoversAlways` | nothing: what a property needs (`failed`, `keyed`) is part of it |
| `Lemmas` | `ReorderPlaces` | nothing |
| `PushProofs` | `ReadIsLoaded`, `PushTypes`, `EndIsHeeded`; `VerifiedIsTrue`; `ReportIsTrue`; `HealthyIsVerified` | the fourth and the last: the pauses of push.ps1 suffice (`~SlowBoard`); the last two: the card does not fill up (`~CardMayFill`) |

Each hypothesis is needed by some theorem beside it: section 6 has the counterexample that TLC finds
without it. `NoWrap` is 49 days of uptime. Where a property has an exception (an object its own
binding's script deletes, a save flash did not take, an answer a full queue dropped, a count that
wrapped), it is part of the property and not a hypothesis, so that the theorem speaks about every
run, and the run of section 3 has the exceptional case. `Steady` has one part for each of four
disagreements of section 6: with `MCMoving` (`ui_place`), `MCScrolling`, `MCMixed` or `MCUndefined`
one of them is broken, and `AsGoodAsNew` with it; the elements of `ui_element` are `Steady`
(`SteadyAssumption`, which TLC evaluates), as the constants of the other runs satisfy the other
hypotheses. Every module follows the same line: an inductive invariant, one lemma for each action or
kind of action that it is kept, and the theorems from it.

- **`FetchInv`.** One worker at a time is not inductive: it needs that the flag is up as long as any
  worker lives (`WorkerInv`), that no `fetch()` is past its guards while the flag is up (`LoopInv`),
  and that promise and resolving functions agree (`PromiseInv`). The refinement further needs that
  the one result of the current generation is the awaited one (`QueueInv`): then a settled promise
  has its own answer. It holds with a full queue and with failing memory too: answers may get lost,
  never misdelivered.
- **`SupervisorInv`** adds to the properties what is being loaded and that the launcher is tried only
  where it should be (`LoadInv`).
- **`CoreInv`.** Balance of references means: one for the binding, one for each frame of it on the
  stack; the stack's frames are counted with cardinalities (`StackInv`), the tree is rooted in the
  screen (`TreeInv`), each step of the stop has emptied its part (`StopInv`). `NoFault` is about steps:
  from any state that satisfies `CoreInv` the only touch of something freed is that of a frame whose
  object is gone (`Undercut`), and no frame is pushed in that condition: the object was alive when the
  work on it began, and script code ran since.
- **`WifiInv`.** The bound on silence needs where the next attempt lies relative to the last one
  (`ClockInv`) and that the supervisor has looked in every period (`AskInv`); the widening gap needs
  that this distance is exactly the backoff of the attempt before. `WantedIsStored` is inductive by
  itself. The fact that `FirstGap * 2^n` is a natural number is an assumption on the constants
  (`GapAssumption`), which TLC evaluates: the provers know nothing of exponents.
- **`NoticeInv`** ties the number of attempts to the clock: with the network away, and for as long
  as the count has not wrapped, the attempt after the n-th comes at most one longest backoff later
  than the sum of the backoffs up to there. That sum, `GoneAfter`, is a recursive function; that it
  is the function its definition describes (`GoneAfterIs`) and grows (`GoneAfterGrows`) is proved by
  induction from `Lemmas`, whose lemmas are about sets of numbers instead of predicates, which no
  prover here could instantiate.
- **`AnswerInv`** adds to `FetchInv` that whoever waits has an answer on its way or a worker past
  sending one, which had no memory for it or found no place. `PendingIsServed` says more, of steps:
  only a queue with every place taken by abandoned results makes a worker drop the awaited one. That
  follows from `FetchInv`, as the awaited result is the only one of its generation.
- **`UiInv`.** That no state write is lost is a chain: what does not show its state is dirty
  (`CurrentInv`), what is dirty is on the list, and the list is in the hands of a `flush()` on the
  stack or a flush is scheduled. For the second link the shape of the stack is needed (`ShapeInv`:
  one flush or update at the bottom, effects directly above it).
- **`EffectInv`.** As long as nothing throws, an effect that is pending is on the list of effects or its
  component is still in a diff on the stack, which ends by putting it there; an idle runtime has an
  empty list. With `UiInv` that is `QuietHasRunEffects`.
- **`PushProofs`.** The file read back is one that the loader runs (`ReadIsLoaded`), because the cap
  of `fs.read()` is no larger than the loader's and `Resolve` picks the card only when it is mounted.
  The rest is about whose answer the workstation has: with `~SlowBoard` any answer it can read was
  given since it asked (`AskedInv`, `VerdictInv`).
- **`SmoothInv`** follows a push that nothing goes wrong with, begun while the line was quiet: what is
  on the wire are the lines the board has yet to take, in their order, and the board has made of those
  before what they say (`Streams`); once the verification is under way the file is there, and is being
  asked for or answered with (`Answers`).
- **`RefInv`.** What a ref holds is alive and names it (`HeldInv`) is inductive once every live
  instance is known to be old or already taken (`ShapeInv`): a new instance takes a number no ref can
  hold, and `unmount()` clears the one ref that can. The converse (`NamedInv`) needs that no ref was
  given away.
- **`ReorderPlaces`** is an induction on the widgets asked: those placed so far are in front, and are
  others than the next, which therefore comes from behind and moves none of them. `BoxInv` makes it a
  fact about the whole of a render: the container has the widgets of the instances alive, each once,
  so that at the end the tree names every one (`EndInOrder`); and where `structural` is false none was
  made, deleted or moved.
- **`KeptInv`.** A widget looks and acts as its element says, at every step: one lemma says so of
  `Mounted`, one of `Patched` if it was so before (`PatchedKept`), in three parts, for the look, the
  labels and the events. `Steady` is where the first two need it. Which instance has which element
  needs that no instance is taken twice (`MatchInv`).

- **`DiffInv`** is what makes the children diff right at every step of it, and not only between renders.
  - The instances are a tree, a child younger than what it is in (`Tree`), which is what `Collect` and
    `InTree` go by: by induction on the instances, the row at the end has every widget that can be
    reached, each once (`TreeFacts`), and does not change with what is made or unmounted meanwhile.
  - Each frame has taken every child at most once and under the right element (`FrameInv`); by position
    what it has taken is in its place, by key a child whose tag and key are its own is taken as soon as
    its element has been passed (`KeyFrame`). From the last follows `KeyKeepsInstance`, which is an
    action property: only `End` gives an instance other children, and those are the frame's.
  - What is unmounted leaves the tree from the top down, and only as somebody's dropped child
    (`GoneInv`); what is alive is listed by its parent or in a frame of it (`AccountInv`). With the stack
    empty nothing is dropped, and the two make up `AllAccountedFor`.
  - The widgets of the tree come first in the container, in their order, whenever nothing dropped is
    still listed (`PrefixInv`). `End` reaches that by `ReorderPlaces` if it puts them in order, and where it
    does not, its owner's children are what they were (`SameOrder`).
  - Where children are matched by key, a frame unmounts only when all of its elements are done, with
    nothing above it on the stack (`KeyedInv`). So no component is called while a listed child is gone,
    a throw finds none, and `reorder()` no deleted widget (`AllFound`): `KeyedRecovers`.

Model-checked only: liveness (`EveryFetchSettles`, `PanelNeverDies`, `PumpReturns`), which TLAPS does
not reach.

## 5. Abstractions

- TLS, HTTP, response bodies and their 128 KB cap are one choice of outcome per request.
- A pin, a path or an SSID is a model value; truncation to the code's fixed buffers is left out.
- LVGL is used, not modelled: deletion deletes what is below, sends the delete event to its hooks,
  and reuses addresses. That the widget being dispatched may be deleted is LVGL's own matter.
- What the firmware does after it has touched something freed is not modelled: the run goes on, with
  `fault` set, as if nothing had happened.
- The Wi-Fi driver may do anything at any moment; it refuses an empty name; whether it reports the
  abort of an attempt when asked again is left out (it reports at most one event at a time).
- `UiReconciler` has no tabview (LVGL owns that order) and no text children, and one container: what is
  inside a widget has a container of its own, and does not interact. The diff of what is inside a
  widget does not throw there. State and effects are the matter of `UiScheduler`: here any component
  that is not unmounted may render again, and what it returns is any element's.
- `UiScheduler` gives a component one state cell and one effect; cleanups and refs that write state
  count as components that do (`RendersSetState`). What a throw leaves of the widgets is the matter of
  `UiReconciler`.
- `UiElement` has buttons and plain containers with one thing inside, no components, and six of the
  props: those that are taken together (align, x, y), one that can be set and reset (hidden), one that
  can only be switched off (scroll), one without a neutral value (bg). Ref
  callbacks that write state, a prop given as null, and what LVGL makes of values out of range are left
  out; nothing throws.
- `Storage` has every file in one folder, and no list, exists or isDir, which change nothing. `Push`
  counts characters in units of half a line; a line that is too long, and a lack of memory, are faults
  like any other; checksums are taken to tell texts apart.
- 2^32 abandoned requests, where `g_generation` would wrap, are out of reach.

## 6. Where code and words disagree

Four runs end in a violation, each a finding in `PROJECT.json`: `ui_renderloop`, `ui_reorder`,
`ui_place`, `wifi_stale`. More were met on the way; each of
these is reproduced by changing the constants of a run, by checking one of the properties below, or
by leaving out the exception named.

| What | How to see it |
|---|---|
| The argument of `fetch()` is converted between the guards and the flag, so a `toString()` that calls `fetch()` starts a second worker (`bindings_wifi.cpp:435`) | `fetch_core` with `ArgRunsScript = TRUE`: `OneWorker` |
| A fetch settles (`docs/binding-api.md:131`), but results of requests abandoned by app switches stay in the queue until a later fetch polls, and a full queue drops the awaited one (`bindings_wifi.cpp:373`) | `fetch_core`: `EveryFetchSettles` without `Dropped` |
| "Reachable only right after an app switch" (`bindings_wifi.cpp:428`): a `fetch()` in the `.then()` of the last one is refused without any | `fetch_core`: `RefusedOnlyAfterSwitch` |
| "A long-press always opens the launcher" (`docs/binding-api.md:192`): a script's launch request in the same pass wins | `supervisor_core`: `LongPressOpensLauncher` |
| A script that calls `sys.launch()` and then throws leaves its request behind: the launcher that replaces it is taken down for it (`jsvm_app.cpp:246`, against `js_bindings.h:100`) | `supervisor_core`: `NoOrphanLaunch` |
| A boot script that changes the pin rewrites the path it is itself loaded under (`jsvm_app.cpp:452`, `:243`) | `supervisor_core` with `PinsWhileBooting = TRUE`: `CurrentIsRunning` |
| Bindings validate their widget ("validate on every use", `jsvm_core.cpp:131`) and then convert their arguments, which may run script code that deletes it (`bindings_lv.cpp:538`) | `jsvm_ownership`: `~fault` as an invariant |
| Without any conversion that runs script: `apply_props()` sets a text field's `value` (`bindings_lv.cpp:302`), LVGL raises VALUE_CHANGED on it (`:205`, see `jsvm_core.cpp:172-174`), the handler deletes the field, and the rest of `apply_props()`, or the constructor, goes on with it | the same: `~fault` as an invariant |
| A stale widget handle "throws" (`docs/binding-api.md:226`) unless another widget was allocated at its address | `jsvm_ownership`: `StaleHandleRefused` |
| Whoever the runaway guard stops is never rendered again by a state write, `inst.dirty` being still set (`ui.js:208`) | `ui_flush`: `DirtyIsQueued` |
| A cleanup returned by an effect that unmounted its own component is never run (`ui.js:244`) | `ui_flush` with `EffectsRedraw = TRUE`: `GoneIsCleaned` |
| After 256 attempts a missing network counts as present again (`bindings_wifi.cpp:135`) | `wifi_core`: `MissingIsNoticed` without `~wrapped` |
| `wifi.save()` "stores the credentials in NVS and connects" (`docs/binding-api.md:143`) and returns true also when flash took one of the two strings, or neither (`bindings_wifi.cpp:181-184`); and `save("")` starts a connection that autoconnect refuses (`:165`) | `wifi_core`: `WantedIsStored` without `kept` |
| `now < g_next_attempt` across a wrap of `millis()`: attempts without a gap, or none for weeks (`bindings_wifi.cpp:123`) | `wifi_core` with `ClockMod = 8`, `Uptime = 20`: `WideningGap`, `KeepsAsking` |
| A full card leaves part of a script under the app's name, and the board says that it wrote it (`jsvm_app.cpp:288`) | `push_core` with `CardMayFill = TRUE`: `WroteIsWhole` (`VerifiedIsHeld` holds: the comparison finds it) |
| An answer that comes after push.ps1 stopped waiting, or a board that still reads, fails a push nothing was wrong with, or verifies one by the answer to an older (`push.ps1:138`) | `push_core` with `SlowBoard = TRUE`: `HealthyPushVerifies`, `VerifiedIsHeld` |
| A component that throws once among children without keys, where a widget is replaced: the next render throws for the deleted widget (`docs/ui-runtime.md:108`) | `ui_diff` with `Elements <- MCUnkeyed`: `KeyedRecovers` without `keyed` |
| `scroll` is reset when it is no longer given (`docs/ui-runtime.md:136`), to `true`, which `.set()` ignores (`bindings_lv.cpp:314`) | `ui_element` with `Elements <- MCScrolling`: `AsGoodAsNew` |
| A prop that goes from `true` to `undefined` without going away is not reset (`ui.js:436-444`): `hidden={undefined}` stays hidden | `ui_element` with `Elements <- MCUndefined`: `AsGoodAsNew` |
| A button whose string becomes a label element shows both, or the other way round writes into the label that was mounted (`ui.js:507`, `bindings_lv.cpp:161-170`) | `ui_element` with `Elements <- MCMixed`: `AsGoodAsNew` |
| A ref moved to an element further up, or to the replacement of a keyed element, ends up null: it is cleared after it was set (`ui.js:503-506`, `:577`, against `docs/ui-runtime.md:83`) | `ui_element`, `RefsAreCurrent` without `~shared` |

Two more that hold in the model as the code has them: a push that is interrupted leaves the board
uploading, so that the next push is appended to it, under the old path, and is aborted or found out by
its verification (`VerifiedIsHeld`); and an app-end counts towards the cap, so that a script that
fills it to the last character is refused (`UploadEndsUncapped` against `docs/build-and-deploy.md:109`).
And one that no property covers: a `wifi.forget()` that cannot open the preferences leaves the
credentials there (`bindings_wifi.cpp:195`), so that the next restart joins the network again
(`ForgottenStaysOffline` is about the time until then).

One remark that is no violation: "about a minute" (`js_bindings.h:88`) until a missing network is a
person's matter may be two, when the link had come back during the longest backoff
(`MissingIsNoticed` allows for it).

## 7. Not modelled, and the plan

What the plan has left, in the order it would be taken:

| | What | What for |
|---|---|---|
| | composition of `Fetch`'s teardown with `JsvmCore`'s stop step by step | so far `JsvmCore` has the functions that wait, `Fetch` the protocol; each assumes of the other what its runs show |
| | an app of the repository on top of `Fetch` and `UiScheduler` | `weather.jsx` retries only while it is offline: a fetch refused right after a switch waits for `REFRESH_MS` |
| | `memo()`, tabviews and list rows in `UiElement` | widgets made by their parent |

Left out for good, with reasons in `PROJECT.json`: drivers (register sequences), the vendored engine
(by far the most lines of the repository, and not its own), example apps, self tests and harness,
build tools (sequential text processing on a workstation), the frozen C dashboard. Of the bindings,
what only sets a style property or reads a value has no state to explore.
