------------------------------ MODULE JsvmCore ------------------------------
(***************************************************************************)
(* The ownership rules of jsvm_core.cpp: who holds a reference to a        *)
(* script's callback, when it is given back, what a widget handle is good  *)
(* for, and in which order jsvm_stop() takes the world down.               *)
(*                                                                         *)
(* All of it happens on the loop task, so what interleaves is calls within *)
(* calls: LVGL calls a trampoline, the trampoline calls the script, the    *)
(* script calls a binding that destroys the trampoline's own binding, sets *)
(* a value that has LVGL call another one, and so on.  The stack of those  *)
(* calls is a variable, and any of them may do the next thing.             *)
(*                                                                         *)
(* A binding and the function it was made for share a name: the name is    *)
(* taken again only when neither is left.  The wrapper an EventBinding     *)
(* holds is duplicated and freed with the function, and not counted apart. *)
(***************************************************************************)
EXTENDS Naturals, Sequences, FiniteSets

CONSTANTS
  Bindings,             \* EventBinding and TimerBinding blocks
  Widgets,              \* the addresses widgets are allocated at
  Screen,               \* the active screen, which is never deleted
  MaxMade,              \* bound: widgets made in the life of one VM
  MaxDepth              \* bound: calls within calls

ASSUME CoreAssumption ==
  /\ Screen \notin Widgets
  /\ MaxMade \in Nat /\ MaxDepth \in Nat

Objects == Widgets \cup {Screen}

VARIABLES
  phase,      \* of the VM: down, up, and the steps of jsvm_stop() in between
  stack,      \* the calls under way, outermost first
  events,     \* g_events
  timers,     \* g_timers
  hooks,      \* the bindings LVGL has event callbacks for
  lvTimers,   \* the bindings LVGL has an lv_timer for
  on,         \* b->obj
  refs,       \* the references C holds on each binding's function
  stoppable,  \* the bindings some timer handle's opaque points at
  scanning,   \* g_scan.cb, while a scan is active
  fetching,   \* g_fetch_resolve and g_fetch_reject, while a promise waits
  polls,      \* which of g_scan.poll and g_fetch_poll LVGL runs
  live,       \* the objects of LVGL's tree
  above,      \* the ancestors of each
  ident,      \* which widget an address is now (no such thing in the code)
  handles,    \* the widget handles the script ever got
  made,       \* widgets made by this VM
  fault       \* freed memory was touched

waits == <<scanning, fetching, polls>>
owned == <<events, timers, hooks, lvTimers, refs, stoppable, waits>>
tree == <<live, above, ident, made>>
vars == <<phase, stack, owned, on, tree, handles, fault>>

\* A piece of script the host runs, a callback, a binding at work on the object it
\* has unwrapped, or a constructor at work on the widget it has made.
Frame == [what: {"script", "callback", "native", "make"}, of: Bindings \cup Objects]
ScriptFrame == [what |-> "script", of |-> Screen]

Push(what, of) == stack' = Append(stack, [what |-> what, of |-> of])
Pop == stack' = SubSeq(stack, 1, Len(stack) - 1)
Top == stack[Len(stack)]
In(what) == stack # << >> /\ Top.what = what

\* A binding or a constructor is at work.
AtWork == In("native") \/ In("make")

\* Script code runs in every call: a binding that converts an argument or reads a
\* prop may call a toString() or a getter.
ScriptRuns == phase = "up" /\ stack # << >>

Init ==
  /\ phase = "down" /\ stack = << >>
  /\ events = {} /\ timers = {} /\ hooks = {} /\ lvTimers = {} /\ stoppable = {}
  /\ scanning = {} /\ fetching = {} /\ polls = {}
  /\ on = [b \in Bindings |-> Screen]
  /\ refs = [b \in Bindings |-> 0]
  /\ live = {Screen} /\ above = [o \in Objects |-> {}]
  /\ ident = [o \in Objects |-> 0] /\ made = 0
  /\ handles = {}
  /\ fault = FALSE

-----------------------------------------------------------------------------
(* The host: starting the VM, running pieces of script in it.              *)

\* jsvm_start(), as far as JS_Eval's call.
Start ==
  /\ phase = "down"
  /\ phase' = "up"
  /\ stack' = <<ScriptFrame>>
  /\ handles' = {[at |-> Screen, id |-> 0]}
  /\ made' = 0
  /\ UNCHANGED <<owned, on, live, above, ident, fault>>

\* A REPL line, or a promise job of jsvm_pump().
HostRunsScript ==
  /\ phase = "up" /\ stack = << >>
  /\ stack' = <<ScriptFrame>>
  /\ UNCHANGED <<phase, owned, on, tree, handles, fault>>

ScriptReturns ==
  /\ In("script")
  /\ Pop
  /\ UNCHANGED <<phase, owned, on, tree, handles, fault>>

-----------------------------------------------------------------------------
(* The trampolines: reference, call, release.                              *)

\* Mutant of Calls: the stored value is lent to JS_Call.
CallsBorrowed(b) ==
  /\ Len(stack) < MaxDepth
  /\ Push("callback", b)
  /\ fault' = (fault \/ b \notin events \cup timers \/ phase # "up")
  /\ UNCHANGED <<phase, owned, on, tree, handles>>

\* LVGL calls event_trampoline or timer_trampoline.
Calls(b) ==
  /\ Len(stack) < MaxDepth
  /\ Push("callback", b)
  /\ refs' = [refs EXCEPT ![b] = @ + 1]
  /\ fault' = (fault \/ b \notin events \cup timers \/ phase # "up")
  /\ UNCHANGED <<phase, events, timers, hooks, lvTimers, stoppable, waits, on, tree, handles>>

\* lv_timer_handler(): a timer is due, or an input device dispatches an event.
LvglDispatches(b) ==
  /\ phase \in {"up", "down"} /\ stack = << >>
  /\ b \in hooks \cup lvTimers
  /\ Calls(b)

\* In the middle of .set(), a constructor or .value(n), setting the text of a field
\* has LVGL raise an event on the object at work on.
SetValueRaises(b) ==
  /\ AtWork
  /\ b \in hooks /\ on[b] = Top.of
  /\ Calls(b)

\* The callback returns or throws; what it threw goes no further.
CallbackReturns ==
  /\ In("callback")
  /\ fault' = (fault \/ refs[Top.of] = 0)
  /\ refs' = [refs EXCEPT ![Top.of] = @ - 1]
  /\ Pop
  /\ UNCHANGED <<phase, events, timers, hooks, lvTimers, stoppable, waits, on, tree, handles>>

-----------------------------------------------------------------------------
(* Timers.                                                                 *)

Awaited == scanning \cup fetching
Unused(b) ==
  b \notin events \cup timers \cup hooks \cup lvTimers \cup Awaited /\ refs[b] = 0

\* jsvm_create_timer()
CreateTimer(b) ==
  /\ ScriptRuns
  /\ Unused(b)
  /\ timers' = timers \cup {b}
  /\ lvTimers' = lvTimers \cup {b}
  /\ stoppable' = stoppable \cup {b}
  /\ refs' = [refs EXCEPT ![b] = 1]
  /\ UNCHANGED <<phase, stack, events, hooks, waits, on, tree, handles, fault>>

Released(gone) == [b \in Bindings |-> IF b \in gone THEN refs[b] - 1 ELSE refs[b]]

\* Mutants of ReleaseTimers: the handle's opaque stays, the lv_timer stays.
ReleaseTimersOpaque(gone) ==
  /\ timers' = timers \ gone
  /\ lvTimers' = lvTimers \ gone
  /\ stoppable' = stoppable
  /\ refs' = Released(gone)
ReleaseTimersOnly(gone) ==
  /\ timers' = timers \ gone
  /\ lvTimers' = lvTimers
  /\ stoppable' = stoppable \ gone
  /\ refs' = Released(gone)

\* timer_release() of these
ReleaseTimers(gone) ==
  /\ timers' = timers \ gone
  /\ lvTimers' = lvTimers \ gone
  /\ stoppable' = stoppable \ gone
  /\ refs' = Released(gone)

\* t.stop(), a no-op once the opaque is null
StopTimer(b) ==
  /\ ScriptRuns
  /\ b \in stoppable
  /\ fault' = (fault \/ b \notin timers)
  /\ ReleaseTimers({b})
  /\ UNCHANGED <<phase, stack, events, hooks, waits, on, tree, handles>>

-----------------------------------------------------------------------------
(* The functions that wait for the network: wifi.scan(fn) and the two of a *)
(* fetch()'s promise, which share a name.  Each is polled by an lv_timer.  *)

\* js_wifi_scan() past its guards; one scan at a time.
ScanStarts(b) ==
  /\ ScriptRuns
  /\ scanning = {} /\ Unused(b)
  /\ scanning' = {b}
  /\ polls' = polls \cup {"scan"}
  /\ refs' = [refs EXCEPT ![b] = 1]
  /\ UNCHANGED <<phase, stack, events, timers, hooks, lvTimers, stoppable, fetching,
                 on, tree, handles, fault>>

\* js_fetch() once it has its promise; one at a time.
FetchStarts(b) ==
  /\ ScriptRuns
  /\ fetching = {} /\ Unused(b)
  /\ fetching' = {b}
  /\ polls' = polls \cup {"fetch"}
  /\ refs' = [refs EXCEPT ![b] = 1]
  /\ UNCHANGED <<phase, stack, events, timers, hooks, lvTimers, stoppable, scanning,
                 on, tree, handles, fault>>

\* scan_poll_timer() when the scan is over: a reference for the call, the scan
\* released, and then the call, which may start another.
ScanAnswers ==
  /\ phase \in {"up", "down"} /\ stack = << >>
  /\ "scan" \in polls
  /\ Len(stack) < MaxDepth
  /\ fault' = (fault \/ scanning = {} \/ phase # "up")
  /\ scanning' = {} /\ polls' = polls \ {"scan"}
  /\ \E b \in scanning : Push("callback", b)
  /\ UNCHANGED <<phase, events, timers, hooks, lvTimers, stoppable, refs, fetching,
                 on, tree, handles>>

\* fetch_poll_timer() with the answer to this request: settling a promise only
\* queues its jobs, so no script runs before the functions are freed.
FetchSettles ==
  /\ phase \in {"up", "down"} /\ stack = << >>
  /\ "fetch" \in polls
  /\ fault' = (fault \/ fetching = {} \/ phase # "up")
  /\ fetching' = {} /\ polls' = polls \ {"fetch"}
  /\ refs' = Released(fetching)
  /\ UNCHANGED <<phase, stack, events, timers, hooks, lvTimers, stoppable, scanning,
                 on, tree, handles>>

-----------------------------------------------------------------------------
(* Widgets and their handles.                                              *)

\* jsvm_arg_widget(): lv_obj_is_valid() looks for the address in the tree.
Accepted(h) == h.at \in live

\* A widget at any free address.
NewWidget(parent, w) ==
  /\ w \notin live /\ made < MaxMade
  /\ made' = made + 1
  /\ live' = live \cup {w}
  /\ above' = [above EXCEPT ![w] = above[parent] \cup {parent}]
  /\ ident' = [ident EXCEPT ![w] = made + 1]

\* js_lv_make() makes the widget, then applies the props to it.
MakeWidget(h, w) ==
  /\ ScriptRuns
  /\ Accepted(h)
  /\ Len(stack) < MaxDepth
  /\ NewWidget(h.at, w)
  /\ Push("make", w)
  /\ UNCHANGED <<phase, owned, on, handles, fault>>

\* The props are applied: the script gets its handle.
Made ==
  /\ In("make")
  /\ fault' = (fault \/ Top.of \notin live)
  /\ handles' = handles \cup {[at |-> Top.of, id |-> ident[Top.of]]}
  /\ Pop
  /\ UNCHANGED <<phase, owned, on, tree>>

Below(o) == {x \in live : o \in above[x]}

\* Mutant of Destroy: no LV_EVENT_DELETE hook.
DestroyUnhooked(gone) ==
  LET released == {b \in hooks : on[b] \in gone} IN
  /\ live' = live \ gone
  /\ hooks' = hooks \ released
  /\ UNCHANGED <<events, refs>>

\* LVGL deletes these objects; each LV_EVENT_DELETE hook releases its binding.
Destroy(gone) ==
  LET released == {b \in hooks : on[b] \in gone} IN
  /\ live' = live \ gone
  /\ events' = events \ released
  /\ hooks' = hooks \ released
  /\ refs' = Released(released)

\* widget.clean()
Clean(h) ==
  /\ ScriptRuns
  /\ Accepted(h)
  /\ Destroy(Below(h.at))
  /\ UNCHANGED <<phase, stack, timers, lvTimers, stoppable, waits, on,
                 above, ident, made, handles, fault>>

\* widget.delete(), which refuses the screen
Delete(h) ==
  /\ ScriptRuns
  /\ Accepted(h) /\ h.at # Screen
  /\ Destroy(Below(h.at) \cup {h.at})
  /\ UNCHANGED <<phase, stack, timers, lvTimers, stoppable, waits, on,
                 above, ident, made, handles, fault>>

\* A binding that takes arguments unwraps its handle, then converts them, and goes
\* on with the object whatever the script code it ran has done.
Unwrap(h) ==
  /\ ScriptRuns
  /\ Accepted(h)
  /\ Len(stack) < MaxDepth
  /\ Push("native", h.at)
  /\ UNCHANGED <<phase, owned, on, tree, handles, fault>>

\* set, value, push, index... touch the object for the last time.
Touch ==
  /\ In("native")
  /\ fault' = (fault \/ Top.of \notin live)
  /\ Pop
  /\ UNCHANGED <<phase, owned, on, tree, handles>>

\* The arguments of list.add() or tabview.addTab() are there; for a list that is
\* gone by now, see Touch.
AddWidget(w) ==
  /\ In("native") /\ Top.of \in live
  /\ NewWidget(Top.of, w)
  /\ handles' = handles \cup {[at |-> w, id |-> made + 1]}
  /\ Pop
  /\ UNCHANGED <<phase, owned, on, fault>>

\* The arguments of .on() are there: jsvm_bind_event(); for an object that is gone
\* by now, see Touch.
BindEvent(b) ==
  /\ In("native") /\ Top.of \in live
  /\ Unused(b)
  /\ events' = events \cup {b}
  /\ hooks' = hooks \cup {b}
  /\ on' = [on EXCEPT ![b] = Top.of]
  /\ refs' = [refs EXCEPT ![b] = 1]
  /\ Pop
  /\ UNCHANGED <<phase, timers, lvTimers, stoppable, waits, tree, handles, fault>>

\* A conversion throws before the object is touched, or the event was the last that
\* .value(n) had to do.
ReturnsUntouched ==
  /\ In("native")
  /\ Pop
  /\ UNCHANGED <<phase, owned, on, tree, handles, fault>>

-----------------------------------------------------------------------------
(* jsvm_stop(), called by the host with nothing of the VM on the stack.    *)

\* Mutant of StopNetwork: the functions are freed, their timers stay.
StopNetworkPolled ==
  /\ phase = "up" /\ stack = << >>
  /\ phase' = "offline"
  /\ refs' = Released(Awaited)
  /\ scanning' = {} /\ fetching' = {}
  /\ UNCHANGED <<stack, events, timers, hooks, lvTimers, stoppable, polls, on, tree,
                 handles, fault>>

\* js_teardown_wifi()
StopNetwork ==
  /\ phase = "up" /\ stack = << >>
  /\ phase' = "offline"
  /\ refs' = Released(Awaited)
  /\ scanning' = {} /\ fetching' = {} /\ polls' = {}
  /\ UNCHANGED <<stack, events, timers, hooks, lvTimers, stoppable, on, tree, handles,
                 fault>>

StopTimers ==
  /\ phase = "offline"
  /\ phase' = "cleaning"
  /\ fault' = (fault \/ \E b \in timers : refs[b] = 0)
  /\ ReleaseTimers(timers)
  /\ UNCHANGED <<stack, events, hooks, waits, on, tree, handles>>

\* lv_obj_clean(screen)
StopTree ==
  /\ phase = "cleaning"
  /\ phase' = "detaching"
  /\ Destroy(Below(Screen))
  /\ UNCHANGED <<stack, timers, lvTimers, stoppable, waits, on,
                 above, ident, made, handles, fault>>

\* What is left is bound to the screen itself.
StopScreen ==
  /\ phase = "detaching"
  /\ phase' = "freeing"
  /\ hooks' = hooks \ events
  /\ fault' = (fault \/ \E b \in events : on[b] \notin live)
  /\ refs' = Released(events)
  /\ events' = {}
  /\ UNCHANGED <<stack, timers, lvTimers, stoppable, waits, on, tree, handles>>

\* JS_FreeContext(), and every handle with it.
StopContext ==
  /\ phase = "freeing"
  /\ phase' = "down"
  /\ handles' = {}
  /\ stoppable' = {}
  /\ UNCHANGED <<stack, events, timers, hooks, lvTimers, refs, waits, on, tree, fault>>

-----------------------------------------------------------------------------
Host == Start \/ HostRunsScript \/ ScriptReturns
Trampoline == \/ \E b \in Bindings : LvglDispatches(b) \/ SetValueRaises(b)
              \/ CallbackReturns
Timer == \E b \in Bindings : CreateTimer(b) \/ StopTimer(b)
Widget == \/ \E h \in handles : \/ \E w \in Widgets : MakeWidget(h, w)
                                \/ Clean(h) \/ Delete(h) \/ Unwrap(h)
          \/ Made \/ Touch \/ ReturnsUntouched
          \/ \E w \in Widgets : AddWidget(w)
          \/ \E b \in Bindings : BindEvent(b)
Network == \/ \E b \in Bindings : ScanStarts(b) \/ FetchStarts(b)
           \/ ScanAnswers \/ FetchSettles
Stop == StopNetwork \/ StopTimers \/ StopTree \/ StopScreen \/ StopContext

Next == Host \/ Trampoline \/ Timer \/ Network \/ Widget \/ Stop

Spec == Init /\ [][Next]_vars

-----------------------------------------------------------------------------
TypeOK ==
  /\ phase \in {"down", "up", "offline", "cleaning", "detaching", "freeing"}
  /\ stack \in Seq(Frame)
  /\ events \in SUBSET Bindings /\ timers \in SUBSET Bindings
  /\ hooks \in SUBSET Bindings /\ lvTimers \in SUBSET Bindings
  /\ stoppable \in SUBSET Bindings
  /\ scanning \in SUBSET Bindings /\ fetching \in SUBSET Bindings
  /\ polls \in SUBSET {"scan", "fetch"}
  /\ on \in [Bindings -> Objects]
  /\ refs \in [Bindings -> Nat]
  /\ live \in SUBSET Objects /\ Screen \in live
  /\ above \in [Objects -> SUBSET Objects]
  /\ ident \in [Objects -> Nat] /\ made \in Nat
  /\ handles \in SUBSET [at: Objects, id: Nat]
  /\ fault \in BOOLEAN

-----------------------------------------------------------------------------
(* Properties.                                                             *)

\* The binding or constructor that goes on next has lost its object to the script
\* code it ran in between.
Undercut == AtWork /\ Top.of \notin live

\* Whatever a callback destroys, its own binding included, no freed binding,
\* function, widget or context is ever touched (jsvm_core.cpp:6-20), but for one
\* thing: an object that was there when a binding went to work on it and that a
\* script deletes which the binding itself runs, in an event (bindings_lv.cpp:205)
\* or in a conversion (:538).
NoFault == [][/\ fault' => fault \/ Undercut
              /\ Len(stack') > Len(stack) => ~Undercut']_vars

\* The calls of b among these.
CallsOf(b, calls) == {i \in DOMAIN calls : calls[i].what = "callback" /\ calls[i].of = b}

\* Every stored function is referenced once by its binding, or by the scan or
\* fetch it waits for, and once by each call of it under way: freed exactly
\* once, and never under a running call (jsvm_core.cpp:6-13).
RefsBalanced ==
  \A b \in Bindings :
    refs[b] = (IF b \in events \cup timers \cup Awaited THEN 1 ELSE 0)
              + Cardinality(CallsOf(b, stack))

\* LVGL calls back exactly what C holds: no list entry outlives its widget or
\* its timer, no callback is left pointing at freed JS, and no function waits
\* for the network with nothing to poll it.
LvglMatchesLists ==
  /\ hooks = events /\ lvTimers = timers
  /\ \A b \in events : on[b] \in live
  /\ stoppable = timers
  /\ "scan" \in polls <=> scanning # {}
  /\ "fetch" \in polls <=> fetching # {}

\* When the context is gone nothing of the VM is left for LVGL to call, and the
\* next app starts on an empty screen (jsvm_core.cpp:14-16).
NothingSurvivesStop ==
  phase \in {"freeing", "down"} =>
    /\ hooks = {} /\ lvTimers = {} /\ polls = {}
    /\ live = {Screen}
    /\ \A b \in Bindings : refs[b] = 0

\* A handle that is accepted is one to the widget the script got it for: kept
\* past the widget's end it throws (docs/binding-api.md:226, jsvm_core.cpp:17-20).
StaleHandleRefused == \A h \in handles : Accepted(h) => ident[h.at] = h.id

-----------------------------------------------------------------------------
(* The inductive invariant.                                                *)

\* Everything hangs off the screen, so cleaning the screen leaves it alone.
TreeInv ==
  /\ above[Screen] = {}
  /\ \A o \in live \ {Screen} : Screen \in above[o]

\* Nothing is under way in a VM that is down, and every call is of what it says.
StackInv ==
  /\ phase # "up" => stack = << >>
  /\ \A i \in DOMAIN stack :
       stack[i].of \in (IF stack[i].what = "callback" THEN Bindings ELSE Objects)

\* How far jsvm_stop() has come.
StopInv ==
  /\ phase # "up" => Awaited = {}
  /\ phase \notin {"up", "offline"} => timers = {}
  /\ phase \in {"detaching", "freeing", "down"} => live = {Screen}
  /\ phase \in {"freeing", "down"} => events = {}
  /\ events \cap timers = {}
  /\ (events \cup timers) \cap Awaited = {} /\ scanning \cap fetching = {}
  /\ \A b, c \in scanning : b = c

CoreInv == /\ TypeOK /\ RefsBalanced /\ LvglMatchesLists
           /\ TreeInv /\ StackInv /\ StopInv
=============================================================================
