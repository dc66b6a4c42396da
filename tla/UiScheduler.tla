----------------------------- MODULE UiScheduler -----------------------------
(***************************************************************************)
(* When the component runtime of app/lib/ui.js renders, and when it runs   *)
(* effects: state writes mark a component dirty, one promise job flushes   *)
(* what is dirty, rendering descends into children, effects run when the   *)
(* widgets are in place, and any of these may write state again.           *)
(*                                                                         *)
(* A name stands for one component instance: it is mounted once, and gone  *)
(* for good when unmounted.  Each has one state cell and one effect.  What *)
(* a component returns and writes is up to the app: its children are any.  *)
(* The stack holds the calls of the runtime under way, outermost first.    *)
(***************************************************************************)
EXTENDS Naturals, Sequences, FiniteSets

CONSTANTS
  Comps,            \* component instances
  Root,             \* the root of render(), a fragment
  MaxChain,         \* flushes in a row before the runaway guard (40)
  MaxQueue,         \* bound: length of the dirty list
  RendersSetState,  \* components may write state while they render
  MaxThrows,        \* bound: renders that throw
  EffectsRedraw     \* effects may call .update() or .unmount() of the handle

ASSUME UiAssumption ==
  /\ Root \notin Comps
  /\ MaxChain \in Nat \ {0} /\ MaxQueue \in Nat \ {0}
  /\ RendersSetState \in BOOLEAN /\ MaxThrows \in Nat /\ EffectsRedraw \in BOOLEAN

VARIABLES
  status,     \* unborn, mounted, gone (inst.gone)
  kids,       \* inst.kids
  fresh,      \* its last render read the state it has now
  flag,       \* inst.dirty
  pending,    \* how many effects inst.pending holds
  active,     \* s.cleanup: an effect is set up
  dirty,      \* the dirty list
  effects,    \* effectQueue
  scheduled,  \* a flush job is queued
  chain,      \* consecutive flushes
  pumping,    \* jsvm_pump() is draining the job queue
  stack,      \* calls under way
  failed,     \* whose last render was abandoned by a throw
  throws,     \* how many renders were
  dropped     \* whom the runaway guard took off the dirty list

queues == <<dirty, effects, scheduled>>
insts == <<status, kids, fresh, flag, pending, active>>
ghosts == <<failed, throws, dropped>>
vars == <<insts, queues, chain, pumping, stack, ghosts>>

Nodes == Comps \cup {Root}
Tasks == {"patch", "mount", "unmount"} \X Comps

\* A call of the runtime: what it does, for whom, and what it has left to do.
Frame == [do: {"flush", "update", "render", "diff", "effects", "batch", "effect"},
          of: Nodes, todo: SUBSET Tasks, next: SUBSET Comps, left: Nat]
Call(do, of) == [do |-> do, of |-> of, todo |-> {}, next |-> {}, left |-> 0]

Idle == stack = << >>
Top == stack[Len(stack)]
In(do) == ~Idle /\ Top.do = do
Below == SubSeq(stack, 1, Len(stack) - 1)
Queued(c) == \E i \in DOMAIN dirty : dirty[i] = c

Init ==
  /\ status = [c \in Comps |-> "unborn"]
  /\ kids = [n \in Nodes |-> {}]
  /\ fresh = [c \in Comps |-> TRUE]
  /\ flag = [c \in Comps |-> FALSE]
  /\ pending = [c \in Comps |-> 0] /\ active = [c \in Comps |-> FALSE]
  /\ dirty = << >> /\ effects = << >> /\ scheduled = FALSE
  /\ chain = 0 /\ pumping = FALSE /\ stack = << >>
  /\ failed = {} /\ throws = 0 /\ dropped = {}

-----------------------------------------------------------------------------
(* The app: event handlers and timers between pumps, effects, and whatever *)
(* runs inside a render.                                                   *)

ScriptRuns == \/ Idle /\ ~pumping
              \/ In("effect")
              \/ RendersSetState /\ (In("render") \/ In("diff"))

\* invalidate() and schedule()
Invalidate(c) ==
  IF status[c] = "gone" \/ flag[c]
  THEN UNCHANGED <<flag, dirty, scheduled>>
  ELSE /\ Len(dirty) < MaxQueue
       /\ flag' = [flag EXCEPT ![c] = TRUE]
       /\ dirty' = Append(dirty, c)
       /\ scheduled' = TRUE

\* cell.set() with a value that is not the one it has.
SetState(c) ==
  /\ ScriptRuns
  /\ status[c] # "unborn"
  /\ fresh' = [fresh EXCEPT ![c] = FALSE]
  /\ Invalidate(c)
  /\ UNCHANGED <<status, kids, pending, active, effects, chain, pumping, stack, ghosts>>

\* The children a node is to have: any it has, any new ones.
Plans(n) ==
  LET Planned(c) == \E i \in DOMAIN stack : <<"mount", c>> \in stack[i].todo IN
  {[do |-> "diff", of |-> n, next |-> keep \cup new, left |-> 0,
    todo |-> {<<"patch", k>> : k \in keep} \cup {<<"unmount", k>> : k \in kids[n] \ keep}
             \cup {<<"mount", k>> : k \in new}] :
   keep \in SUBSET kids[n],
   new \in SUBSET {c \in Comps : status[c] = "unborn" /\ ~Planned(c)}}

ScriptRedraws == (Idle /\ ~pumping) \/ (EffectsRedraw /\ In("effect"))

\* render(), and .update() of the handle it returns.
Redraw ==
  /\ ScriptRedraws
  /\ \E plan \in Plans(Root) : stack' = stack \o <<Call("update", Root), plan>>
  /\ UNCHANGED <<insts, queues, chain, pumping, ghosts>>

\* An instance and everything below it.
Subtree(c) == {x \in Comps : \A S \in SUBSET Comps :
                 c \in S /\ (\A y \in S : kids[y] \subseteq S) => x \in S}

\* Mutant of Unmounts: cleanups are left out.
UnmountsUncleaned(gone) ==
  /\ status' = [c \in Comps |-> IF c \in gone THEN "gone" ELSE status[c]]
  /\ pending' = [c \in Comps |-> IF c \in gone THEN 0 ELSE pending[c]]
  /\ UNCHANGED active

\* unmount()
Unmounts(gone) ==
  /\ status' = [c \in Comps |-> IF c \in gone THEN "gone" ELSE status[c]]
  /\ active' = [c \in Comps |-> IF c \in gone THEN FALSE ELSE active[c]]
  /\ pending' = [c \in Comps |-> IF c \in gone THEN 0 ELSE pending[c]]

\* .unmount() of the handle
UnmountTree ==
  /\ ScriptRedraws
  /\ Unmounts(UNION {Subtree(k) : k \in kids[Root]})
  /\ kids' = [kids EXCEPT ![Root] = {}]
  /\ UNCHANGED <<fresh, flag, queues, chain, pumping, stack, ghosts>>

-----------------------------------------------------------------------------
(* The host and flush().                                                   *)

PumpStarts ==
  /\ Idle /\ ~pumping /\ scheduled
  /\ pumping' = TRUE
  /\ UNCHANGED <<insts, queues, chain, stack, ghosts>>

PumpEnds ==
  /\ Idle /\ pumping /\ ~scheduled
  /\ pumping' = FALSE
  /\ UNCHANGED <<insts, queues, chain, stack, ghosts>>

\* Mutant of FlushStarts: flushes in a row are counted and not limited.
FlushStartsUnlimited ==
  /\ Idle /\ pumping /\ scheduled
  /\ scheduled' = FALSE
  /\ chain' = chain + 1
  /\ stack' = <<Call("flush", Root)>>
  /\ UNCHANGED <<insts, dirty, effects, pumping, ghosts>>

FlushStarts ==
  /\ Idle /\ pumping /\ scheduled
  /\ scheduled' = FALSE
  /\ chain < MaxChain
  /\ chain' = chain + 1
  /\ stack' = <<Call("flush", Root)>>
  /\ UNCHANGED <<insts, dirty, effects, pumping, ghosts>>

\* Mutant of FlushGivesUp: the guard only reports.
FlushGivesUpSoftly ==
  /\ Idle /\ pumping /\ scheduled
  /\ chain = MaxChain
  /\ scheduled' = FALSE /\ chain' = 0
  /\ stack' = <<Call("flush", Root)>>
  /\ UNCHANGED <<insts, dirty, effects, pumping, ghosts>>

\* The runaway guard: both lists are dropped.
FlushGivesUp ==
  /\ Idle /\ pumping /\ scheduled
  /\ chain = MaxChain
  /\ scheduled' = FALSE
  /\ chain' = 0
  /\ dirty' = << >> /\ effects' = << >>
  /\ dropped' = dropped \cup {c \in Comps : flag[c]}
  /\ UNCHANGED <<insts, pumping, stack, failed, throws>>

\* renderComponent() reads the state it is going to show.
RenderBegins(c, calls) ==
  /\ flag' = [flag EXCEPT ![c] = FALSE]
  /\ fresh' = [fresh EXCEPT ![c] = TRUE]
  /\ dropped' = dropped \ {c}
  /\ stack' = Append(calls, Call("render", c))

\* An instance a parent has patched meanwhile, or unmounted, is passed over.
FlushTakes ==
  LET c == Head(dirty) IN
  /\ In("flush") /\ dirty # << >>
  /\ dirty' = Tail(dirty)
  /\ IF flag[c] /\ status[c] # "gone" THEN RenderBegins(c, stack)
                                      ELSE UNCHANGED <<flag, fresh, dropped, stack>>
  /\ UNCHANGED <<status, kids, pending, active, effects, scheduled, chain, pumping,
                 failed, throws>>

\* Nothing dirty is left: runEffects(), for update() likewise.
RunEffects ==
  /\ \/ In("flush") /\ dirty = << >>
     \/ In("update")
  /\ stack' = Append(stack, Call("effects", Root))
  /\ UNCHANGED <<insts, queues, chain, pumping, ghosts>>

-----------------------------------------------------------------------------
(* renderComponent() and diffKids().                                       *)

\* The component's function returns its children, having asked for an effect
\* or not.
RenderReturns ==
  /\ In("render")
  /\ \E plan \in Plans(Top.of) : stack' = Append(Below, plan)
  /\ \E wanted \in {0, 1} : pending' = [pending EXCEPT ![Top.of] = @ + wanted]
  /\ UNCHANGED <<status, kids, fresh, flag, active, queues, chain, pumping, ghosts>>

Task(what, k) == In("diff") /\ <<what, k>> \in Top.todo
TaskDone(what, k) == Append(Below, [Top EXCEPT !.todo = @ \ {<<what, k>>}])

DiffPatches(k) ==
  /\ Task("patch", k)
  /\ RenderBegins(k, TaskDone("patch", k))
  /\ UNCHANGED <<status, kids, pending, active, queues, chain, pumping, failed, throws>>

DiffMounts(k) ==
  /\ Task("mount", k)
  /\ status' = [status EXCEPT ![k] = "mounted"]
  /\ RenderBegins(k, TaskDone("mount", k))
  /\ UNCHANGED <<kids, pending, active, queues, chain, pumping, failed, throws>>

DiffUnmounts(k) ==
  /\ Task("unmount", k)
  /\ Unmounts(Subtree(k))
  /\ stack' = TaskDone("unmount", k)
  /\ UNCHANGED <<kids, fresh, flag, queues, chain, pumping, ghosts>>

\* Mutant of DiffEnds: the effects a render asked for are not queued.
DiffEndsUnqueued ==
  /\ In("diff") /\ Top.todo = {}
  /\ kids' = [kids EXCEPT ![Top.of] = Top.next]
  /\ failed' = failed \ {Top.of}
  /\ stack' = Below
  /\ UNCHANGED <<status, fresh, flag, pending, active, queues, chain, pumping,
                 throws, dropped>>

DiffEnds ==
  /\ In("diff") /\ Top.todo = {}
  /\ kids' = [kids EXCEPT ![Top.of] = Top.next]
  /\ effects' = IF Top.of \in Comps /\ pending[Top.of] > 0 THEN Append(effects, Top.of) ELSE effects
  /\ failed' = failed \ {Top.of}
  /\ stack' = Below
  /\ UNCHANGED <<status, fresh, flag, pending, active, dirty, scheduled, chain, pumping,
                 throws, dropped>>

\* A component throws, or a widget call of the diff: everything up to the try
\* of flush(), or to the caller of update(), is abandoned as it is.
RenderThrows ==
  LET catch == CHOOSE i \in DOMAIN stack :
                 /\ stack[i].do \in {"flush", "update"}
                 /\ \A j \in i+1..Len(stack) : stack[j].do \notin {"flush", "update"}
  IN
  /\ throws < MaxThrows
  /\ In("render") \/ In("diff")
  /\ stack' = SubSeq(stack, 1, IF stack[catch].do = "flush" THEN catch ELSE catch - 1)
  /\ failed' = failed \cup {stack[i].of : i \in catch+1..Len(stack)}
  /\ throws' = throws + 1
  /\ UNCHANGED <<insts, queues, chain, pumping, dropped>>

-----------------------------------------------------------------------------
(* runEffects().                                                           *)

EffectsTake ==
  LET c == Head(effects) IN
  /\ In("effects") /\ effects # << >>
  /\ effects' = Tail(effects)
  /\ pending' = [pending EXCEPT ![c] = 0]
  /\ stack' = Append(stack, [Call("batch", c) EXCEPT !.left = pending[c]])
  /\ UNCHANGED <<status, kids, fresh, flag, active, dirty, scheduled, chain, pumping, ghosts>>

\* The cleanup of the last time, then the effect.
EffectBegins ==
  /\ In("batch") /\ Top.left > 0 /\ status[Top.of] # "gone"
  /\ active' = [active EXCEPT ![Top.of] = FALSE]
  /\ stack' = Below \o <<[Top EXCEPT !.left = @ - 1], Call("effect", Top.of)>>
  /\ UNCHANGED <<status, kids, fresh, flag, pending, queues, chain, pumping, ghosts>>

\* It returns a cleanup, or nothing, or throws.
EffectReturns ==
  /\ In("effect")
  /\ \E cleanup \in BOOLEAN : active' = [active EXCEPT ![Top.of] = cleanup]
  /\ stack' = Below
  /\ UNCHANGED <<status, kids, fresh, flag, pending, queues, chain, pumping, ghosts>>

BatchEnds ==
  /\ In("batch")
  /\ Top.left = 0 \/ status[Top.of] = "gone"
  /\ stack' = Below
  /\ UNCHANGED <<insts, queues, chain, pumping, ghosts>>

\* Mutant of EffectsEnd: flush() lowers scheduled at its end.
EffectsEndUnscheduled ==
  /\ In("effects") /\ effects = << >>
  /\ stack' = SubSeq(stack, 1, Len(stack) - 2)
  /\ scheduled' = FALSE
  /\ chain' = 0
  /\ UNCHANGED <<insts, dirty, effects, pumping, ghosts>>

\* The end of runEffects(), and of the flush() or update() that called it.
EffectsEnd ==
  /\ In("effects") /\ effects = << >>
  /\ stack' = SubSeq(stack, 1, Len(stack) - 2)
  /\ chain' = IF stack[Len(stack) - 1].do = "flush" /\ ~scheduled THEN 0 ELSE chain
  /\ UNCHANGED <<insts, queues, pumping, ghosts>>

-----------------------------------------------------------------------------
App == \/ \E c \in Comps : SetState(c)
       \/ Redraw \/ UnmountTree
Flush == PumpStarts \/ PumpEnds \/ FlushStarts \/ FlushGivesUp \/ FlushTakes \/ RunEffects
Render == \/ RenderReturns \/ DiffEnds \/ RenderThrows
          \/ \E k \in Comps : DiffPatches(k) \/ DiffMounts(k) \/ DiffUnmounts(k)
Effect == EffectsTake \/ EffectBegins \/ EffectReturns \/ BatchEnds \/ EffectsEnd

Next == App \/ Flush \/ Render \/ Effect

Spec == Init /\ [][Next]_vars

\* loop() keeps pumping, and components and effects return.
Fairness == WF_vars(Flush \/ Render \/ Effect)

FairSpec == Spec /\ Fairness

-----------------------------------------------------------------------------
TypeOK ==
  /\ status \in [Comps -> {"unborn", "mounted", "gone"}]
  /\ kids \in [Nodes -> SUBSET Comps]
  /\ fresh \in [Comps -> BOOLEAN]
  /\ flag \in [Comps -> BOOLEAN]
  /\ pending \in [Comps -> Nat] /\ active \in [Comps -> BOOLEAN]
  /\ dirty \in Seq(Comps) /\ Len(dirty) <= MaxQueue /\ effects \in Seq(Comps)
  /\ scheduled \in BOOLEAN /\ chain \in 0..MaxChain /\ pumping \in BOOLEAN
  /\ stack \in Seq(Frame)
  /\ failed \in SUBSET Nodes /\ throws \in 0..MaxThrows /\ dropped \in SUBSET Comps

-----------------------------------------------------------------------------
(* Properties.                                                             *)

Quiet == Idle /\ ~scheduled

\* No state write is lost: when nothing is queued, every component that is on
\* screen shows the state it has, except one whose render threw, or that the
\* runaway guard gave up on (docs/ui-runtime.md:48, ui.js:17-21).
QuietIsCurrent ==
  Quiet => \A c \in Comps :
    status[c] = "mounted" /\ c \notin failed \cup dropped => fresh[c]

\* The cleanup of an effect is run once more when its component goes away
\* (ui.js:146-147): no timer of useInterval outlives its component.
GoneIsCleaned == \A c \in Comps : status[c] = "gone" => ~active[c]

\* Every effect that was asked for has run when nothing is queued any more.
QuietHasRunEffects ==
  Quiet /\ throws = 0 => effects = << >> /\ \A c \in Comps : pending[c] = 0

\* A component that is dirty is on the list of those to be rendered: a state
\* write "marks the component dirty and returns; the render happens in a promise
\* microtask" (docs/ui-runtime.md:48).
DirtyIsQueued == \A c \in Comps : flag[c] /\ status[c] = "mounted" => Queued(c)

\* A component that sets state forever is stopped, not left spinning
\* (tools/test-ui.mjs:518, ui.js:203-205): the pump returns to loop().
PumpReturns == pumping ~> ~pumping

-----------------------------------------------------------------------------
(* The inductive invariant, for effects that do not redraw the tree: with  *)
(* one flush() or update() at the bottom of the stack, and nothing on an   *)
(* effect, a state write leads to a render or is on the way to one.        *)

ShapeInv ==
  /\ stack # << >> => stack[1].do \in {"flush", "update"}
  /\ \A i \in 1..Len(stack) :
       /\ stack[i].do \in {"flush", "update"} => i = 1
       /\ stack[i].do = "effects" => i = 2
       /\ stack[i].do \in {"render", "batch", "effect"} => stack[i].of \in Comps
       /\ stack[i].do = "effect" => i = Len(stack) /\ status[stack[i].of] # "gone"

\* flush() is still at its list, and not at the effects.
FlushGoesOn ==
  /\ stack # << >> /\ stack[1].do = "flush"
  /\ Len(stack) = 1 \/ stack[2].do \in {"render", "diff"}

\* What is not up to date is dirty, what is dirty is on the list, and the list
\* is being worked on or going to be.
CurrentInv ==
  /\ \A c \in Comps :
       /\ status[c] = "mounted" /\ c \notin failed \cup dropped => fresh[c] \/ flag[c]
       /\ flag[c] /\ status[c] # "gone" /\ c \notin dropped => Queued(c)
  /\ \A i \in 1..Len(stack) :
       stack[i].do \in {"render", "diff"} /\ stack[i].of \in Comps =>
         fresh[stack[i].of] \/ flag[stack[i].of] \/ status[stack[i].of] = "gone"
  /\ dirty # << >> => scheduled \/ FlushGoesOn

UiInv == TypeOK /\ ShapeInv /\ GoneIsCleaned /\ CurrentInv

\* Unless a render threw: an effect that was asked for belongs to a component on
\* the list of runEffects(), or to one whose children are still being diffed.
EffectInv ==
  throws = 0 =>
    /\ Idle => effects = << >>
    /\ \A c \in Comps : pending[c] > 0 =>
         \/ \E i \in 1..Len(effects) : effects[i] = c
         \/ \E i \in 1..Len(stack) : stack[i].do = "diff" /\ stack[i].of = c
=============================================================================
