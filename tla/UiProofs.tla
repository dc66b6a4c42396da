------------------------------ MODULE UiProofs ------------------------------
(***************************************************************************)
(* Proofs about UiScheduler for any set of components, any trees, any      *)
(* number of throws and with or without state written during a render: no  *)
(* state write is lost, and no effect outlives its component.  For effects *)
(* that do not redraw the tree themselves (~EffectsRedraw).                *)
(***************************************************************************)
EXTENDS UiScheduler, TLAPS

USE UiAssumption

\* Adding a call leaves those below where they are.
LEMMA PushFacts ==
  ASSUME NEW s \in Seq(Frame), NEW f \in Frame
  PROVE  /\ Append(s, f) \in Seq(Frame)
         /\ Len(Append(s, f)) = Len(s) + 1 /\ Len(s) \in Nat
         /\ \A i \in 1..Len(s) : Append(s, f)[i] = s[i]
         /\ Append(s, f)[Len(s) + 1] = f
         /\ Append(s, f) # << >>
OBVIOUS

\* Dropping calls from the top keeps those below.
LEMMA PrefixFacts ==
  ASSUME NEW s \in Seq(Frame), NEW n \in 0..Len(s)
  PROVE  /\ SubSeq(s, 1, n) \in Seq(Frame)
         /\ Len(SubSeq(s, 1, n)) = n
         /\ \A i \in 1..n : SubSeq(s, 1, n)[i] = s[i]
OBVIOUS

\* The innermost call is one of them.
LEMMA TopFacts ==
  ASSUME stack \in Seq(Frame), stack # << >>
  PROVE  /\ Len(stack) \in Nat \ {0} /\ Len(stack) \in 1..Len(stack)
         /\ 1 \in 1..Len(stack)
         /\ Top \in Frame /\ Top = stack[Len(stack)]
         /\ Below \in Seq(Frame) /\ Len(Below) = Len(stack) - 1
         /\ \A i \in 1..Len(Below) : Below[i] = stack[i] /\ i \in 1..Len(stack)
<1> DEFINE n == Len(stack) - 1
<1>1. n \in 0..Len(stack) /\ Len(stack) \in Nat \ {0}
  OBVIOUS
<1>2. Below = SubSeq(stack, 1, n)
  BY DEF Below
<1> HIDE DEF n
<1>3. /\ Below \in Seq(Frame) /\ Len(Below) = n
      /\ \A i \in 1..n : Below[i] = stack[i]
  BY <1>1, <1>2, PrefixFacts
<1> QED BY <1>1, <1>3 DEF Top, n

\* A call with nothing left to do yet.
LEMMA CallIsFrame ==
  ASSUME NEW do \in {"flush", "update", "render", "diff", "effects", "batch", "effect"},
         NEW of \in Nodes
  PROVE  /\ Call(do, of) \in Frame
         /\ Call(do, of).do = do /\ Call(do, of).of = of
BY DEF Call, Frame

\* What a plan is.
LEMMA PlanIsFrame ==
  ASSUME TypeOK, NEW n \in Nodes, NEW plan \in Plans(n)
  PROVE  plan \in Frame /\ plan.do = "diff" /\ plan.of = n
<1> DEFINE Planned(c) == \E i \in DOMAIN stack : <<"mount", c>> \in stack[i].todo
           born == {c \in Comps : status[c] = "unborn" /\ ~Planned(c)}
<1> HIDE DEF Planned
<1>1. PICK keep \in SUBSET kids[n], new \in SUBSET born :
        plan = [do |-> "diff", of |-> n, next |-> keep \cup new, left |-> 0,
                todo |-> {<<"patch", k>> : k \in keep}
                         \cup {<<"unmount", k>> : k \in kids[n] \ keep}
                         \cup {<<"mount", k>> : k \in new}]
  BY DEF Plans, Planned
<1>2. keep \in SUBSET Comps /\ new \in SUBSET Comps /\ kids[n] \in SUBSET Comps
  BY DEF TypeOK, Nodes
<1> DEFINE work == {<<"patch", k>> : k \in keep}
                   \cup {<<"unmount", k>> : k \in kids[n] \ keep}
                   \cup {<<"mount", k>> : k \in new}
<1>3. work \in SUBSET Tasks
  BY <1>2 DEF Tasks
<1> HIDE DEF work, born
<1>4. plan = [do |-> "diff", of |-> n, next |-> keep \cup new, left |-> 0, todo |-> work]
  BY <1>1 DEF work
<1> QED BY <1>2, <1>3, <1>4 DEF Frame

\* Nothing is mounted, nothing is queued.
LEMMA InitInv == Init => UiInv
<1> SUFFICES ASSUME Init PROVE UiInv
  OBVIOUS
<1>1. TypeOK
  <2>1. /\ dirty \in Seq(Comps) /\ Len(dirty) <= MaxQueue /\ effects \in Seq(Comps)
        /\ stack \in Seq(Frame)
    BY DEF Init
  <2>2. /\ status \in [Comps -> {"unborn", "mounted", "gone"}]
        /\ kids \in [Nodes -> SUBSET Comps]
        /\ fresh \in [Comps -> BOOLEAN] /\ flag \in [Comps -> BOOLEAN]
        /\ pending \in [Comps -> Nat] /\ active \in [Comps -> BOOLEAN]
    BY DEF Init
  <2>3. chain \in 0..MaxChain /\ throws \in 0..MaxThrows
    BY DEF Init
  <2>4. scheduled \in BOOLEAN /\ pumping \in BOOLEAN
        /\ failed \in SUBSET Nodes /\ dropped \in SUBSET Comps
    BY DEF Init
  <2> QED BY <2>1, <2>2, <2>3, <2>4 DEF TypeOK
<1>2. ShapeInv
  BY DEF Init, ShapeInv
<1>3. GoneIsCleaned
  BY DEF Init, GoneIsCleaned
<1>4. CurrentInv
  BY DEF Init, CurrentInv, Queued
<1> QED BY <1>1, <1>2, <1>3, <1>4 DEF UiInv

-----------------------------------------------------------------------------
(* The invariant as predicates of what the actions change, and how they    *)
(* fare when a call is added, replaced or given up.                        *)

\* ShapeInv, of these calls and these instances.
Shape(calls, st) ==
  /\ calls # << >> => calls[1].do \in {"flush", "update"}
  /\ \A i \in 1..Len(calls) :
       /\ calls[i].do \in {"flush", "update"} => i = 1
       /\ calls[i].do = "effects" => i = 2
       /\ calls[i].do \in {"render", "batch", "effect"} => calls[i].of \in Comps
       /\ calls[i].do = "effect" => i = Len(calls) /\ st[calls[i].of] # "gone"

\* Whoever is being rendered shows the state it has, or will be rendered again.
Rendering(calls, fr, fl, st) ==
  \A i \in 1..Len(calls) :
    calls[i].do \in {"render", "diff"} /\ calls[i].of \in Comps =>
      fr[calls[i].of] \/ fl[calls[i].of] \/ st[calls[i].of] = "gone"

\* flush() is still at its list.
GoesOn(calls) ==
  /\ calls # << >> /\ calls[1].do = "flush"
  /\ Len(calls) = 1 \/ calls[2].do \in {"render", "diff"}

\* What is dirty is on the list.
Listed(fl, st, given, list) ==
  \A c \in Comps : fl[c] /\ st[c] # "gone" /\ c \notin given =>
    \E i \in DOMAIN list : list[i] = c

\* What is on screen and not up to date is dirty.
Marked(fr, fl, st, excused) ==
  \A c \in Comps : st[c] = "mounted" /\ c \notin excused => fr[c] \/ fl[c]

\* The parts make up the invariant, before a step and after it.
LEMMA Parts ==
  /\ ShapeInv <=> Shape(stack, status)
  /\ CurrentInv <=>
       /\ Marked(fresh, flag, status, failed \cup dropped)
       /\ Listed(flag, status, dropped, dirty)
       /\ Rendering(stack, fresh, flag, status)
       /\ dirty # << >> => scheduled \/ GoesOn(stack)
BY DEF ShapeInv, Shape, CurrentInv, Marked, Listed, Rendering, GoesOn, FlushGoesOn, Queued

\* The same, of the state after a step.
LEMMA PartsPrimed ==
  /\ ShapeInv' <=> Shape(stack', status')
  /\ CurrentInv' <=>
       /\ Marked(fresh', flag', status', failed' \cup dropped')
       /\ Listed(flag', status', dropped', dirty')
       /\ Rendering(stack', fresh', flag', status')
       /\ dirty' # << >> => scheduled' \/ GoesOn(stack')
BY DEF ShapeInv, Shape, CurrentInv, Marked, Listed, Rendering, GoesOn, FlushGoesOn, Queued

\* A render or a diff on top of anything but an effect.
LEMMA WorkOnTop ==
  ASSUME NEW s \in Seq(Frame), NEW st, NEW f \in Frame, s # << >>,
         Shape(s, st), s[Len(s)].do # "effect",
         f.do \in {"render", "diff"}, f.do = "render" => f.of \in Comps
  PROVE  Shape(Append(s, f), st)
<1> DEFINE t == Append(s, f)
<1>1. /\ t \in Seq(Frame) /\ Len(t) = Len(s) + 1 /\ Len(s) \in Nat \ {0} /\ t # << >>
      /\ \A i \in 1..Len(s) : t[i] = s[i]
      /\ t[Len(s) + 1] = f
  OBVIOUS
<1> HIDE DEF t
<1>2. \A i \in 1..Len(t) : i = Len(s) + 1 \/ i \in 1..Len(s)
  BY <1>1
<1>3. \A i \in 1..Len(s) : s[i].do # "effect"
  BY <1>1 DEF Shape
<1>4. Shape(t, st)
  BY <1>1, <1>2, <1>3 DEF Shape
<1> QED BY <1>4 DEF t

\* Calls given up from the top.
LEMMA ShapePrefix ==
  ASSUME NEW s \in Seq(Frame), NEW st, NEW n \in 0..Len(s), Shape(s, st),
         n < Len(s)
  PROVE  /\ Shape(SubSeq(s, 1, n), st)
         /\ \A i \in 1..n : SubSeq(s, 1, n)[i].do # "effect"
<1> DEFINE t == SubSeq(s, 1, n)
<1>1. t \in Seq(Frame) /\ Len(t) = n /\ (\A i \in 1..n : t[i] = s[i])
  BY PrefixFacts
<1>2. t # << >> => 1 \in 1..n
  BY <1>1
<1>3. \A i \in 1..n : i \in 1..Len(s) /\ i # Len(s)
  OBVIOUS
<1> HIDE DEF t
<1>4. Shape(t, st) /\ \A i \in 1..n : t[i].do # "effect"
  BY <1>1, <1>2, <1>3 DEF Shape
<1> QED BY <1>4 DEF t

\* Nothing but the end of an instance's life concerns a stack without effects.
LEMMA ShapeOfOthers ==
  ASSUME NEW s, NEW st, NEW st2, Shape(s, st),
         \A i \in 1..Len(s) : s[i].do # "effect"
  PROVE  Shape(s, st2)
BY DEF Shape
\* A call pushed: whoever it renders must be up to date or dirty.
LEMMA RenderingPush ==
  ASSUME NEW s \in Seq(Frame), NEW f \in Frame, NEW fr, NEW fl, NEW st,
         Rendering(s, fr, fl, st),
         f.do \in {"render", "diff"} /\ f.of \in Comps => fr[f.of] \/ fl[f.of] \/ st[f.of] = "gone"
  PROVE  Rendering(Append(s, f), fr, fl, st)
<1> DEFINE t == Append(s, f)
<1>1. /\ Len(t) = Len(s) + 1 /\ Len(s) \in Nat
      /\ \A i \in 1..Len(s) : t[i] = s[i]
      /\ t[Len(s) + 1] = f
  OBVIOUS
<1> HIDE DEF t
<1>2. \A i \in 1..Len(t) : i = Len(s) + 1 \/ i \in 1..Len(s)
  BY <1>1
<1>3. Rendering(t, fr, fl, st)
  BY <1>1, <1>2 DEF Rendering
<1> QED BY <1>3 DEF t

\* Calls given up: those left are as they were.
LEMMA RenderingPrefix ==
  ASSUME NEW s \in Seq(Frame), NEW n \in 0..Len(s), NEW fr, NEW fl, NEW st,
         Rendering(s, fr, fl, st)
  PROVE  Rendering(SubSeq(s, 1, n), fr, fl, st)
<1> DEFINE t == SubSeq(s, 1, n)
<1>1. Len(t) = n /\ (\A i \in 1..n : t[i] = s[i])
  BY PrefixFacts
<1> HIDE DEF t
<1>2. Rendering(t, fr, fl, st)
  BY <1>1 DEF Rendering
<1> QED BY <1>2 DEF t

\* Below is such a prefix.
LEMMA BelowFacts ==
  ASSUME TypeOK, ShapeInv, CurrentInv, stack # << >>
  PROVE  /\ Shape(Below, status) /\ Rendering(Below, fresh, flag, status)
         /\ \A i \in 1..Len(Below) : Below[i].do # "effect"
<1> DEFINE n == Len(stack) - 1
<1>1. stack \in Seq(Frame) /\ n \in 0..Len(stack) /\ n < Len(stack)
  BY DEF TypeOK
<1>2. Below = SubSeq(stack, 1, n)
  BY DEF Below
<1> HIDE DEF n
<1>3. Shape(stack, status) /\ Rendering(stack, fresh, flag, status)
  BY Parts
<1>4. Shape(SubSeq(stack, 1, n), status)
      /\ \A i \in 1..n : SubSeq(stack, 1, n)[i].do # "effect"
  BY <1>1, <1>3, ShapePrefix
<1>5. Rendering(SubSeq(stack, 1, n), fresh, flag, status) /\ Len(SubSeq(stack, 1, n)) = n
  BY <1>1, <1>3, RenderingPrefix, PrefixFacts
<1> QED BY <1>2, <1>4, <1>5

\* Steps that leave the components and the calls alone.
LEMMA Apart ==
  ASSUME UiInv, UNCHANGED <<insts, dirty, stack, failed, dropped>>,
         scheduled => scheduled' \/ GoesOn(stack)
  PROVE  ShapeInv' /\ GoneIsCleaned' /\ CurrentInv'
<1> USE DEF UiInv, insts
<1>1. ShapeInv' /\ GoneIsCleaned'
  BY DEF ShapeInv, GoneIsCleaned
<1>2. CurrentInv'
  BY Parts, PartsPrimed
<1> QED BY <1>1, <1>2

-----------------------------------------------------------------------------
(* The app.                                                                *)

\* A state write is marked, and what is marked is listed.
LEMMA SetStateInv ==
  ASSUME UiInv, NEW c \in Comps, SetState(c)
  PROVE  UiInv'
<1> USE DEF UiInv, SetState, ghosts
<1>1. CASE status[c] = "gone" \/ flag[c]
  <2>1. UNCHANGED <<status, flag, dirty, scheduled, stack, failed, dropped, active>>
        /\ fresh' = [fresh EXCEPT ![c] = FALSE]
    BY <1>1 DEF Invalidate
  <2>2. TypeOK'
    BY <2>1 DEF TypeOK
  <2>3. ShapeInv' /\ GoneIsCleaned'
    BY <2>1 DEF ShapeInv, GoneIsCleaned
  <2>4. Marked(fresh', flag', status', failed' \cup dropped')
    BY <1>1, <2>1, Parts DEF Marked, TypeOK
  <2>5. Rendering(stack', fresh', flag', status')
    BY <1>1, <2>1, Parts DEF Rendering, TypeOK
  <2>6. Listed(flag', status', dropped', dirty') /\ (dirty' # << >> => scheduled' \/ GoesOn(stack'))
    BY <2>1, Parts
  <2> QED BY <2>2, <2>3, <2>4, <2>5, <2>6, PartsPrimed
<1>2. CASE ~(status[c] = "gone" \/ flag[c])
  <2>1. /\ UNCHANGED <<status, stack, failed, dropped, active>>
        /\ fresh' = [fresh EXCEPT ![c] = FALSE] /\ flag' = [flag EXCEPT ![c] = TRUE]
        /\ dirty' = Append(dirty, c) /\ scheduled' = TRUE /\ Len(dirty) < MaxQueue
    BY <1>2 DEF Invalidate
  <2>2. TypeOK'
    <3>1. dirty' \in Seq(Comps) /\ Len(dirty') <= MaxQueue
      BY <2>1 DEF TypeOK
    <3> QED BY <2>1, <3>1 DEF TypeOK
  <2>3. ShapeInv' /\ GoneIsCleaned'
    BY <2>1 DEF ShapeInv, GoneIsCleaned
  <2>4. Marked(fresh', flag', status', failed' \cup dropped')
    BY <2>1, Parts DEF Marked, TypeOK
  <2>5. Rendering(stack', fresh', flag', status')
    BY <2>1, Parts DEF Rendering, TypeOK
  <2>6. Listed(flag', status', dropped', dirty')
    <3>1. /\ DOMAIN dirty = 1..Len(dirty) /\ DOMAIN dirty' = 1..(Len(dirty) + 1)
          /\ Len(dirty) \in Nat /\ dirty'[Len(dirty) + 1] = c
          /\ \A i \in 1..Len(dirty) : dirty'[i] = dirty[i]
      BY <2>1 DEF TypeOK
    <3>2. Len(dirty) + 1 \in DOMAIN dirty' /\ \A i \in DOMAIN dirty : i \in DOMAIN dirty'
      BY <3>1
    <3> QED BY <2>1, <3>1, <3>2, Parts DEF Listed, TypeOK
  <2> QED BY <2>1, <2>2, <2>3, <2>4, <2>5, <2>6, PartsPrimed
<1> QED BY <1>1, <1>2

\* A redraw begins with nothing else under way.
LEMMA RedrawInv ==
  ASSUME ~EffectsRedraw, UiInv, Redraw
  PROVE  UiInv'
<1> USE DEF UiInv, ghosts
<1>1. stack = << >> /\ UNCHANGED <<insts, queues, chain, pumping, ghosts>>
  BY DEF Redraw, ScriptRedraws, Idle
<1>2. PICK plan \in Plans(Root) : stack' = stack \o <<Call("update", Root), plan>>
  BY DEF Redraw
<1>3. plan \in Frame /\ plan.do = "diff" /\ plan.of = Root /\ Root \notin Comps
  BY PlanIsFrame DEF Nodes
<1>4. /\ Call("update", Root) \in Frame /\ Call("update", Root).do = "update"
      /\ Call("update", Root).of = Root
  BY CallIsFrame DEF Nodes
<1>5. /\ stack' \in Seq(Frame) /\ Len(stack') = 2 /\ stack' # << >>
      /\ stack'[1] = Call("update", Root) /\ stack'[2] = plan
  BY <1>1, <1>2, <1>3, <1>4
<1>6. \A i \in 1..Len(stack') : i = 1 \/ i = 2
  BY <1>5
<1>7. TypeOK'
  BY <1>1, <1>5 DEF TypeOK, insts, queues
<1>8. Shape(stack', status')
  BY <1>3, <1>4, <1>5, <1>6 DEF Shape
<1>9. GoneIsCleaned'
  BY <1>1 DEF GoneIsCleaned, insts
<1>10. Rendering(stack', fresh', flag', status')
  BY <1>3, <1>4, <1>5, <1>6 DEF Rendering
<1>11. dirty' # << >> => scheduled' \/ GoesOn(stack')
  BY <1>1, Parts DEF GoesOn, queues
<1>12. Marked(fresh', flag', status', failed' \cup dropped')
       /\ Listed(flag', status', dropped', dirty')
  BY <1>1, Parts DEF insts, queues
<1> QED BY <1>7, <1>8, <1>9, <1>10, <1>11, <1>12, PartsPrimed

\* Whoever is unmounted has its effects cleaned up, and is of no more concern.
LEMMA UnmountsFacts ==
  ASSUME UiInv, NEW gone, Unmounts(gone)
  PROVE  /\ status' \in [Comps -> {"unborn", "mounted", "gone"}]
         /\ active' \in [Comps -> BOOLEAN] /\ pending' \in [Comps -> Nat]
         /\ \A c \in Comps : status'[c] = "gone" \/ status'[c] = status[c]
         /\ GoneIsCleaned'
         /\ Marked(fresh, flag, status', failed \cup dropped)
         /\ Listed(flag, status', dropped, dirty)
         /\ \A calls : Rendering(calls, fresh, flag, status) => Rendering(calls, fresh, flag, status')
<1> USE DEF UiInv, Unmounts
<1>1. /\ status' \in [Comps -> {"unborn", "mounted", "gone"}]
      /\ active' \in [Comps -> BOOLEAN] /\ pending' \in [Comps -> Nat]
  BY DEF TypeOK
<1>2. \A c \in Comps : status'[c] = "gone" \/ status'[c] = status[c]
  OBVIOUS
<1>3. GoneIsCleaned'
  BY DEF GoneIsCleaned, TypeOK
<1>4. Marked(fresh, flag, status', failed \cup dropped)
  BY <1>2, Parts DEF Marked
<1>5. Listed(flag, status', dropped, dirty)
  BY <1>2, Parts DEF Listed
<1>6. \A calls : Rendering(calls, fresh, flag, status) => Rendering(calls, fresh, flag, status')
  BY <1>2 DEF Rendering
<1> QED BY <1>1, <1>2, <1>3, <1>4, <1>5, <1>6

\* .unmount() of the handle, with nothing under way.
LEMMA UnmountTreeInv ==
  ASSUME ~EffectsRedraw, UiInv, UnmountTree
  PROVE  UiInv'
<1> DEFINE gone == UNION {Subtree(k) : k \in kids[Root]}
<1> HIDE DEF gone
<1>1. /\ stack = << >> /\ Unmounts(gone) /\ kids' = [kids EXCEPT ![Root] = {}]
      /\ UNCHANGED <<fresh, flag, queues, chain, pumping, stack, ghosts>>
  BY DEF UnmountTree, ScriptRedraws, Idle, gone
<1>2. TypeOK'
  BY <1>1, UnmountsFacts DEF UiInv, TypeOK, queues, ghosts
<1>3. Shape(stack', status')
  BY <1>1 DEF Shape
<1>4. Rendering(stack', fresh', flag', status')
  BY <1>1 DEF Rendering
<1>5. /\ Marked(fresh', flag', status', failed' \cup dropped')
      /\ Listed(flag', status', dropped', dirty') /\ GoneIsCleaned'
  BY <1>1, UnmountsFacts DEF ghosts, queues
<1>6. dirty' # << >> => scheduled' \/ GoesOn(stack')
  BY <1>1, Parts DEF UiInv, queues
<1> QED BY <1>2, <1>3, <1>4, <1>5, <1>6, PartsPrimed DEF UiInv
-----------------------------------------------------------------------------
(* flush() and the calls it makes.                                         *)

\* Giving up the innermost call leaves flush() where it was, or back at its list.
LEMMA GoesOnBelow ==
  ASSUME stack \in Seq(Frame), stack # << >>, ShapeInv, GoesOn(stack),
         Top.do \notin {"flush", "update"}
  PROVE  GoesOn(Below)
<1>1. Len(stack) >= 2
  BY TopFacts DEF GoesOn
<1>2. /\ Len(Below) = Len(stack) - 1 /\ 1 \in 1..Len(Below) /\ Below[1] = stack[1]
      /\ Len(Below) >= 2 => Below[2] = stack[2] /\ Len(stack) # 1
  BY <1>1, TopFacts
<1>3. Below # << >>
  BY <1>2
<1>4. Len(Below) = 1 \/ Len(Below) >= 2
  BY <1>2, TopFacts
<1> QED BY <1>2, <1>3, <1>4 DEF GoesOn

\* A call more, above the first two, makes no difference.
LEMMA GoesOnPush ==
  ASSUME NEW s \in Seq(Frame), NEW f \in Frame, s # << >>,
         Len(s) >= 2 \/ f.do \in {"render", "diff"}, GoesOn(s)
  PROVE  GoesOn(Append(s, f))
<1> DEFINE t == Append(s, f)
<1>1. /\ Len(s) \in Nat \ {0} /\ Len(t) = Len(s) + 1 /\ t # << >>
      /\ \A i \in 1..Len(s) : t[i] = s[i]
      /\ t[Len(s) + 1] = f
  OBVIOUS
<1> HIDE DEF t
<1>2. t[1] = s[1]
  BY <1>1
<1>3. CASE Len(s) >= 2
  <2>1. t[2] = s[2] /\ Len(s) # 1
    BY <1>1, <1>3
  <2> QED BY <1>1, <1>2, <2>1 DEF GoesOn, t
<1>4. CASE Len(s) = 1
  <2>1. t[2] = f /\ f.do \in {"render", "diff"}
    BY <1>1, <1>4
  <2> QED BY <1>1, <1>2, <2>1 DEF GoesOn, t
<1>5. Len(s) = 1 \/ Len(s) >= 2
  <2>1. Len(s) \in Nat \ {0}
    BY <1>1
  <2> DEFINE n == Len(s)
  <2>2. n \in Nat \ {0}
    BY <2>1
  <2> HIDE DEF n
  <2>3. n = 1 \/ n >= 2
    BY <2>2
  <2> QED BY <2>3 DEF n
<1> QED BY <1>3, <1>4, <1>5 DEF t

\* renderComponent() is entered: what it reads is the state there is.
LEMMA BeginFacts ==
  ASSUME UiInv, NEW c \in Comps, NEW calls \in Seq(Frame), RenderBegins(c, calls),
         calls # << >>, Shape(calls, status), Rendering(calls, fresh, flag, status),
         \A i \in 1..Len(calls) : calls[i].do # "effect",
         \A x \in Comps : x = c \/ status'[x] = status[x],
         UNCHANGED failed
  PROVE  /\ fresh' \in [Comps -> BOOLEAN] /\ flag' \in [Comps -> BOOLEAN]
         /\ dropped' \in SUBSET Comps /\ stack' \in Seq(Frame)
         /\ Shape(stack', status') /\ Rendering(stack', fresh', flag', status')
         /\ Marked(fresh', flag', status', failed' \cup dropped')
         /\ Listed(flag', status', dropped', dirty)
<1> USE DEF UiInv
<1>1. /\ flag' = [flag EXCEPT ![c] = FALSE] /\ fresh' = [fresh EXCEPT ![c] = TRUE]
      /\ dropped' = dropped \ {c} /\ stack' = Append(calls, Call("render", c))
  BY DEF RenderBegins
<1>2. /\ fresh' \in [Comps -> BOOLEAN] /\ flag' \in [Comps -> BOOLEAN]
      /\ dropped' \in SUBSET Comps /\ fresh'[c] = TRUE /\ flag'[c] = FALSE
      /\ \A x \in Comps : x # c => fresh'[x] = fresh[x] /\ flag'[x] = flag[x]
  BY <1>1 DEF TypeOK
<1>3. /\ Call("render", c) \in Frame /\ Call("render", c).do = "render"
      /\ Call("render", c).of = c
  BY CallIsFrame DEF Nodes
<1>4. stack' \in Seq(Frame)
  BY <1>1, <1>3
<1>5. Len(calls) \in 1..Len(calls)
  OBVIOUS
<1>6. Shape(calls, status')
  BY ShapeOfOthers
<1>7. Shape(stack', status')
  BY <1>1, <1>3, <1>5, <1>6, WorkOnTop
<1>8. Rendering(calls, fresh', flag', status')
  BY <1>2 DEF Rendering
<1>9. Rendering(stack', fresh', flag', status')
  BY <1>1, <1>2, <1>3, <1>8, RenderingPush
<1>10. Marked(fresh', flag', status', failed' \cup dropped')
  BY <1>1, <1>2, Parts DEF Marked
<1>11. Listed(flag', status', dropped', dirty)
  BY <1>1, <1>2, Parts DEF Listed
<1> QED BY <1>2, <1>4, <1>7, <1>9, <1>10, <1>11

\* The first of the list is rendered, or has been, or is gone.
LEMMA FlushTakesInv ==
  ASSUME UiInv, FlushTakes
  PROVE  UiInv'
<1> USE DEF UiInv
<1> DEFINE c == Head(dirty)
<1>1. /\ stack # << >> /\ Top.do = "flush" /\ dirty # << >> /\ dirty' = Tail(dirty)
      /\ UNCHANGED <<status, kids, pending, active, effects, scheduled, chain, pumping,
                     failed, throws>>
  BY DEF FlushTakes, In, Idle
<1>2. /\ c \in Comps /\ dirty' \in Seq(Comps) /\ Len(dirty') <= MaxQueue
      /\ DOMAIN dirty = 1..Len(dirty) /\ DOMAIN dirty' = 1..Len(dirty')
      /\ dirty[1] = c /\ \A i \in 2..Len(dirty) : i - 1 \in DOMAIN dirty' /\ dirty'[i - 1] = dirty[i]
  BY <1>1 DEF TypeOK
<1>3. stack \in Seq(Frame) /\ Len(stack) = 1 /\ stack[1].do = "flush"
  BY <1>1, TopFacts DEF TypeOK, ShapeInv
<1>4. GoesOn(stack)
  BY <1>1, <1>3 DEF GoesOn
<1>5. GoneIsCleaned'
  BY <1>1 DEF GoneIsCleaned
<1>6. CASE flag[c] /\ status[c] # "gone"
  <2>1. RenderBegins(c, stack)
    BY <1>6 DEF FlushTakes
  <2>2. \A i \in 1..Len(stack) : stack[i].do # "effect"
    BY <1>3
  <2>3. Shape(stack, status) /\ Rendering(stack, fresh, flag, status)
    BY Parts
  <2>4. /\ fresh' \in [Comps -> BOOLEAN] /\ flag' \in [Comps -> BOOLEAN]
        /\ dropped' \in SUBSET Comps /\ stack' \in Seq(Frame)
        /\ Shape(stack', status') /\ Rendering(stack', fresh', flag', status')
        /\ Marked(fresh', flag', status', failed' \cup dropped')
        /\ Listed(flag', status', dropped', dirty)
    BY <1>1, <1>2, <1>3, <2>1, <2>2, <2>3, BeginFacts
  <2>5. TypeOK'
    BY <1>1, <1>2, <2>4 DEF TypeOK
  <2>6. flag'[c] = FALSE
    BY <1>2, <2>1 DEF RenderBegins, TypeOK
  <2>7. Listed(flag', status', dropped', dirty')
    <3> SUFFICES ASSUME NEW x \in Comps, flag'[x], status'[x] # "gone", x \notin dropped'
                 PROVE  \E i \in DOMAIN dirty' : dirty'[i] = x
      BY DEF Listed
    <3>1. PICK i \in DOMAIN dirty : dirty[i] = x
      BY <2>4 DEF Listed
    <3>2. x # c
      BY <2>6
    <3>3. i # 1 /\ i \in 2..Len(dirty)
      BY <1>2, <3>1, <3>2
    <3> QED BY <1>2, <3>1, <3>3
  <2>8. GoesOn(stack')
    <3>1. stack' = Append(stack, Call("render", c)) /\ Call("render", c) \in Frame
          /\ Call("render", c).do = "render"
      BY <1>2, <2>1, CallIsFrame DEF RenderBegins, Nodes
    <3> QED BY <1>1, <1>3, <1>4, <3>1, GoesOnPush
  <2> QED BY <1>5, <2>4, <2>5, <2>7, <2>8, PartsPrimed
<1>7. CASE ~(flag[c] /\ status[c] # "gone")
  <2>1. UNCHANGED <<flag, fresh, dropped, stack>>
    BY <1>7 DEF FlushTakes
  <2>2. TypeOK'
    BY <1>1, <1>2, <2>1 DEF TypeOK
  <2>3. Listed(flag', status', dropped', dirty')
    <3> SUFFICES ASSUME NEW x \in Comps, flag[x], status[x] # "gone", x \notin dropped
                 PROVE  \E i \in DOMAIN dirty' : dirty'[i] = x
      BY <1>1, <2>1 DEF Listed
    <3>1. PICK i \in DOMAIN dirty : dirty[i] = x
      BY Parts DEF Listed
    <3>2. i # 1 /\ i \in 2..Len(dirty)
      BY <1>2, <1>7, <3>1
    <3> QED BY <1>2, <3>1, <3>2
  <2>4. Shape(stack', status') /\ Rendering(stack', fresh', flag', status')
        /\ Marked(fresh', flag', status', failed' \cup dropped')
    BY <1>1, <2>1, Parts
  <2>5. GoesOn(stack')
    BY <1>4, <2>1
  <2> QED BY <1>5, <2>2, <2>3, <2>4, <2>5, PartsPrimed
<1> QED BY <1>6, <1>7

\* The host pumps, flush() begins, gives up, or turns to the effects.
LEMMA FlushInv ==
  ASSUME UiInv, Flush
  PROVE  UiInv'
<1> USE DEF UiInv
<1>1. CASE PumpStarts \/ PumpEnds
  <2>1. pumping' \in BOOLEAN /\ UNCHANGED <<insts, queues, chain, stack, ghosts>>
    BY <1>1 DEF PumpStarts, PumpEnds
  <2>2. TypeOK'
    BY <2>1 DEF TypeOK, insts, queues, ghosts
  <2> QED BY <2>1, <2>2, Apart DEF queues, ghosts
<1>2. CASE FlushStarts
  <2>1. /\ stack = << >> /\ chain < MaxChain /\ chain' = chain + 1 /\ scheduled' = FALSE
        /\ stack' = <<Call("flush", Root)>>
        /\ UNCHANGED <<insts, dirty, effects, pumping, ghosts>>
    BY <1>2 DEF FlushStarts, Idle
  <2>2. Call("flush", Root) \in Frame /\ Call("flush", Root).do = "flush"
    BY CallIsFrame DEF Nodes
  <2>3. /\ stack' \in Seq(Frame) /\ Len(stack') = 1 /\ stack' # << >>
        /\ stack'[1].do = "flush" /\ \A i \in 1..Len(stack') : i = 1
    BY <2>1, <2>2
  <2>4. TypeOK'
    <3>1. chain' \in 0..MaxChain
      BY <2>1 DEF TypeOK
    <3>2. scheduled' \in BOOLEAN
      BY <2>1
    <3> QED BY <2>1, <2>3, <3>1, <3>2 DEF TypeOK, insts, ghosts
  <2>5. Shape(stack', status') /\ Rendering(stack', fresh', flag', status')
    BY <2>3 DEF Shape, Rendering
  <2>6. GoesOn(stack')
    BY <2>3 DEF GoesOn
  <2>7. Marked(fresh', flag', status', failed' \cup dropped')
        /\ Listed(flag', status', dropped', dirty') /\ GoneIsCleaned'
    BY <2>1, Parts DEF insts, ghosts, GoneIsCleaned
  <2> QED BY <2>4, <2>5, <2>6, <2>7, PartsPrimed
<1>3. CASE FlushGivesUp
  <2>1. /\ stack = << >> /\ chain' = 0 /\ scheduled' = FALSE
        /\ dirty' = << >> /\ effects' = << >>
        /\ dropped' = dropped \cup {c \in Comps : flag[c]}
        /\ UNCHANGED <<insts, pumping, stack, failed, throws>>
    BY <1>3 DEF FlushGivesUp, Idle
  <2>2. TypeOK'
    <3>1. dirty' \in Seq(Comps) /\ Len(dirty') <= MaxQueue /\ effects' \in Seq(Comps)
          /\ dropped' \in SUBSET Comps /\ chain' \in 0..MaxChain
      BY <2>1 DEF TypeOK
    <3> QED BY <2>1, <3>1 DEF TypeOK, insts
  <2>3. Shape(stack', status') /\ Rendering(stack', fresh', flag', status') /\ GoneIsCleaned'
    BY <2>1, Parts DEF insts, GoneIsCleaned
  <2>4. Marked(fresh', flag', status', failed' \cup dropped')
    BY <2>1, Parts DEF Marked, insts
  <2>5. Listed(flag', status', dropped', dirty')
    BY <2>1 DEF Listed, insts
  <2> QED BY <2>1, <2>2, <2>3, <2>4, <2>5, PartsPrimed
<1>4. CASE FlushTakes
  BY <1>4, FlushTakesInv
<1>5. CASE RunEffects
  <2>1. /\ stack # << >> /\ Top.do \in {"flush", "update"}
        /\ Top.do = "flush" => dirty = << >>
        /\ stack' = Append(stack, Call("effects", Root))
        /\ UNCHANGED <<insts, queues, chain, pumping, ghosts>>
    BY <1>5 DEF RunEffects, In, Idle
  <2>2. /\ Call("effects", Root) \in Frame /\ Call("effects", Root).do = "effects"
    BY CallIsFrame DEF Nodes
  <2>3. stack \in Seq(Frame) /\ Len(stack) = 1 /\ stack[1] = Top
    BY <2>1, TopFacts DEF TypeOK, ShapeInv
  <2>4. /\ stack' \in Seq(Frame) /\ Len(stack') = 2 /\ stack' # << >>
        /\ stack'[1] = stack[1] /\ stack'[2].do = "effects"
        /\ \A i \in 1..Len(stack') : i = 1 \/ i = 2
    <3> DEFINE f == Call("effects", Root)
    <3>1. f \in Frame /\ f.do = "effects" /\ stack' = Append(stack, f)
      BY <2>1, <2>2
    <3> HIDE DEF f
    <3>2. /\ Append(stack, f) \in Seq(Frame) /\ Len(Append(stack, f)) = Len(stack) + 1
          /\ \A i \in 1..Len(stack) : Append(stack, f)[i] = stack[i]
          /\ Append(stack, f)[Len(stack) + 1] = f
          /\ Append(stack, f) # << >>
      BY <2>3, <3>1, PushFacts
    <3>3. /\ stack' \in Seq(Frame) /\ Len(stack') = Len(stack) + 1 /\ stack' # << >>
          /\ \A i \in 1..Len(stack) : stack'[i] = stack[i]
          /\ stack'[Len(stack) + 1] = f
      BY <3>1, <3>2, Zenon
    <3>4. Len(stack') = 2 /\ stack'[1] = stack[1] /\ stack'[2] = f
      BY <2>3, <3>3
    <3>5. \A i \in 1..Len(stack') : i = 1 \/ i = 2
      BY <3>4
    <3> QED BY <3>1, <3>3, <3>4, <3>5
  <2>5. TypeOK'
    BY <2>1, <2>4 DEF TypeOK, insts, queues, ghosts
  <2>6. Shape(stack', status')
    BY <2>1, <2>3, <2>4 DEF Shape
  <2>7. Rendering(stack', fresh', flag', status')
    BY <2>1, <2>3, <2>4 DEF Rendering
  <2>8. Marked(fresh', flag', status', failed' \cup dropped')
        /\ Listed(flag', status', dropped', dirty') /\ GoneIsCleaned'
    BY <2>1, Parts DEF insts, queues, ghosts, GoneIsCleaned
  <2>9. dirty' # << >> => scheduled'
    BY <2>1, <2>3, Parts DEF GoesOn, queues
  <2> QED BY <2>5, <2>6, <2>7, <2>8, <2>9, PartsPrimed
<1> QED BY <1>1, <1>2, <1>3, <1>4, <1>5 DEF Flush
-----------------------------------------------------------------------------
(* renderComponent() and diffKids().                                       *)

\* The innermost call, a render or a diff, becomes a diff of the same node.
LEMMA ReplaceFacts ==
  ASSUME UiInv, stack # << >>, Top.do \in {"render", "diff"},
         NEW f \in Frame, f.do = "diff", f.of = Top.of
  PROVE  LET calls == Append(Below, f) IN
         /\ calls \in Seq(Frame) /\ calls # << >> /\ Len(calls) >= 2
         /\ Shape(calls, status) /\ Rendering(calls, fresh, flag, status)
         /\ \A i \in 1..Len(calls) : calls[i].do # "effect"
         /\ GoesOn(stack) => GoesOn(calls)
<1> USE DEF UiInv
<1> DEFINE calls == Append(Below, f)
<1>1. stack \in Seq(Frame) /\ Shape(stack, status) /\ Rendering(stack, fresh, flag, status)
  BY Parts DEF TypeOK
<1>2. Len(stack) >= 2
  BY <1>1, TopFacts DEF Shape
<1>3. /\ Below \in Seq(Frame) /\ Len(Below) = Len(stack) - 1 /\ Below # << >>
      /\ Top = stack[Len(stack)] /\ Len(stack) \in 1..Len(stack)
      /\ 1 \in 1..Len(Below) /\ Below[1] = stack[1] /\ Len(Below) \in 1..Len(Below)
  BY <1>1, <1>2, TopFacts
<1>4. /\ Shape(Below, status) /\ Rendering(Below, fresh, flag, status)
      /\ \A i \in 1..Len(Below) : Below[i].do # "effect"
  BY BelowFacts
<1>5. /\ calls \in Seq(Frame) /\ Len(calls) = Len(stack) /\ calls # << >>
      /\ \A i \in 1..Len(Below) : calls[i] = Below[i]
      /\ calls[Len(Below) + 1] = f
  BY <1>3, PushFacts
<1>6. Shape(calls, status)
  BY <1>3, <1>4, WorkOnTop
<1>7. Rendering(calls, fresh, flag, status)
  <2>1. f.of \in Comps => fresh[f.of] \/ flag[f.of] \/ status[f.of] = "gone"
    BY <1>1, <1>3 DEF Rendering
  <2> QED BY <1>3, <1>4, <2>1, RenderingPush
<1> HIDE DEF calls
<1>8. \A i \in 1..Len(calls) : calls[i].do # "effect"
  <2>1. \A i \in 1..Len(calls) : i = Len(Below) + 1 \/ i \in 1..Len(Below)
    BY <1>2, <1>3, <1>5
  <2> QED BY <1>4, <1>5, <2>1
<1>9. ASSUME GoesOn(stack) PROVE GoesOn(calls)
  <2>1. GoesOn(Below)
    BY <1>1, <1>3, <1>9, GoesOnBelow
  <2> QED BY <1>3, <2>1, GoesOnPush DEF calls
<1> QED BY <1>2, <1>5, <1>6, <1>7, <1>8, <1>9 DEF calls

\* A diff with one thing less to do.
LEMMA TaskFacts ==
  ASSUME UiInv, NEW what \in {"patch", "mount", "unmount"}, NEW k \in Comps, Task(what, k)
  PROVE  /\ stack # << >> /\ Top.do = "diff"
         /\ TaskDone(what, k) \in Seq(Frame) /\ TaskDone(what, k) # << >>
         /\ Len(TaskDone(what, k)) >= 2
         /\ Shape(TaskDone(what, k), status)
         /\ Rendering(TaskDone(what, k), fresh, flag, status)
         /\ \A i \in 1..Len(TaskDone(what, k)) : TaskDone(what, k)[i].do # "effect"
         /\ GoesOn(stack) => GoesOn(TaskDone(what, k))
<1> DEFINE f == [Top EXCEPT !.todo = @ \ {<<what, k>>}]
<1>1. stack # << >> /\ Top.do = "diff" /\ Top \in Frame
  BY TopFacts DEF Task, In, Idle, UiInv, TypeOK
<1>2. f \in Frame /\ f.do = "diff" /\ f.of = Top.of
  BY <1>1 DEF Frame
<1>3. TaskDone(what, k) = Append(Below, f)
  BY DEF TaskDone
<1> HIDE DEF f
<1> QED BY <1>1, <1>2, <1>3, ReplaceFacts

\* The component's function has returned: what it returned is diffed.
LEMMA RenderReturnsInv ==
  ASSUME UiInv, RenderReturns
  PROVE  UiInv'
<1> USE DEF UiInv
<1>1. /\ stack # << >> /\ Top.do = "render"
      /\ UNCHANGED <<status, kids, fresh, flag, active, queues, chain, pumping, ghosts>>
  BY DEF RenderReturns, In, Idle
<1>2. Top.of \in Comps
  BY <1>1, TopFacts DEF TypeOK, ShapeInv
<1>3. PICK plan \in Plans(Top.of) : stack' = Append(Below, plan)
  BY DEF RenderReturns
<1>4. plan \in Frame /\ plan.do = "diff" /\ plan.of = Top.of
  BY <1>2, PlanIsFrame DEF Nodes
<1>5. /\ stack' \in Seq(Frame)
      /\ Shape(stack', status) /\ Rendering(stack', fresh, flag, status)
      /\ GoesOn(stack) => GoesOn(stack')
  BY <1>1, <1>3, <1>4, ReplaceFacts
<1>6. pending' \in [Comps -> Nat]
  BY <1>2 DEF RenderReturns, TypeOK
<1>7. TypeOK'
  BY <1>1, <1>5, <1>6 DEF TypeOK, queues, ghosts
<1>8. GoneIsCleaned'
  BY <1>1 DEF GoneIsCleaned
<1> QED BY <1>1, <1>5, <1>7, <1>8, Parts, PartsPrimed DEF queues, ghosts

\* A child that stays is rendered again.
LEMMA DiffPatchesInv ==
  ASSUME UiInv, NEW k \in Comps, DiffPatches(k)
  PROVE  UiInv'
<1> USE DEF UiInv
<1> DEFINE calls == TaskDone("patch", k)
<1>1. /\ Task("patch", k) /\ RenderBegins(k, calls)
      /\ UNCHANGED <<status, kids, pending, active, queues, chain, pumping, failed, throws>>
  BY DEF DiffPatches
<1>2. /\ calls \in Seq(Frame) /\ calls # << >> /\ Len(calls) >= 2
      /\ Shape(calls, status) /\ Rendering(calls, fresh, flag, status)
      /\ \A i \in 1..Len(calls) : calls[i].do # "effect"
      /\ GoesOn(stack) => GoesOn(calls)
  BY <1>1, TaskFacts
<1> HIDE DEF calls
<1>3. /\ fresh' \in [Comps -> BOOLEAN] /\ flag' \in [Comps -> BOOLEAN]
      /\ dropped' \in SUBSET Comps /\ stack' \in Seq(Frame)
      /\ Shape(stack', status') /\ Rendering(stack', fresh', flag', status')
      /\ Marked(fresh', flag', status', failed' \cup dropped')
      /\ Listed(flag', status', dropped', dirty)
  BY <1>1, <1>2, BeginFacts
<1>4. GoesOn(calls) => GoesOn(stack')
  <2>1. stack' = Append(calls, Call("render", k)) /\ Call("render", k) \in Frame
    BY <1>1, CallIsFrame DEF RenderBegins, Nodes
  <2> QED BY <1>2, <2>1, GoesOnPush
<1>5. TypeOK'
  BY <1>1, <1>3 DEF TypeOK, queues
<1>6. GoneIsCleaned'
  BY <1>1 DEF GoneIsCleaned
<1> QED BY <1>1, <1>2, <1>3, <1>4, <1>5, <1>6, Parts, PartsPrimed DEF queues

\* A new child is rendered for the first time.
LEMMA DiffMountsInv ==
  ASSUME UiInv, NEW k \in Comps, DiffMounts(k)
  PROVE  UiInv'
<1> USE DEF UiInv
<1> DEFINE calls == TaskDone("mount", k)
<1>1. /\ Task("mount", k) /\ RenderBegins(k, calls)
      /\ status' = [status EXCEPT ![k] = "mounted"]
      /\ UNCHANGED <<kids, pending, active, queues, chain, pumping, failed, throws>>
  BY DEF DiffMounts
<1>2. /\ calls \in Seq(Frame) /\ calls # << >> /\ Len(calls) >= 2
      /\ Shape(calls, status) /\ Rendering(calls, fresh, flag, status)
      /\ \A i \in 1..Len(calls) : calls[i].do # "effect"
      /\ GoesOn(stack) => GoesOn(calls)
  BY <1>1, TaskFacts
<1> HIDE DEF calls
<1>3. /\ status' \in [Comps -> {"unborn", "mounted", "gone"}] /\ status'[k] = "mounted"
      /\ \A x \in Comps : x = k \/ status'[x] = status[x]
  BY <1>1 DEF TypeOK
<1>4. /\ fresh' \in [Comps -> BOOLEAN] /\ flag' \in [Comps -> BOOLEAN]
      /\ dropped' \in SUBSET Comps /\ stack' \in Seq(Frame)
      /\ Shape(stack', status') /\ Rendering(stack', fresh', flag', status')
      /\ Marked(fresh', flag', status', failed' \cup dropped')
      /\ Listed(flag', status', dropped', dirty)
  BY <1>1, <1>2, <1>3, BeginFacts
<1>5. GoesOn(calls) => GoesOn(stack')
  <2>1. stack' = Append(calls, Call("render", k)) /\ Call("render", k) \in Frame
    BY <1>1, CallIsFrame DEF RenderBegins, Nodes
  <2> QED BY <1>2, <2>1, GoesOnPush
<1>6. TypeOK'
  BY <1>1, <1>3, <1>4 DEF TypeOK, queues
<1>7. GoneIsCleaned'
  BY <1>1, <1>3 DEF GoneIsCleaned
<1> QED BY <1>1, <1>2, <1>4, <1>5, <1>6, <1>7, Parts, PartsPrimed DEF queues

\* A child that is not wanted goes, with all below it.
LEMMA DiffUnmountsInv ==
  ASSUME UiInv, NEW k \in Comps, DiffUnmounts(k)
  PROVE  UiInv'
<1> USE DEF UiInv
<1> DEFINE calls == TaskDone("unmount", k)
<1>1. /\ Task("unmount", k) /\ Unmounts(Subtree(k)) /\ stack' = calls
      /\ UNCHANGED <<kids, fresh, flag, queues, chain, pumping, ghosts>>
  BY DEF DiffUnmounts
<1>2. /\ calls \in Seq(Frame)
      /\ Shape(calls, status) /\ Rendering(calls, fresh, flag, status)
      /\ \A i \in 1..Len(calls) : calls[i].do # "effect"
      /\ GoesOn(stack) => GoesOn(calls)
  BY <1>1, TaskFacts
<1> HIDE DEF calls
<1> DEFINE gone == Subtree(k)
<1> HIDE DEF gone
<1>3. Unmounts(gone)
  BY <1>1 DEF gone
<1>4. /\ status' \in [Comps -> {"unborn", "mounted", "gone"}]
      /\ active' \in [Comps -> BOOLEAN] /\ pending' \in [Comps -> Nat]
      /\ GoneIsCleaned'
      /\ Marked(fresh, flag, status', failed \cup dropped)
      /\ Listed(flag, status', dropped, dirty)
      /\ Rendering(calls, fresh, flag, status')
  BY <1>2, <1>3, UnmountsFacts
<1>5. Shape(calls, status')
  BY <1>2, ShapeOfOthers
<1>6. TypeOK'
  BY <1>1, <1>2, <1>4 DEF TypeOK, queues, ghosts
<1> QED BY <1>1, <1>2, <1>4, <1>5, <1>6, Parts, PartsPrimed DEF queues, ghosts

\* The node has its new children, and a turn of its effects if it asked for one.
LEMMA DiffEndsInv ==
  ASSUME UiInv, DiffEnds
  PROVE  UiInv'
<1> USE DEF UiInv
<1>1. /\ stack # << >> /\ Top.do = "diff" /\ stack' = Below
      /\ kids' = [kids EXCEPT ![Top.of] = Top.next] /\ failed' = failed \ {Top.of}
      /\ effects' = effects \/ (Top.of \in Comps /\ effects' = Append(effects, Top.of))
      /\ UNCHANGED <<status, fresh, flag, pending, active, dirty, scheduled, chain, pumping,
                     throws, dropped>>
  BY DEF DiffEnds, In, Idle
<1>2. /\ Top \in Frame /\ Top = stack[Len(stack)] /\ Len(stack) \in 1..Len(stack)
      /\ Below \in Seq(Frame) /\ stack \in Seq(Frame)
  BY <1>1, TopFacts DEF TypeOK
<1>3. Shape(Below, status) /\ Rendering(Below, fresh, flag, status)
  BY <1>1, BelowFacts
<1>4. GoesOn(stack) => GoesOn(Below)
  BY <1>1, <1>2, GoesOnBelow
<1>5. TypeOK'
  <2>1. kids' \in [Nodes -> SUBSET Comps] /\ failed' \in SUBSET Nodes
    BY <1>1, <1>2 DEF TypeOK, Frame
  <2>2. effects' \in Seq(Comps)
    <3>1. effects \in Seq(Comps)
      BY DEF TypeOK
    <3>2. CASE effects' = effects
      BY <3>1, <3>2
    <3>3. CASE Top.of \in Comps /\ effects' = Append(effects, Top.of)
      BY <3>1, <3>3
    <3> QED BY <1>1, <3>2, <3>3
  <2> QED BY <1>1, <1>2, <2>1, <2>2 DEF TypeOK
<1>6. GoneIsCleaned'
  BY <1>1 DEF GoneIsCleaned
<1>7. Marked(fresh', flag', status', failed' \cup dropped')
  <2> SUFFICES ASSUME NEW c \in Comps, status[c] = "mounted", c \notin failed' \cup dropped
               PROVE  fresh[c] \/ flag[c]
    BY <1>1 DEF Marked
  <2>1. CASE c = Top.of
    BY <1>1, <1>2, <2>1, Parts DEF Rendering
  <2>2. CASE c # Top.of
    BY <1>1, <2>2, Parts DEF Marked
  <2> QED BY <2>1, <2>2
<1>8. Listed(flag', status', dropped', dirty') /\ (dirty' # << >> => scheduled' \/ GoesOn(stack'))
  BY <1>1, <1>4, Parts
<1> QED BY <1>1, <1>3, <1>5, <1>6, <1>7, <1>8, PartsPrimed
\* A render throws: flush() goes on with its list, update() is given up.
LEMMA RenderThrowsInv ==
  ASSUME UiInv, RenderThrows
  PROVE  UiInv'
<1> USE DEF UiInv
<1> DEFINE catch == CHOOSE i \in DOMAIN stack :
                      /\ stack[i].do \in {"flush", "update"}
                      /\ \A j \in i+1..Len(stack) : stack[j].do \notin {"flush", "update"}
           n == IF stack[catch].do = "flush" THEN catch ELSE catch - 1
           thrown == {stack[i].of : i \in catch+1..Len(stack)}
<1>1. /\ stack # << >> /\ Top.do \in {"render", "diff"} /\ throws < MaxThrows
      /\ stack' = SubSeq(stack, 1, n) /\ failed' = failed \cup thrown /\ throws' = throws + 1
      /\ UNCHANGED <<insts, queues, chain, pumping, dropped>>
  BY DEF RenderThrows, In, Idle
<1>2. /\ stack \in Seq(Frame) /\ DOMAIN stack = 1..Len(stack) /\ 1 \in 1..Len(stack)
      /\ stack[1].do \in {"flush", "update"} /\ Len(stack) \in Nat
      /\ \A i \in 1..Len(stack) : stack[i].do \in {"flush", "update"} => i = 1
  <2> HIDE DEF catch, n, thrown
  <2>1. stack # << >> /\ stack \in Seq(Frame)
    BY <1>1 DEF TypeOK
  <2>2. DOMAIN stack = 1..Len(stack) /\ 1 \in 1..Len(stack) /\ Len(stack) \in Nat
    BY <2>1
  <2>3. /\ stack[1].do \in {"flush", "update"}
        /\ \A i \in 1..Len(stack) : stack[i].do \in {"flush", "update"} => i = 1
    BY <2>1 DEF ShapeInv
  <2> QED BY <2>1, <2>2, <2>3
<1>3. catch = 1
  <2> DEFINE Catches(i) == /\ stack[i].do \in {"flush", "update"}
                           /\ \A j \in i+1..Len(stack) : stack[j].do \notin {"flush", "update"}
  <2>1. \A j \in 2..Len(stack) : j \in 1..Len(stack) /\ j # 1
    OBVIOUS
  <2>2. Catches(1)
    BY <1>2, <2>1
  <2>3. \A i \in DOMAIN stack : Catches(i) => i = 1
    BY <1>2
  <2>4. 1 \in DOMAIN stack
    BY <1>2
  <2> QED BY <2>2, <2>3, <2>4
<1>4. n \in 0..1 /\ thrown = {stack[i].of : i \in 2..Len(stack)}
  <2> HIDE DEF catch
  <2>1. catch + 1 = 2 /\ catch - 1 = 0
    BY <1>3
  <2>2. n \in 0..1
    BY <1>3, <2>1
  <2>3. thrown = {stack[i].of : i \in 2..Len(stack)}
    BY <2>1
  <2> QED BY <2>2, <2>3
<1> HIDE DEF catch
<1>5. Len(stack) >= 2 /\ n < Len(stack) /\ n \in 0..Len(stack)
  <2>1. Len(stack) # 1
    BY <1>1, <1>2, TopFacts
  <2> QED BY <1>2, <1>4, <2>1
<1>6. n = IF stack[1].do = "flush" THEN 1 ELSE 0
  BY <1>3
<1> HIDE DEF n
<1>7. thrown \in SUBSET Nodes
  <2>1. \A i \in 2..Len(stack) : i \in 1..Len(stack) /\ stack[i] \in Frame
    BY <1>2
  <2>2. \A i \in 2..Len(stack) : stack[i].of \in Nodes
    BY <2>1 DEF Frame
  <2> QED BY <1>4, <2>2
<1> HIDE DEF thrown
<1>8. /\ stack' \in Seq(Frame) /\ Len(stack') = n /\ \A i \in 1..n : stack'[i] = stack[i]
      /\ Shape(stack', status) /\ Rendering(stack', fresh, flag, status)
  BY <1>1, <1>2, <1>5, Parts, PrefixFacts, ShapePrefix, RenderingPrefix
<1>9. TypeOK'
  <2>1. throws' \in 0..MaxThrows
    BY <1>1 DEF TypeOK
  <2>2. failed' \in SUBSET Nodes
    BY <1>1, <1>7 DEF TypeOK
  <2> QED BY <1>1, <1>8, <2>1, <2>2 DEF TypeOK, insts, queues
<1>10. GoneIsCleaned'
  BY <1>1 DEF GoneIsCleaned, insts
<1>11. Marked(fresh', flag', status', failed' \cup dropped')
  BY <1>1, Parts DEF Marked, insts
<1>12. GoesOn(stack) => GoesOn(stack')
  <2> SUFFICES ASSUME GoesOn(stack) PROVE GoesOn(stack')
    OBVIOUS
  <2>1. n = 1
    BY <1>6 DEF GoesOn
  <2>2. Len(stack') = 1 /\ stack' # << >> /\ stack'[1] = stack[1]
    BY <1>8, <2>1
  <2> QED BY <2>2 DEF GoesOn
<1>13. Listed(flag', status', dropped', dirty') /\ (dirty' # << >> => scheduled' \/ GoesOn(stack'))
  BY <1>1, <1>12, Parts DEF insts, queues
<1> QED BY <1>1, <1>8, <1>9, <1>10, <1>11, <1>13, PartsPrimed DEF insts

\* The component runtime renders.
LEMMA RenderInv ==
  ASSUME UiInv, Render
  PROVE  UiInv'
BY RenderReturnsInv, DiffEndsInv, RenderThrowsInv, DiffPatchesInv, DiffMountsInv, DiffUnmountsInv
   DEF Render
-----------------------------------------------------------------------------
(* runEffects().                                                           *)

\* A call that is neither a render nor a diff is pushed above the effects.
LEMMA EffectPush ==
  ASSUME NEW s \in Seq(Frame), NEW f \in Frame, NEW fr, NEW fl, NEW st,
         s # << >>, Shape(s, st), Rendering(s, fr, fl, st),
         \A i \in 1..Len(s) : s[i].do # "effect",
         f.do \in {"batch", "effect"}, f.of \in Comps,
         f.do = "effect" => st[f.of] # "gone"
  PROVE  /\ Append(s, f) \in Seq(Frame)
         /\ Shape(Append(s, f), st) /\ Rendering(Append(s, f), fr, fl, st)
<1> DEFINE t == Append(s, f)
<1>1. /\ t \in Seq(Frame) /\ Len(t) = Len(s) + 1 /\ Len(s) \in Nat \ {0} /\ t # << >>
      /\ \A i \in 1..Len(s) : t[i] = s[i]
      /\ t[Len(s) + 1] = f
  BY PushFacts
<1>2. Rendering(t, fr, fl, st)
  BY RenderingPush
<1> HIDE DEF t
<1>3. \A i \in 1..Len(t) : i = Len(s) + 1 \/ i \in 1..Len(s)
  BY <1>1
<1>4. 1 \in 1..Len(s) /\ t[1] = s[1]
  BY <1>1
<1>5. Shape(t, st)
  BY <1>1, <1>3, <1>4 DEF Shape
<1> QED BY <1>1, <1>2, <1>5 DEF t

\* A step of the effects: the calls change above the first two only, so what
\* was to be rendered still is.
LEMMA EffectStep ==
  ASSUME UiInv, UNCHANGED <<status, fresh, flag, dirty, scheduled, failed, dropped>>,
         Shape(stack', status), Rendering(stack', fresh, flag, status),
         GoesOn(stack) => GoesOn(stack')
  PROVE  ShapeInv' /\ CurrentInv'
BY Parts, PartsPrimed DEF UiInv

\* The next component on the list has its effects run.
LEMMA EffectsTakeInv ==
  ASSUME UiInv, EffectsTake
  PROVE  UiInv'
<1> USE DEF UiInv
<1> DEFINE c == Head(effects)
           f == [Call("batch", c) EXCEPT !.left = pending[c]]
<1>1. /\ stack # << >> /\ Top.do = "effects" /\ effects # << >> /\ effects' = Tail(effects)
      /\ pending' = [pending EXCEPT ![c] = 0] /\ stack' = Append(stack, f)
      /\ UNCHANGED <<status, kids, fresh, flag, active, dirty, scheduled, chain, pumping, ghosts>>
  BY DEF EffectsTake, In, Idle
<1>2. c \in Comps /\ effects' \in Seq(Comps)
  BY <1>1 DEF TypeOK
<1>3. pending' \in [Comps -> Nat] /\ pending[c] \in Nat
  BY <1>1, <1>2 DEF TypeOK
<1>4. f \in Frame /\ f.do = "batch" /\ f.of = c
  BY <1>2, <1>3 DEF Call, Frame, Nodes
<1> HIDE DEF f, c
<1>5. /\ stack \in Seq(Frame) /\ Len(stack) \in 1..Len(stack) /\ Top = stack[Len(stack)]
      /\ Shape(stack, status) /\ Rendering(stack, fresh, flag, status)
  BY <1>1, TopFacts, Parts DEF TypeOK
<1>6. Len(stack) = 2 /\ \A i \in 1..Len(stack) : stack[i].do # "effect"
  BY <1>1, <1>5 DEF Shape
<1>7. stack' \in Seq(Frame) /\ Shape(stack', status) /\ Rendering(stack', fresh, flag, status)
  BY <1>1, <1>2, <1>4, <1>5, <1>6, EffectPush
<1>8. ~GoesOn(stack)
  BY <1>1, <1>5, <1>6 DEF GoesOn
<1>9. TypeOK'
  BY <1>1, <1>2, <1>3, <1>7 DEF TypeOK, ghosts
<1>10. GoneIsCleaned'
  BY <1>1 DEF GoneIsCleaned
<1> QED BY <1>1, <1>7, <1>8, <1>9, <1>10, EffectStep DEF ghosts

\* An effect of a component that is not gone begins.
LEMMA EffectBeginsInv ==
  ASSUME UiInv, EffectBegins
  PROVE  UiInv'
<1> USE DEF UiInv
<1> DEFINE left == [Top EXCEPT !.left = @ - 1]
           f == Call("effect", Top.of)
<1>1. /\ stack # << >> /\ Top.do = "batch" /\ Top.left > 0 /\ status[Top.of] # "gone"
      /\ active' = [active EXCEPT ![Top.of] = FALSE] /\ stack' = Below \o <<left, f>>
      /\ UNCHANGED <<status, kids, fresh, flag, pending, queues, chain, pumping, ghosts>>
  BY DEF EffectBegins, In, Idle
<1>2. /\ stack \in Seq(Frame) /\ Len(stack) \in 1..Len(stack) /\ Top = stack[Len(stack)]
      /\ Top \in Frame /\ Below \in Seq(Frame) /\ Len(Below) = Len(stack) - 1
      /\ \A i \in 1..Len(Below) : Below[i] = stack[i]
      /\ Shape(stack, status) /\ Rendering(stack, fresh, flag, status)
  BY <1>1, TopFacts, Parts DEF TypeOK
<1>3. Top.of \in Comps /\ Len(stack) >= 2
  BY <1>1, <1>2 DEF Shape
<1>4. left \in Frame /\ left.do = "batch" /\ left.of = Top.of
  <2>1. Top.left \in Nat
    BY <1>2 DEF Frame
  <2>2. Top.left - 1 \in Nat
    BY <1>1, <2>1
  <2>3. left = [do |-> Top.do, of |-> Top.of, todo |-> Top.todo, next |-> Top.next,
                left |-> Top.left - 1]
    <3>1. Top = [do |-> Top.do, of |-> Top.of, todo |-> Top.todo, next |-> Top.next,
                 left |-> Top.left]
      BY <1>2, SMTT(30) DEF Frame
    <3> HIDE DEF UiInv
    <3> QED BY <3>1, SMTT(30)
  <2> QED BY <1>1, <1>2, <2>2, <2>3 DEF Frame
<1>5. f \in Frame /\ f.do = "effect" /\ f.of = Top.of
  BY <1>3, CallIsFrame DEF Nodes
<1> HIDE DEF left, f
<1>6. /\ Shape(Below, status) /\ Rendering(Below, fresh, flag, status)
      /\ \A i \in 1..Len(Below) : Below[i].do # "effect"
  BY <1>1, BelowFacts
<1>7. Below # << >> /\ 1 \in 1..Len(Below)
  BY <1>2, <1>3
<1> DEFINE mid == Append(Below, left)
<1>8. /\ mid \in Seq(Frame) /\ Shape(mid, status) /\ Rendering(mid, fresh, flag, status)
  BY <1>2, <1>3, <1>4, <1>6, <1>7, EffectPush
<1>9. /\ mid # << >> /\ Len(mid) = Len(Below) + 1
      /\ \A i \in 1..Len(Below) : mid[i] = Below[i]
      /\ mid[Len(Below) + 1] = left
  BY <1>2, <1>4, PushFacts
<1> HIDE DEF mid
<1>10. \A i \in 1..Len(mid) : mid[i].do # "effect"
  <2>1. \A i \in 1..Len(mid) : i = Len(Below) + 1 \/ i \in 1..Len(Below)
    BY <1>2, <1>9
  <2> QED BY <1>4, <1>6, <1>9, <2>1
<1>11. stack' = Append(mid, f)
  BY <1>1, <1>2, <1>4, <1>5 DEF mid
<1>12. stack' \in Seq(Frame) /\ Shape(stack', status) /\ Rendering(stack', fresh, flag, status)
  BY <1>1, <1>3, <1>5, <1>8, <1>9, <1>10, <1>11, EffectPush
<1>13. GoesOn(stack) => GoesOn(stack')
  <2> SUFFICES ASSUME GoesOn(stack) PROVE GoesOn(stack')
    OBVIOUS
  <2>1. stack[2].do \in {"render", "diff"} /\ Len(stack) # 2
    BY <1>1, <1>2, <1>3 DEF GoesOn
  <2>2. GoesOn(Below) /\ Len(Below) >= 2
    BY <1>1, <1>2, <1>3, <2>1, GoesOnBelow
  <2>3. GoesOn(mid) /\ Len(mid) >= 2
    BY <1>2, <1>4, <1>7, <1>9, <2>2, GoesOnPush DEF mid
  <2> QED BY <1>5, <1>8, <1>9, <1>11, <2>3, GoesOnPush
<1>14. TypeOK'
  <2>1. active' \in [Comps -> BOOLEAN]
    BY <1>1, <1>3 DEF TypeOK
  <2> QED BY <1>1, <1>12, <2>1 DEF TypeOK, queues, ghosts
<1>15. GoneIsCleaned'
  BY <1>1, <1>3 DEF GoneIsCleaned, TypeOK
<1> QED BY <1>1, <1>12, <1>13, <1>14, <1>15, EffectStep DEF queues, ghosts
\* An effect returns, or a batch of them ends.
LEMMA EffectPopInv ==
  ASSUME UiInv, EffectReturns \/ BatchEnds
  PROVE  UiInv'
<1> USE DEF UiInv
<1>1. /\ stack # << >> /\ Top.do \in {"batch", "effect"} /\ stack' = Below
      /\ UNCHANGED <<status, kids, fresh, flag, pending, queues, chain, pumping, ghosts>>
  BY DEF EffectReturns, BatchEnds, In, Idle, insts
<1>2. /\ stack \in Seq(Frame) /\ Len(stack) \in 1..Len(stack) /\ Top = stack[Len(stack)]
      /\ Below \in Seq(Frame) /\ Shape(stack, status)
  BY <1>1, TopFacts, Parts DEF TypeOK
<1>3. Shape(Below, status) /\ Rendering(Below, fresh, flag, status)
  BY <1>1, BelowFacts
<1>4. GoesOn(stack) => GoesOn(Below)
  BY <1>1, <1>2, GoesOnBelow
<1>5. active' \in [Comps -> BOOLEAN] /\ GoneIsCleaned'
  <2>1. CASE BatchEnds
    BY <1>1, <2>1 DEF BatchEnds, insts, TypeOK, GoneIsCleaned
  <2>2. CASE EffectReturns
    <3>1. Top.do = "effect"
      BY <2>2 DEF EffectReturns, In
    <3>2. Top.of \in Comps /\ status[Top.of] # "gone"
      BY <1>2, <3>1 DEF Shape
    <3>3. PICK cleanup \in BOOLEAN : active' = [active EXCEPT ![Top.of] = cleanup]
      BY <2>2 DEF EffectReturns
    <3>4. active' \in [Comps -> BOOLEAN] /\ \A c \in Comps : c # Top.of => active'[c] = active[c]
      BY <3>3 DEF TypeOK
    <3> QED BY <1>1, <3>2, <3>4 DEF GoneIsCleaned
  <2> QED BY <2>1, <2>2
<1>6. TypeOK'
  BY <1>1, <1>2, <1>5 DEF TypeOK, queues, ghosts
<1> QED BY <1>1, <1>3, <1>4, <1>5, <1>6, EffectStep DEF queues, ghosts

\* The end of flush() or update(): nothing is under way any more.
LEMMA EffectsEndInv ==
  ASSUME UiInv, EffectsEnd
  PROVE  UiInv'
<1> USE DEF UiInv
<1>1. /\ stack # << >> /\ Top.do = "effects" /\ stack' = SubSeq(stack, 1, Len(stack) - 2)
      /\ chain' = 0 \/ chain' = chain
      /\ UNCHANGED <<insts, queues, pumping, ghosts>>
  BY DEF EffectsEnd, In, Idle
<1>2. /\ stack \in Seq(Frame) /\ Len(stack) \in 1..Len(stack) /\ Top = stack[Len(stack)]
      /\ Shape(stack, status)
  BY <1>1, TopFacts, Parts DEF TypeOK
<1>3. Len(stack) = 2
  BY <1>1, <1>2 DEF Shape
<1>4. stack' \in Seq(Frame) /\ Len(stack') = 0 /\ stack' = << >>
  BY <1>1, <1>2, <1>3
<1>5. Shape(stack', status) /\ Rendering(stack', fresh, flag, status)
  BY <1>4 DEF Shape, Rendering
<1>6. ~GoesOn(stack)
  BY <1>1, <1>2, <1>3 DEF GoesOn
<1>7. chain' \in 0..MaxChain
  BY <1>1 DEF TypeOK
<1>8. TypeOK'
  BY <1>1, <1>4, <1>7 DEF TypeOK, insts, queues, ghosts
<1>9. GoneIsCleaned'
  BY <1>1 DEF GoneIsCleaned, insts
<1> QED BY <1>1, <1>5, <1>6, <1>8, <1>9, EffectStep DEF insts, queues, ghosts

-----------------------------------------------------------------------------
(* No effect is forgotten: what EffectInv says of the list, of the calls    *)
(* under way and of the effects components have asked for.                  *)

\* Whoever asked for effects is listed, or its children are being diffed.
Diffing(calls, c) == \E i \in 1..Len(calls) : calls[i].do = "diff" /\ calls[i].of = c
Awaits(effs, c) == \E i \in 1..Len(effs) : effs[i] = c
Due(calls, effs, pend) ==
  /\ calls = << >> => effs = << >>
  /\ \A c \in Comps : pend[c] > 0 => Awaits(effs, c) \/ Diffing(calls, c)

\* EffectInv, before a step and after it.
LEMMA EffectParts ==
  /\ EffectInv <=> (throws = 0 => Due(stack, effects, pending))
  /\ EffectInv' <=> (throws' = 0 => Due(stack', effects', pending'))
BY DEF EffectInv, Due, Diffing, Awaits, Idle

\* A call more: what was being diffed still is, and the new one if it is a diff.
LEMMA DiffingPush ==
  ASSUME NEW s \in Seq(Frame), NEW f \in Frame
  PROVE  /\ Append(s, f) # << >>
         /\ \A c : Diffing(s, c) => Diffing(Append(s, f), c)
         /\ f.do = "diff" => Diffing(Append(s, f), f.of)
<1> DEFINE t == Append(s, f)
<1>1. /\ Len(t) = Len(s) + 1 /\ Len(s) \in Nat /\ t # << >>
      /\ \A i \in 1..Len(s) : t[i] = s[i]
      /\ t[Len(s) + 1] = f
  BY PushFacts
<1> HIDE DEF t
<1>2. Len(s) + 1 \in 1..Len(t) /\ \A i \in 1..Len(s) : i \in 1..Len(t)
  BY <1>1
<1>3. \A c : Diffing(s, c) => Diffing(t, c)
  BY <1>1, <1>2 DEF Diffing
<1>4. f.do = "diff" => Diffing(t, f.of)
  BY <1>1, <1>2 DEF Diffing
<1> QED BY <1>1, <1>3, <1>4 DEF t

\* A call less: what was being diffed still is, but for that call's own.
LEMMA DiffingPop ==
  ASSUME stack \in Seq(Frame), stack # << >>, NEW c, Diffing(stack, c)
  PROVE  Diffing(Below, c) \/ (Top.do = "diff" /\ Top.of = c)
<1>1. PICK i \in 1..Len(stack) : stack[i].do = "diff" /\ stack[i].of = c
  BY DEF Diffing
<1>2. /\ Len(stack) \in Nat \ {0} /\ Top = stack[Len(stack)] /\ Len(Below) = Len(stack) - 1
      /\ \A j \in 1..Len(Below) : Below[j] = stack[j]
  BY TopFacts
<1>3. CASE i = Len(stack)
  BY <1>1, <1>2, <1>3
<1>4. CASE i # Len(stack)
  <2>1. i \in 1..Len(Below)
    BY <1>2, <1>4
  <2> QED BY <1>1, <1>2, <2>1 DEF Diffing
<1> QED BY <1>3, <1>4

\* Nothing to do when nothing is diffed and nothing listed.
LEMMA IdleOwesNothing ==
  ASSUME TypeOK, stack = << >>, Due(stack, effects, pending)
  PROVE  effects = << >> /\ \A c \in Comps : pending[c] = 0
<1>1. effects = << >>
  BY DEF Due
<1>2. \A c \in Comps : ~Awaits(effects, c) /\ ~Diffing(stack, c)
  BY <1>1 DEF Awaits, Diffing
<1>3. \A c \in Comps : ~(pending[c] > 0) /\ pending[c] \in Nat
  BY <1>2 DEF Due, TypeOK
<1> QED BY <1>1, <1>3

\* Steps that add a call, or none, and ask for nothing.
LEMMA DueStays ==
  ASSUME TypeOK, EffectInv, UNCHANGED <<effects, throws>>,
         \A c \in Comps : pending'[c] = pending[c] \/ pending'[c] = 0,
         \/ stack' = stack
         \/ stack' # << >> /\ \A c \in Comps : Diffing(stack, c) => Diffing(stack', c)
  PROVE  EffectInv'
<1> SUFFICES ASSUME throws = 0 PROVE Due(stack', effects', pending')
  BY EffectParts
<1>1. Due(stack, effects, pending)
  BY EffectParts
<1>2. \A c \in Comps : pending'[c] > 0 => pending[c] > 0
  OBVIOUS
<1>3. stack' = << >> => effects = << >>
  BY <1>1 DEF Due
<1>4. \A c \in Comps : Diffing(stack, c) => Diffing(stack', c)
  OBVIOUS
<1> QED BY <1>1, <1>2, <1>3, <1>4 DEF Due

\* Steps of the app: a redraw begins with nothing owed.
LEMMA AppEffects ==
  ASSUME ~EffectsRedraw, UiInv, EffectInv, App
  PROVE  EffectInv'
<1> USE DEF UiInv
<1>1. CASE \E c \in Comps : SetState(c)
  <2>1. UNCHANGED <<pending, effects, stack, throws>>
    BY <1>1 DEF SetState, ghosts
  <2> QED BY <2>1, DueStays
<1>2. CASE Redraw
  <2>1. stack = << >> /\ UNCHANGED <<pending, effects, throws>>
    BY <1>2 DEF Redraw, ScriptRedraws, Idle, insts, queues, ghosts
  <2>2. PICK plan \in Plans(Root) : stack' = stack \o <<Call("update", Root), plan>>
    BY <1>2 DEF Redraw
  <2>3. stack' # << >>
    BY <2>1, <2>2
  <2>4. \A c \in Comps : ~Diffing(stack, c)
    BY <2>1 DEF Diffing
  <2> QED BY <2>1, <2>3, <2>4, DueStays
<1>3. CASE UnmountTree
  <2>1. UNCHANGED <<effects, stack, throws>>
    BY <1>3 DEF UnmountTree, queues, ghosts
  <2>2. \A c \in Comps : pending'[c] = pending[c] \/ pending'[c] = 0
    BY <1>3 DEF UnmountTree, Unmounts
  <2> QED BY <2>1, <2>2, DueStays
<1> QED BY <1>1, <1>2, <1>3 DEF App

\* Steps of the host and of flush(): giving up drops a list that is empty.
LEMMA FlushEffects ==
  ASSUME UiInv, EffectInv, Flush
  PROVE  EffectInv'
<1> USE DEF UiInv
<1>1. CASE PumpStarts \/ PumpEnds
  <2>1. UNCHANGED <<pending, effects, stack, throws>>
    BY <1>1 DEF PumpStarts, PumpEnds, insts, queues, ghosts
  <2> QED BY <2>1, DueStays
<1>2. CASE FlushStarts
  <2>1. stack = << >> /\ stack' = <<Call("flush", Root)>> /\ UNCHANGED <<pending, effects, throws>>
    BY <1>2 DEF FlushStarts, Idle, insts, ghosts
  <2>2. stack' # << >> /\ \A c \in Comps : ~Diffing(stack, c)
    BY <2>1 DEF Diffing
  <2> QED BY <2>1, <2>2, DueStays
<1>3. CASE FlushGivesUp
  <2>1. stack = << >> /\ effects' = << >> /\ UNCHANGED <<stack, pending, throws>>
    BY <1>3 DEF FlushGivesUp, Idle, insts
  <2> SUFFICES ASSUME throws = 0 PROVE Due(stack', effects', pending')
    BY <2>1, EffectParts
  <2>2. effects = << >>
    BY <2>1, EffectParts, IdleOwesNothing
  <2> QED BY <2>1, <2>2, EffectParts
<1>4. CASE FlushTakes
  <2>1. /\ stack # << >> /\ dirty # << >> /\ UNCHANGED <<pending, effects, throws>>
        /\ stack' = stack \/ stack' = Append(stack, Call("render", Head(dirty)))
    BY <1>4 DEF FlushTakes, In, Idle, RenderBegins
  <2>2. Call("render", Head(dirty)) \in Frame /\ stack \in Seq(Frame)
    <3>1. Head(dirty) \in Nodes /\ stack \in Seq(Frame)
      BY <2>1 DEF TypeOK, Nodes
    <3> QED BY <3>1, CallIsFrame
  <2>3. \/ stack' = stack
        \/ stack' # << >> /\ \A c \in Comps : Diffing(stack, c) => Diffing(stack', c)
    BY <2>1, <2>2, DiffingPush
  <2> QED BY <2>1, <2>3, DueStays
<1>5. CASE RunEffects
  <2>1. stack' = Append(stack, Call("effects", Root)) /\ UNCHANGED <<pending, effects, throws>>
    BY <1>5 DEF RunEffects, insts, queues, ghosts
  <2>2. Call("effects", Root) \in Frame /\ stack \in Seq(Frame)
    BY CallIsFrame DEF TypeOK, Nodes
  <2>3. stack' # << >> /\ \A c \in Comps : Diffing(stack, c) => Diffing(stack', c)
    BY <2>1, <2>2, DiffingPush
  <2> QED BY <2>1, <2>3, DueStays
<1> QED BY <1>1, <1>2, <1>3, <1>4, <1>5 DEF Flush

\* The innermost call becomes a diff of the same node: nothing is lost by it.
LEMMA DiffingReplace ==
  ASSUME TypeOK, stack # << >>, NEW f \in Frame, f.do = "diff", f.of = Top.of
  PROVE  /\ Append(Below, f) \in Seq(Frame) /\ Append(Below, f) # << >>
         /\ \A c : Diffing(stack, c) => Diffing(Append(Below, f), c)
         /\ Diffing(Append(Below, f), Top.of)
<1>1. stack \in Seq(Frame) /\ Below \in Seq(Frame)
  BY TopFacts DEF TypeOK
<1>2. /\ Append(Below, f) # << >> /\ Diffing(Append(Below, f), f.of)
      /\ \A c : Diffing(Below, c) => Diffing(Append(Below, f), c)
  BY <1>1, DiffingPush
<1>3. \A c : Diffing(stack, c) => Diffing(Below, c) \/ c = Top.of
  BY <1>1, DiffingPop
<1>4. Append(Below, f) \in Seq(Frame)
  BY <1>1
<1> QED BY <1>2, <1>3, <1>4

\* A diff with one thing less to do.
LEMMA TaskDiffing ==
  ASSUME TypeOK, NEW what, NEW k, Task(what, k)
  PROVE  /\ TaskDone(what, k) \in Seq(Frame) /\ TaskDone(what, k) # << >>
         /\ \A c : Diffing(stack, c) => Diffing(TaskDone(what, k), c)
<1> DEFINE f == [Top EXCEPT !.todo = @ \ {<<what, k>>}]
<1>1. stack # << >> /\ Top.do = "diff" /\ Top \in Frame
  BY TopFacts DEF Task, In, Idle, TypeOK
<1>2. f \in Frame /\ f.do = "diff" /\ f.of = Top.of
  BY <1>1 DEF Frame
<1>3. TaskDone(what, k) = Append(Below, f)
  BY DEF TaskDone
<1> HIDE DEF f
<1> QED BY <1>1, <1>2, <1>3, DiffingReplace

\* The component's function asks for an effect: its children are diffed next.
LEMMA RenderReturnsEffects ==
  ASSUME UiInv, EffectInv, RenderReturns
  PROVE  EffectInv'
<1> USE DEF UiInv
<1>1. stack # << >> /\ Top.do = "render" /\ UNCHANGED <<effects, throws>>
  BY DEF RenderReturns, In, Idle, queues, ghosts
<1>2. Top.of \in Comps
  BY <1>1, TopFacts DEF TypeOK, ShapeInv
<1>3. PICK plan \in Plans(Top.of) : stack' = Append(Below, plan)
  BY DEF RenderReturns
<1>4. plan \in Frame /\ plan.do = "diff" /\ plan.of = Top.of
  BY <1>2, PlanIsFrame DEF Nodes
<1>5. /\ stack' # << >> /\ Diffing(stack', Top.of)
      /\ \A c : Diffing(stack, c) => Diffing(stack', c)
  BY <1>1, <1>3, <1>4, DiffingReplace
<1>6. \A c \in Comps : c # Top.of => pending'[c] = pending[c]
  BY DEF RenderReturns, TypeOK
<1> SUFFICES ASSUME throws = 0 PROVE Due(stack', effects', pending')
  BY <1>1, EffectParts
<1>7. Due(stack, effects, pending)
  BY EffectParts
<1> HIDE DEF UiInv
<1> QED BY <1>1, <1>5, <1>6, <1>7 DEF Due

\* The diff is done: the component joins the list if it asked for an effect.
LEMMA DiffEndsEffects ==
  ASSUME UiInv, EffectInv, DiffEnds
  PROVE  EffectInv'
<1> USE DEF UiInv
<1>1. /\ stack # << >> /\ Top.do = "diff" /\ stack' = Below /\ UNCHANGED <<pending, throws>>
      /\ effects' = IF Top.of \in Comps /\ pending[Top.of] > 0
                    THEN Append(effects, Top.of) ELSE effects
  BY DEF DiffEnds, In, Idle
<1>2. stack \in Seq(Frame) /\ effects \in Seq(Comps)
  BY DEF TypeOK
<1>3. Below # << >>
  <2>1. /\ Len(stack) \in 1..Len(stack) /\ Top = stack[Len(stack)]
        /\ Len(Below) = Len(stack) - 1 /\ Len(stack) \in Nat
    BY <1>1, <1>2, TopFacts
  <2>2. Len(stack) # 1
    BY <1>1, <2>1 DEF ShapeInv
  <2>3. Len(Below) # 0
    BY <2>1, <2>2
  <2> QED BY <2>3
<1> SUFFICES ASSUME throws = 0 PROVE Due(stack', effects', pending')
  BY <1>1, EffectParts
<1>4. Due(stack, effects, pending)
  BY EffectParts
<1>5. \A c \in Comps : Awaits(effects, c) => Awaits(effects', c)
  <2>1. CASE effects' = effects
    BY <2>1
  <2>2. CASE Top.of \in Comps /\ effects' = Append(effects, Top.of)
    <3>1. \A i \in 1..Len(effects) : effects'[i] = effects[i] /\ i \in 1..Len(effects')
      BY <1>2, <2>2
    <3> QED BY <3>1 DEF Awaits
  <2> QED BY <1>1, <2>1, <2>2
<1>6. \A c \in Comps : c = Top.of /\ pending[c] > 0 => Awaits(effects', c)
  <2> SUFFICES ASSUME Top.of \in Comps, pending[Top.of] > 0 PROVE Awaits(effects', Top.of)
    OBVIOUS
  <2>1. effects' = Append(effects, Top.of)
    BY <1>1
  <2>2. Len(effects) + 1 \in 1..Len(effects') /\ effects'[Len(effects) + 1] = Top.of
    BY <1>2, <2>1
  <2> QED BY <2>2 DEF Awaits
<1>7. \A c \in Comps : Diffing(stack, c) => Diffing(stack', c) \/ c = Top.of
  BY <1>1, <1>2, DiffingPop
<1> HIDE DEF UiInv
<1> QED BY <1>1, <1>3, <1>4, <1>5, <1>6, <1>7 DEF Due

\* Steps of the renders.
LEMMA RenderEffects ==
  ASSUME UiInv, EffectInv, Render
  PROVE  EffectInv'
<1> USE DEF UiInv
<1>1. CASE RenderReturns
  BY <1>1, RenderReturnsEffects
<1>2. CASE DiffEnds
  BY <1>2, DiffEndsEffects
<1>3. CASE RenderThrows
  <2>1. throws' = throws + 1 /\ throws \in Nat
    BY <1>3 DEF RenderThrows, TypeOK
  <2>2. throws' # 0
    BY <2>1
  <2> QED BY <2>2, EffectParts
<1>4. ASSUME NEW k \in Comps, DiffPatches(k) \/ DiffMounts(k) PROVE EffectInv'
  <2>1. PICK what \in {"patch", "mount"} :
          Task(what, k) /\ RenderBegins(k, TaskDone(what, k))
    BY <1>4 DEF DiffPatches, DiffMounts
  <2>2. UNCHANGED <<pending, effects, throws>>
    BY <1>4 DEF DiffPatches, DiffMounts, queues
  <2>3. /\ TaskDone(what, k) \in Seq(Frame)
        /\ \A c : Diffing(stack, c) => Diffing(TaskDone(what, k), c)
    BY <2>1, TaskDiffing
  <2>4. stack' = Append(TaskDone(what, k), Call("render", k)) /\ Call("render", k) \in Frame
    BY <2>1, CallIsFrame DEF RenderBegins, Nodes
  <2>5. stack' # << >> /\ \A c : Diffing(TaskDone(what, k), c) => Diffing(stack', c)
    BY <2>3, <2>4, DiffingPush
  <2> QED BY <2>2, <2>3, <2>5, DueStays
<1>5. ASSUME NEW k \in Comps, DiffUnmounts(k) PROVE EffectInv'
  <2>1. Task("unmount", k) /\ stack' = TaskDone("unmount", k) /\ UNCHANGED <<effects, throws>>
    BY <1>5 DEF DiffUnmounts, queues, ghosts
  <2>2. \A c \in Comps : pending'[c] = pending[c] \/ pending'[c] = 0
    BY <1>5 DEF DiffUnmounts, Unmounts
  <2>3. stack' # << >> /\ \A c : Diffing(stack, c) => Diffing(stack', c)
    BY <2>1, TaskDiffing
  <2> QED BY <2>1, <2>2, <2>3, DueStays
<1> QED BY <1>1, <1>2, <1>3, <1>4, <1>5 DEF Render

\* The first of the list has its effects taken over, all of them.
LEMMA EffectsTakeEffects ==
  ASSUME UiInv, EffectInv, EffectsTake
  PROVE  EffectInv'
<1> USE DEF UiInv
<1> DEFINE c == Head(effects)
           f == [Call("batch", c) EXCEPT !.left = pending[c]]
<1>1. /\ effects # << >> /\ effects' = Tail(effects) /\ throws' = throws
      /\ pending' = [pending EXCEPT ![c] = 0] /\ stack' = Append(stack, f)
  BY DEF EffectsTake, ghosts
<1>2. /\ c \in Comps /\ Len(effects) \in Nat /\ effects[1] = c
      /\ \A i \in 2..Len(effects) : i - 1 \in 1..Len(effects') /\ effects'[i - 1] = effects[i]
  BY <1>1 DEF TypeOK
<1>3. pending'[c] = 0 /\ \A x \in Comps : x # c => pending'[x] = pending[x]
  BY <1>1, <1>2 DEF TypeOK
<1>4. f \in Frame /\ stack \in Seq(Frame)
  BY <1>2 DEF Call, Frame, Nodes, TypeOK
<1> HIDE DEF f, c
<1>5. stack' # << >> /\ \A x : Diffing(stack, x) => Diffing(stack', x)
  BY <1>1, <1>4, DiffingPush
<1>6. ASSUME NEW x \in Comps, x # c, Awaits(effects, x) PROVE Awaits(effects', x)
  <2>1. PICK i \in 1..Len(effects) : effects[i] = x
    BY <1>6 DEF Awaits
  <2>2. i \in 2..Len(effects)
    BY <1>2, <1>6, <2>1
  <2> QED BY <1>2, <2>1, <2>2 DEF Awaits
<1> SUFFICES ASSUME throws = 0 PROVE Due(stack', effects', pending')
  BY <1>1, EffectParts
<1>7. Due(stack, effects, pending)
  BY EffectParts
<1>8. \A x \in Comps : pending'[x] > 0 => x # c
  BY <1>3
<1> HIDE DEF UiInv
<1> QED BY <1>3, <1>5, <1>6, <1>7, <1>8 DEF Due

\* Steps of runEffects(): it ends when the list is empty.
LEMMA EffectEffects ==
  ASSUME UiInv, EffectInv, Effect
  PROVE  EffectInv'
<1> USE DEF UiInv
<1>1. CASE EffectsTake
  BY <1>1, EffectsTakeEffects
<1>2. CASE EffectBegins
  <2> DEFINE left == [Top EXCEPT !.left = @ - 1]
             f == Call("effect", Top.of)
  <2>1. /\ stack # << >> /\ Top.do = "batch" /\ stack' = Below \o <<left, f>>
        /\ UNCHANGED <<pending, effects, throws>>
    BY <1>2 DEF EffectBegins, In, Idle, queues, ghosts
  <2>2. stack \in Seq(Frame) /\ Below \in Seq(Frame)
    BY <2>1, TopFacts DEF TypeOK
  <2> HIDE DEF left, f
  <2>3. /\ stack' # << >> /\ Len(stack') = Len(Below) + 2 /\ Len(Below) \in Nat
        /\ \A i \in 1..Len(Below) : stack'[i] = Below[i]
    BY <2>1, <2>2
  <2>4. \A i \in 1..Len(Below) : i \in 1..Len(stack')
    BY <2>3
  <2>5. \A c : Diffing(Below, c) => Diffing(stack', c)
    BY <2>3, <2>4 DEF Diffing
  <2>6. \A c : Diffing(stack, c) => Diffing(Below, c)
    BY <2>1, <2>2, DiffingPop
  <2> QED BY <2>1, <2>3, <2>5, <2>6, DueStays
<1>3. CASE EffectReturns \/ BatchEnds
  <2>1. /\ stack # << >> /\ Top.do \in {"batch", "effect"} /\ stack' = Below
        /\ UNCHANGED <<pending, effects, throws>>
    BY <1>3 DEF EffectReturns, BatchEnds, In, Idle, insts, queues, ghosts
  <2>2. stack \in Seq(Frame)
    BY DEF TypeOK
  <2>3. Below # << >>
    <3>1. /\ Len(stack) \in 1..Len(stack) /\ Top = stack[Len(stack)]
          /\ Len(Below) = Len(stack) - 1 /\ Len(stack) \in Nat
      BY <2>1, <2>2, TopFacts
    <3>2. Len(stack) # 1
      BY <2>1, <3>1 DEF ShapeInv
    <3>3. Len(Below) # 0
      BY <3>1, <3>2
    <3> QED BY <3>3
  <2>4. \A c : Diffing(stack, c) => Diffing(Below, c)
    BY <2>1, <2>2, DiffingPop
  <2> QED BY <2>1, <2>3, <2>4, DueStays
<1>4. CASE EffectsEnd
  <2>1. /\ stack # << >> /\ Top.do = "effects" /\ effects = << >>
        /\ UNCHANGED <<pending, effects, throws>>
    BY <1>4 DEF EffectsEnd, In, Idle, insts, queues, ghosts
  <2>2. /\ stack \in Seq(Frame) /\ Len(stack) \in 1..Len(stack) /\ Top = stack[Len(stack)]
        /\ 1 \in 1..Len(stack)
    BY <2>1, TopFacts DEF TypeOK
  <2>3. Len(stack) = 2 /\ stack[1].do # "diff" /\ stack[2].do # "diff"
    <3>1. Len(stack) = 2
      BY <2>1, <2>2 DEF ShapeInv
    <3>2. stack[2].do = "effects"
      BY <2>1, <2>2, <3>1
    <3>3. stack[1].do \in {"flush", "update"}
      BY <2>1 DEF ShapeInv
    <3> QED BY <3>1, <3>2, <3>3
  <2>4. \A i \in 1..Len(stack) : i = 1 \/ i = 2
    BY <2>3
  <2>5. \A c \in Comps : ~Diffing(stack, c) /\ ~Awaits(effects, c)
    BY <2>1, <2>3, <2>4 DEF Diffing, Awaits
  <2> SUFFICES ASSUME throws = 0 PROVE Due(stack', effects', pending')
    BY <2>1, EffectParts
  <2>6. Due(stack, effects, pending)
    BY EffectParts
  <2> HIDE DEF UiInv
  <2> QED BY <2>1, <2>5, <2>6 DEF Due
<1> QED BY <1>1, <1>2, <1>3, <1>4 DEF Effect

-----------------------------------------------------------------------------
(* The specification.                                                      *)

\* One step of whatever runs, or none.
LEMMA NextInv ==
  ASSUME ~EffectsRedraw, UiInv, [Next]_vars
  PROVE  UiInv'
<1>1. CASE App
  BY <1>1, SetStateInv, RedrawInv, UnmountTreeInv DEF App
<1>2. CASE Flush
  BY <1>2, FlushInv
<1>3. CASE Render
  BY <1>3, RenderInv
<1>4. CASE Effect
  BY <1>4, EffectsTakeInv, EffectBeginsInv, EffectPopInv, EffectsEndInv DEF Effect
<1>5. CASE UNCHANGED vars
  <2>1. UNCHANGED <<insts, queues, chain, pumping, stack, ghosts>>
    BY <1>5 DEF vars
  <2>2. TypeOK'
    BY <2>1 DEF UiInv, TypeOK, insts, queues, ghosts
  <2>3. ShapeInv' /\ GoneIsCleaned' /\ CurrentInv'
    BY <2>1, Apart DEF queues, ghosts
  <2> QED BY <2>2, <2>3 DEF UiInv
<1> QED BY <1>1, <1>2, <1>3, <1>4, <1>5 DEF Next

\* The inductive invariant of the component runtime: what is not up to date is
\* dirty, what is dirty is listed, and the list is in hand or going to be.
THEOREM UiInvariant == ~EffectsRedraw /\ Spec => []UiInv
<1> SUFFICES ASSUME ~EffectsRedraw PROVE Spec => []UiInv
  OBVIOUS
<1>1. UiInv /\ [Next]_vars => UiInv'
  BY NextInv
<1> QED BY InitInv, <1>1, PTL DEF Spec

\* Types: the flush chain stays below its limit and the dirty list below its
\* bound, whatever the components do (ui.js:197-222).
THEOREM UiTypes == ~EffectsRedraw /\ Spec => []TypeOK
<1>1. UiInv => TypeOK
  BY DEF UiInv
<1> QED BY <1>1, UiInvariant, PTL

\* No effect outlives its component: whatever is gone has been cleaned up
\* (unmount() of ui.js, and the check of runEffects()).
THEOREM GoneStaysClean == ~EffectsRedraw /\ Spec => []GoneIsCleaned
<1>1. UiInv => GoneIsCleaned
  BY DEF UiInv
<1> QED BY <1>1, UiInvariant, PTL

\* No state write is lost: when nothing is under way and nothing is queued,
\* what is on screen shows the state it has (invalidate(), flush()), except
\* what threw and what the runaway guard dropped.
THEOREM QuietStaysCurrent == ~EffectsRedraw /\ Spec => []QuietIsCurrent
<1>1. UiInv => QuietIsCurrent
  <2> SUFFICES ASSUME UiInv, Quiet, NEW c \in Comps,
                      status[c] = "mounted", c \notin failed \cup dropped
               PROVE  fresh[c]
    BY DEF QuietIsCurrent
  <2>1. stack = << >> /\ ~scheduled
    BY DEF Quiet, Idle
  <2>2. dirty = << >>
    BY <2>1, Parts DEF UiInv, GoesOn
  <2>3. ~flag[c]
    <3>1. \A i \in DOMAIN dirty : FALSE
      BY <2>2
    <3> QED BY <3>1, Parts DEF UiInv, Listed
  <2> QED BY <2>3, Parts DEF UiInv, Marked
<1> QED BY <1>1, UiInvariant, PTL
\* The invariant of the effects: whoever asked for one is on the list of
\* runEffects(), or on its way there, whatever else is rendered meanwhile.
THEOREM EffectInvariant == ~EffectsRedraw /\ Spec => []EffectInv
<1> SUFFICES ASSUME ~EffectsRedraw PROVE Spec => []EffectInv
  OBVIOUS
<1>1. Init => EffectInv
  BY DEF Init, EffectInv
<1>2. UiInv /\ EffectInv /\ [Next]_vars => EffectInv'
  <2> SUFFICES ASSUME UiInv, EffectInv, [Next]_vars PROVE EffectInv'
    OBVIOUS
  <2>1. CASE Next
    BY <2>1, AppEffects, FlushEffects, RenderEffects, EffectEffects DEF Next
  <2>2. CASE UNCHANGED vars
    <3>1. UNCHANGED <<pending, effects, stack, throws>>
      BY <2>2 DEF vars, insts, queues, ghosts
    <3> QED BY <3>1, EffectParts
  <2> QED BY <2>1, <2>2
<1> QED BY <1>1, <1>2, UiInvariant, PTL DEF Spec

\* No effect is forgotten: when nothing is under way and nothing queued, every
\* effect a component asked for has been run, unless a render threw
\* (renderComponent() and runEffects() of ui.js).
THEOREM QuietHasRun == ~EffectsRedraw /\ Spec => []QuietHasRunEffects
<1>1. UiInv /\ EffectInv => QuietHasRunEffects
  <2> SUFFICES ASSUME UiInv, EffectInv, Quiet, throws = 0
               PROVE  effects = << >> /\ \A c \in Comps : pending[c] = 0
    BY DEF QuietHasRunEffects
  <2>1. stack = << >> /\ TypeOK /\ Due(stack, effects, pending)
    BY EffectParts DEF Quiet, Idle, UiInv
  <2> QED BY <2>1, IdleOwesNothing
<1> QED BY <1>1, UiInvariant, EffectInvariant, PTL
=============================================================================
