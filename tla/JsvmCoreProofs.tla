--------------------------- MODULE JsvmCoreProofs ---------------------------
(***************************************************************************)
(* Proofs about JsvmCore for any number of bindings and widgets and any    *)
(* depth of calls, whatever script code a call runs: references are        *)
(* balanced, what LVGL calls is what the core holds, jsvm_stop() leaves    *)
(* nothing, and nothing freed is touched but an object that a binding's    *)
(* own script deletes under it.                                            *)
(***************************************************************************)
EXTENDS JsvmCore, FiniteSetTheorems, SequenceTheorems, TLAPS

USE CoreAssumption

IsCall(f, b) == f.what = "callback" /\ f.of = b

-----------------------------------------------------------------------------
(* Counting calls on the stack.                                            *)

\* A stack is finite, and so are the calls of one binding on it.
LEMMA CallsFinite ==
  ASSUME NEW s \in Seq(Frame), NEW b
  PROVE  IsFiniteSet(CallsOf(b, s)) /\ Cardinality(CallsOf(b, s)) \in Nat
<1>1. IsFiniteSet(1..Len(s))
  BY FS_Interval
<1>2. CallsOf(b, s) \in SUBSET (1..Len(s))
  BY DEF CallsOf
<1> QED BY <1>1, <1>2, FS_Subset, FS_CardinalityType

\* Entering a call adds one to the calls of its binding, and to no other's.
LEMMA CallsPush ==
  ASSUME NEW s \in Seq(Frame), NEW f \in Frame, NEW b
  PROVE  Cardinality(CallsOf(b, Append(s, f)))
           = Cardinality(CallsOf(b, s)) + (IF IsCall(f, b) THEN 1 ELSE 0)
<1> DEFINE n == Len(s) + 1
           C == CallsOf(b, s)
<1>1. n \notin C /\ IsFiniteSet(C) /\ Cardinality(C) \in Nat
  <2>1. n \notin C
    BY DEF CallsOf
  <2>2. IsFiniteSet(C) /\ Cardinality(C) \in Nat
    BY CallsFinite
  <2> QED BY <2>1, <2>2
<1>2. CallsOf(b, Append(s, f)) = IF IsCall(f, b) THEN C \cup {n} ELSE C
  <2>1. /\ Append(s, f) \in Seq(Frame) /\ Len(Append(s, f)) = n
        /\ \A i \in 1..Len(s) : Append(s, f)[i] = s[i]
        /\ Append(s, f)[n] = f
    BY AppendProperties
  <2>2. DOMAIN Append(s, f) = 1..n /\ DOMAIN s = 1..Len(s) /\ 1..n = 1..Len(s) \cup {n}
    BY <2>1
  <2> QED BY <2>1, <2>2 DEF CallsOf, IsCall
<1>3. Cardinality(C \cup {n}) = Cardinality(C) + 1
  BY <1>1, FS_AddElement
<1> HIDE DEF C, n
<1> QED BY <1>1, <1>2, <1>3 DEF C

\* Leaving a call takes one from the calls of its binding, and from no other's.
LEMMA CallsPop ==
  ASSUME NEW s \in Seq(Frame), s # << >>, NEW b
  PROVE  /\ Cardinality(CallsOf(b, SubSeq(s, 1, Len(s) - 1)))
              = Cardinality(CallsOf(b, s)) - (IF IsCall(s[Len(s)], b) THEN 1 ELSE 0)
         /\ IsCall(s[Len(s)], b) => Cardinality(CallsOf(b, s)) >= 1
<1> DEFINE n == Len(s)
           t == SubSeq(s, 1, n - 1)
           C == CallsOf(b, s)
           D == CallsOf(b, t)
<1>0. n \in Nat /\ n >= 1 /\ DOMAIN s = 1..n
  OBVIOUS
<1>1. t \in Seq(Frame) /\ Len(t) = n - 1 /\ \A i \in 1..(n - 1) : t[i] = s[i]
  <2>1. \A i \in 1..(n - 1) : s[i] \in Frame
    BY <1>0
  <2> QED BY <1>0, <2>1, SubSeqProperties
<1>2. IsFiniteSet(C) /\ Cardinality(C) \in Nat
  BY CallsFinite
<1>3. IsFiniteSet(D) /\ Cardinality(D) \in Nat
  BY <1>1, CallsFinite
<1>4. DOMAIN t = 1..(n - 1)
  BY <1>0, <1>1
<1>5. n \notin D
  BY <1>0, <1>4 DEF CallsOf
<1>6. C = IF IsCall(s[n], b) THEN D \cup {n} ELSE D
  <2> HIDE DEF t
  <2>1. 1..n = 1..(n - 1) \cup {n}
    BY <1>0
  <2> QED BY <1>0, <1>1, <1>4, <2>1 DEF CallsOf, IsCall
<1>7. Cardinality(D \cup {n}) = Cardinality(D) + 1
  BY <1>3, <1>5, FS_AddElement
<1> HIDE DEF C, D, n, t
<1>8. Cardinality(D) = Cardinality(C) - (IF IsCall(s[n], b) THEN 1 ELSE 0)
  BY <1>2, <1>3, <1>6, <1>7
<1>9. IsCall(s[n], b) => Cardinality(C) >= 1
  BY <1>2, <1>3, <1>6, <1>7
<1> QED BY <1>8, <1>9 DEF C, D, n, t

-----------------------------------------------------------------------------
(* What a push and a pop do to the parts of the invariant about the stack. *)

\* A call entered keeps the stack in shape and counts for its binding alone.
LEMMA PushKeeps ==
  ASSUME TypeOK, StackInv, phase' = "up",
         NEW what \in {"callback", "native", "make"}, NEW of \in Bindings \cup Objects,
         of \in (IF what = "callback" THEN Bindings ELSE Objects),
         Push(what, of)
  PROVE  /\ stack' \in Seq(Frame) /\ StackInv'
         /\ \A b \in Bindings :
              Cardinality(CallsOf(b, stack')) = Cardinality(CallsOf(b, stack))
                + (IF what = "callback" /\ of = b THEN 1 ELSE 0)
<1> DEFINE f == [what |-> what, of |-> of]
<1>1. f \in Frame /\ f.what = what /\ f.of = of
  BY DEF Frame
<1>2. stack \in Seq(Frame) /\ stack' = Append(stack, f)
  BY DEF TypeOK, Push
<1> HIDE DEF f
<1>3. /\ stack' \in Seq(Frame) /\ Len(stack') = Len(stack) + 1
      /\ \A i \in 1..Len(stack) : stack'[i] = stack[i]
      /\ stack'[Len(stack) + 1] = f
  BY <1>1, <1>2, AppendProperties
<1>5. DOMAIN stack' = 1..Len(stack) \cup {Len(stack) + 1} /\ DOMAIN stack = 1..Len(stack)
  BY <1>2, <1>3
<1>6. StackInv'
  BY <1>1, <1>3, <1>5 DEF StackInv
<1>7. \A b \in Bindings :
        Cardinality(CallsOf(b, stack')) = Cardinality(CallsOf(b, stack))
          + (IF what = "callback" /\ of = b THEN 1 ELSE 0)
  BY <1>1, <1>2, CallsPush DEF IsCall
<1> QED BY <1>3, <1>6, <1>7

\* A call left, whatever it did to the tree, keeps the stack in shape and is no
\* longer counted.
LEMMA PopKeeps ==
  ASSUME TypeOK, StackInv, stack # << >>, phase' = phase, Pop
  PROVE  /\ stack' \in Seq(Frame) /\ StackInv'
         /\ \A b \in Bindings :
              /\ Cardinality(CallsOf(b, stack')) = Cardinality(CallsOf(b, stack))
                   - (IF Top.what = "callback" /\ Top.of = b THEN 1 ELSE 0)
              /\ Top.what = "callback" /\ Top.of = b
                   => Cardinality(CallsOf(b, stack)) >= 1
<1>1. stack \in Seq(Frame) /\ Len(stack) \in Nat /\ Len(stack) >= 1
      /\ DOMAIN stack = 1..Len(stack)
  BY DEF TypeOK
<1>2. /\ stack' \in Seq(Frame) /\ Len(stack') = Len(stack) - 1
      /\ \A i \in 1..(Len(stack) - 1) : stack'[i] = stack[i]
  <2>1. \A i \in 1..(Len(stack) - 1) : stack[i] \in Frame
    BY <1>1
  <2> QED BY <1>1, <2>1, SubSeqProperties DEF Pop
<1>3. DOMAIN stack' = 1..(Len(stack) - 1)
  BY <1>1, <1>2
<1>5. phase # "up" => FALSE
  BY DEF StackInv
<1>6. StackInv'
  BY <1>1, <1>2, <1>3, <1>5 DEF StackInv
<1>7. \A b \in Bindings :
        /\ Cardinality(CallsOf(b, stack')) = Cardinality(CallsOf(b, stack))
             - (IF IsCall(Top, b) THEN 1 ELSE 0)
        /\ IsCall(Top, b) => Cardinality(CallsOf(b, stack)) >= 1
  BY <1>1, CallsPop DEF Pop, Top
<1> QED BY <1>2, <1>6, <1>7 DEF IsCall

-----------------------------------------------------------------------------
(* The invariant holds at first and is kept.                               *)

\* With nothing on the stack, nothing is being called.
LEMMA NoCalls ==
  ASSUME NEW b PROVE Cardinality(CallsOf(b, << >>)) = 0
<1>1. CallsOf(b, << >>) = {}
  BY DEF CallsOf
<1> QED BY <1>1, FS_EmptySet

\* A piece of script alone on the stack is no call.
LEMMA NoCallsInScript ==
  ASSUME NEW b
  PROVE  Cardinality(CallsOf(b, <<ScriptFrame>>)) = 0
<1>1. CallsOf(b, <<ScriptFrame>>) = {}
  BY DEF CallsOf, ScriptFrame
<1> QED BY <1>1, FS_EmptySet

\* With no VM, nothing is stored and the screen is bare.
LEMMA InitInv == Init => CoreInv
<1> SUFFICES ASSUME Init PROVE CoreInv
  OBVIOUS
<1>1. TypeOK
  <2>1. stack \in Seq(Frame)
    BY DEF Init
  <2>2. above \in [Objects -> SUBSET Objects] /\ ident \in [Objects -> Nat]
    BY DEF Init
  <2>3. on \in [Bindings -> Objects] /\ refs \in [Bindings -> Nat]
    BY DEF Init, Objects
  <2>4. Screen \in Objects
    BY DEF Objects
  <2> QED BY <2>1, <2>2, <2>3, <2>4 DEF Init, TypeOK
<1>2. RefsBalanced
  BY NoCalls DEF waits, Awaited, Init, RefsBalanced
<1>3. LvglMatchesLists /\ TreeInv /\ StackInv /\ StopInv
  BY DEF waits, Awaited, Init, LvglMatchesLists, TreeInv, StackInv, StopInv, Objects
<1> QED BY <1>1, <1>2, <1>3 DEF CoreInv

\* The count of calls is a number.
LEMMA CallsNat ==
  ASSUME TypeOK, NEW b PROVE Cardinality(CallsOf(b, stack)) \in Nat
BY CallsFinite DEF TypeOK

\* A binding whose name is free is not being called.
LEMMA UnusedNotCalled ==
  ASSUME CoreInv, NEW b \in Bindings, Unused(b)
  PROVE  Cardinality(CallsOf(b, stack)) = 0
BY CallsNat DEF waits, Awaited, CoreInv, RefsBalanced, Unused

\* Entering a trampoline.
LEMMA CallsInv ==
  ASSUME CoreInv, phase = "up", NEW b \in Bindings, b \in events \cup timers,
         Calls(b)
  PROVE  CoreInv'
<1> USE DEF CoreInv
<1>0. phase' = "up" /\ Push("callback", b)
  BY DEF Calls
<1>1. /\ stack' \in Seq(Frame) /\ StackInv'
      /\ \A c \in Bindings :
           Cardinality(CallsOf(c, stack')) = Cardinality(CallsOf(c, stack))
             + (IF c = b THEN 1 ELSE 0)
  BY <1>0, PushKeeps
<1>2. TypeOK'
  BY <1>1 DEF TypeOK, Calls, tree, waits, Awaited
<1>4. RefsBalanced'
  <2> SUFFICES ASSUME NEW c \in Bindings
               PROVE  refs'[c] = (IF c \in events' \cup timers' \cup Awaited' THEN 1 ELSE 0)
                                   + Cardinality(CallsOf(c, stack'))
    BY DEF waits, Awaited, RefsBalanced
  <2>1. refs[c] = (IF c \in events \cup timers \cup Awaited THEN 1 ELSE 0) + Cardinality(CallsOf(c, stack))
    BY DEF waits, Awaited, RefsBalanced
  <2>2. Cardinality(CallsOf(c, stack)) \in Nat
    BY CallsNat
  <2>3. refs'[c] = refs[c] + (IF c = b THEN 1 ELSE 0) /\ UNCHANGED <<events, timers, Awaited>>
    BY DEF Calls, TypeOK, waits, Awaited
  <2> QED BY <1>1, <2>1, <2>2, <2>3
<1>5. LvglMatchesLists' /\ TreeInv' /\ StopInv'
  BY <1>0 DEF Calls, tree, waits, Awaited, LvglMatchesLists, TreeInv, StopInv
<1> QED BY <1>1, <1>2, <1>4, <1>5

\* A callback returns: the reference its trampoline held was still there.
LEMMA CallbackReturnsInv ==
  ASSUME CoreInv, CallbackReturns
  PROVE  CoreInv'
<1> USE DEF CoreInv
<1> DEFINE b == Top.of
<1>0. stack # << >> /\ Top.what = "callback" /\ Pop /\ phase' = phase
  BY DEF CallbackReturns, In
<1>1. b \in Bindings
  <2>1. stack \in Seq(Frame)
    BY DEF TypeOK
  <2> QED BY <1>0, <2>1 DEF StackInv, Top
<1>2. /\ stack' \in Seq(Frame) /\ StackInv'
      /\ \A c \in Bindings :
           /\ Cardinality(CallsOf(c, stack')) = Cardinality(CallsOf(c, stack))
                - (IF c = b THEN 1 ELSE 0)
           /\ c = b => Cardinality(CallsOf(c, stack)) >= 1
  BY <1>0, PopKeeps
<1>3. /\ fault' = (fault \/ refs[b] = 0) /\ refs' = [refs EXCEPT ![b] = @ - 1]
      /\ UNCHANGED <<phase, events, timers, hooks, lvTimers, stoppable, waits, on, tree, handles>>
  BY DEF CallbackReturns
<1> HIDE DEF b
<1>4. ASSUME NEW c \in Bindings
      PROVE  /\ refs'[c] = (IF c \in events \cup timers \cup Awaited THEN 1 ELSE 0)
                              + Cardinality(CallsOf(c, stack'))
             /\ c = b => refs[c] >= 1
             /\ refs'[c] \in Nat
  <2>1. refs[c] = (IF c \in events \cup timers \cup Awaited THEN 1 ELSE 0) + Cardinality(CallsOf(c, stack))
    BY DEF waits, Awaited, RefsBalanced
  <2>2. Cardinality(CallsOf(c, stack)) \in Nat
    BY CallsNat
  <2>3. refs'[c] = refs[c] - (IF c = b THEN 1 ELSE 0)
    BY <1>1, <1>3 DEF TypeOK
  <2>4. /\ Cardinality(CallsOf(c, stack')) = Cardinality(CallsOf(c, stack))
                - (IF c = b THEN 1 ELSE 0)
        /\ c = b => Cardinality(CallsOf(c, stack)) >= 1
    BY <1>2
  <2> QED BY <2>1, <2>2, <2>3, <2>4
<1>5. refs' \in [Bindings -> Nat]
  BY <1>1, <1>3, <1>4 DEF TypeOK
<1>6. fault' \in BOOLEAN
  BY <1>1, <1>3, <1>4 DEF TypeOK
<1>7. TypeOK'
  BY <1>2, <1>3, <1>5, <1>6 DEF TypeOK, tree, waits, Awaited
<1>8. RefsBalanced'
  BY <1>3, <1>4 DEF waits, Awaited, RefsBalanced
<1>9. LvglMatchesLists' /\ TreeInv' /\ StopInv'
  BY <1>3 DEF tree, waits, Awaited, LvglMatchesLists, TreeInv, StopInv
<1> QED BY <1>2, <1>6, <1>7, <1>8, <1>9

\* A timer is made.
LEMMA CreateTimerInv ==
  ASSUME CoreInv, NEW b \in Bindings, CreateTimer(b)
  PROVE  CoreInv'
<1> USE DEF CoreInv
<1>0. ScriptRuns /\ Unused(b)
  BY DEF CreateTimer
<1>1. phase = "up"
  BY <1>0 DEF ScriptRuns
<1>2. Cardinality(CallsOf(b, stack)) = 0
  BY <1>0, UnusedNotCalled
<1>3. /\ timers' = timers \cup {b} /\ lvTimers' = lvTimers \cup {b}
      /\ stoppable' = stoppable \cup {b} /\ refs' = [refs EXCEPT ![b] = 1]
      /\ UNCHANGED <<phase, stack, events, hooks, waits, on, tree, handles, fault>>
  BY DEF CreateTimer
<1>4. TypeOK'
  BY <1>3 DEF TypeOK, tree, waits, Awaited
<1>5. RefsBalanced'
  BY <1>2, <1>3 DEF waits, Awaited, RefsBalanced, TypeOK
<1>6. TreeInv' /\ StackInv'
  BY <1>3 DEF TreeInv, StackInv, tree, waits, Awaited
<1>7. LvglMatchesLists' /\ StopInv'
  BY <1>0, <1>1, <1>3 DEF LvglMatchesLists, StopInv, tree, waits, Awaited, Unused
<1> QED BY <1>4, <1>5, <1>6, <1>7

\* Giving back one reference to each of some listed bindings.
LEMMA ReleasedNat ==
  ASSUME CoreInv, NEW gone \in SUBSET (events \cup timers \cup Awaited)
  PROVE  /\ Released(gone) \in [Bindings -> Nat]
         /\ \A b \in gone : refs[b] >= 1
         /\ \A b \in Bindings :
              Released(gone)[b] = (IF b \in (events \cup timers \cup Awaited) \ gone THEN 1 ELSE 0)
                                    + Cardinality(CallsOf(b, stack))
<1>1. \A b \in Bindings : /\ Cardinality(CallsOf(b, stack)) \in Nat
                            /\ refs[b] = (IF b \in events \cup timers \cup Awaited THEN 1 ELSE 0)
                                            + Cardinality(CallsOf(b, stack))
  BY CallsNat DEF waits, Awaited, CoreInv, RefsBalanced
<1>2. gone \in SUBSET Bindings
  BY DEF CoreInv, TypeOK, Awaited
<1>3. \A b \in Bindings :
        Released(gone)[b] = IF b \in gone THEN refs[b] - 1 ELSE refs[b]
  BY DEF Released
<1>4. \A b \in Bindings : Released(gone)[b] \in Nat
  BY <1>1, <1>2, <1>3
<1>5. Released(gone) \in [Bindings -> Nat]
  BY <1>4 DEF Released
<1>6. \A b \in gone : refs[b] >= 1
  BY <1>1, <1>2
<1>7. \A b \in Bindings :
        Released(gone)[b] = (IF b \in (events \cup timers \cup Awaited) \ gone THEN 1 ELSE 0)
                              + Cardinality(CallsOf(b, stack))
  BY <1>1, <1>2, <1>3
<1> QED BY <1>5, <1>6, <1>7

\* Some timers are released, by their handle or by jsvm_stop().
LEMMA ReleaseTimersInv ==
  ASSUME CoreInv, NEW gone \in SUBSET timers, ReleaseTimers(gone),
         UNCHANGED <<stack, events, hooks, waits, on, tree, handles, fault>>,
         \/ phase' = phase
         \/ phase = "offline" /\ phase' = "cleaning" /\ gone = timers
  PROVE  CoreInv'
<1> USE DEF CoreInv
<1>1. /\ timers' = timers \ gone /\ lvTimers' = lvTimers \ gone
      /\ stoppable' = stoppable \ gone /\ refs' = Released(gone)
  BY DEF ReleaseTimers
<1>2. /\ Released(gone) \in [Bindings -> Nat]
      /\ \A b \in Bindings :
           Released(gone)[b] = (IF b \in (events \cup timers \cup Awaited) \ gone THEN 1 ELSE 0)
                                 + Cardinality(CallsOf(b, stack))
  BY ReleasedNat
<1>3. (events \cup timers \cup Awaited) \ gone = events \cup (timers \ gone) \cup Awaited
  BY DEF waits, Awaited, StopInv
<1>4. phase' \in {"down", "up", "offline", "cleaning", "detaching", "freeing"}
  BY DEF TypeOK
<1>5. TypeOK'
  BY <1>1, <1>2, <1>4 DEF TypeOK, tree, waits, Awaited
<1>6. RefsBalanced'
  BY <1>1, <1>2, <1>3 DEF waits, Awaited, RefsBalanced
<1>7. TreeInv' /\ LvglMatchesLists'
  BY <1>1 DEF TreeInv, LvglMatchesLists, tree, waits, Awaited
<1>8. StackInv' /\ StopInv'
  BY <1>1 DEF StackInv, StopInv, tree, waits, Awaited
<1> QED BY <1>5, <1>6, <1>7, <1>8

\* t.stop(), whoever calls it: the wrapper's opaque points at a listed timer.
LEMMA StopTimerInv ==
  ASSUME CoreInv, NEW b \in Bindings, StopTimer(b)
  PROVE  CoreInv'
<1>1. b \in timers
  BY DEF waits, Awaited, StopTimer, CoreInv, LvglMatchesLists
<1>2. fault' = fault
  BY <1>1 DEF StopTimer, CoreInv, TypeOK
<1> QED BY <1>1, <1>2, ReleaseTimersInv DEF StopTimer

\* jsvm_stop() releases every timer.
LEMMA StopTimersInv ==
  ASSUME CoreInv, StopTimers
  PROVE  CoreInv'
<1>1. \A b \in timers : refs[b] >= 1
  BY ReleasedNat
<1>2. fault' = fault
  BY <1>1 DEF StopTimers, CoreInv, TypeOK
<1> QED BY <1>2, ReleaseTimersInv DEF StopTimers

\* A scan or a fetch starts with a function of its own.
LEMMA ScanStartsInv ==
  ASSUME CoreInv, NEW b \in Bindings, ScanStarts(b)
  PROVE  CoreInv'
<1> USE DEF CoreInv
<1>0. phase = "up" /\ Unused(b) /\ scanning = {}
  BY DEF ScanStarts, ScriptRuns
<1>1. Cardinality(CallsOf(b, stack)) = 0
  BY <1>0, UnusedNotCalled
<1>2. /\ scanning' = {b} /\ polls' = polls \cup {"scan"} /\ refs' = [refs EXCEPT ![b] = 1]
      /\ UNCHANGED <<phase, stack, events, timers, hooks, lvTimers, stoppable, fetching,
                      on, tree, handles, fault>>
  BY DEF ScanStarts
<1>3. TypeOK'
  BY <1>2 DEF TypeOK, tree
<1>4. RefsBalanced'
  BY <1>0, <1>1, <1>2 DEF RefsBalanced, TypeOK, Awaited
<1>5. TreeInv' /\ StackInv'
  BY <1>2 DEF TreeInv, StackInv, tree
<1>6. LvglMatchesLists' /\ StopInv'
  BY <1>0, <1>2 DEF LvglMatchesLists, StopInv, tree, Unused, Awaited
<1> QED BY <1>3, <1>4, <1>5, <1>6

LEMMA FetchStartsInv ==
  ASSUME CoreInv, NEW b \in Bindings, FetchStarts(b)
  PROVE  CoreInv'
<1> USE DEF CoreInv
<1>0. phase = "up" /\ Unused(b) /\ fetching = {}
  BY DEF FetchStarts, ScriptRuns
<1>1. Cardinality(CallsOf(b, stack)) = 0
  BY <1>0, UnusedNotCalled
<1>2. /\ fetching' = {b} /\ polls' = polls \cup {"fetch"} /\ refs' = [refs EXCEPT ![b] = 1]
      /\ UNCHANGED <<phase, stack, events, timers, hooks, lvTimers, stoppable, scanning,
                      on, tree, handles, fault>>
  BY DEF FetchStarts
<1>3. TypeOK'
  BY <1>2 DEF TypeOK, tree
<1>4. RefsBalanced'
  BY <1>0, <1>1, <1>2 DEF RefsBalanced, TypeOK, Awaited
<1>5. TreeInv' /\ StackInv'
  BY <1>2 DEF TreeInv, StackInv, tree
<1>6. LvglMatchesLists' /\ StopInv'
  BY <1>0, <1>2 DEF LvglMatchesLists, StopInv, tree, Unused, Awaited
<1> QED BY <1>3, <1>4, <1>5, <1>6

\* The scan's reference becomes the call's.
LEMMA ScanAnswersInv ==
  ASSUME CoreInv, ScanAnswers
  PROVE  CoreInv'
<1> USE DEF CoreInv
<1>0. phase = "up" /\ stack = << >> /\ scanning # {}
  BY DEF ScanAnswers, LvglMatchesLists, StopInv, Awaited
<1>1. PICK b \in scanning : Push("callback", b)
  BY DEF ScanAnswers
<1>2. /\ scanning' = {} /\ polls' = polls \ {"scan"}
      /\ fault' = (fault \/ scanning = {} \/ phase # "up")
      /\ UNCHANGED <<phase, events, timers, hooks, lvTimers, stoppable, refs, fetching,
                      on, tree, handles>>
  BY DEF ScanAnswers
<1>3. b \in Bindings /\ (\A c \in scanning : c = b)
  BY DEF TypeOK, StopInv
<1>4. /\ stack' \in Seq(Frame) /\ StackInv'
      /\ \A c \in Bindings :
           Cardinality(CallsOf(c, stack')) = Cardinality(CallsOf(c, stack))
             + (IF c = b THEN 1 ELSE 0)
  BY <1>0, <1>1, <1>2, <1>3, PushKeeps
<1>5. fault' = fault
  BY <1>0, <1>2 DEF TypeOK
<1>6. TypeOK'
  BY <1>2, <1>4, <1>5 DEF TypeOK, tree
<1>7. RefsBalanced'
  <2> SUFFICES ASSUME NEW c \in Bindings
               PROVE  refs'[c] = (IF c \in events' \cup timers' \cup Awaited' THEN 1 ELSE 0)
                                   + Cardinality(CallsOf(c, stack'))
    BY DEF RefsBalanced
  <2>1. refs[c] = (IF c \in events \cup timers \cup Awaited THEN 1 ELSE 0)
                    + Cardinality(CallsOf(c, stack))
    BY DEF RefsBalanced
  <2>2. Cardinality(CallsOf(c, stack)) \in Nat
    BY CallsNat
  <2>3. c \in events' \cup timers' \cup Awaited'
          <=> c # b /\ c \in events \cup timers \cup Awaited
    BY <1>2, <1>3 DEF Awaited, StopInv
  <2>4. b \in Awaited
    BY DEF Awaited
  <2> QED BY <1>2, <1>4, <2>1, <2>2, <2>3, <2>4
<1>8. TreeInv'
  BY <1>2, <1>5 DEF TreeInv, tree
<1>9. LvglMatchesLists' /\ StopInv'
  BY <1>2 DEF LvglMatchesLists, StopInv, tree, Awaited
<1> QED BY <1>4, <1>6, <1>7, <1>8, <1>9

\* Functions that wait for the network are freed, by an answer or by jsvm_stop().
LEMMA WaitsEnd ==
  ASSUME CoreInv, NEW gone \in SUBSET Awaited, refs' = Released(gone),
         \/ phase' = phase
         \/ phase' = "offline" /\ stack = << >> /\ gone = Awaited,
         phase = "up",
         Awaited' = Awaited \ gone, scanning' \in SUBSET scanning, fetching' \in SUBSET fetching,
         polls' \in SUBSET {"scan", "fetch"},
         "scan" \in polls' <=> scanning' # {}, "fetch" \in polls' <=> fetching' # {},
         UNCHANGED <<stack, events, timers, hooks, lvTimers, stoppable, on, tree, handles, fault>>
  PROVE  CoreInv'
<1> USE DEF CoreInv
<1>1. /\ Released(gone) \in [Bindings -> Nat]
      /\ \A b \in Bindings :
           Released(gone)[b] = (IF b \in (events \cup timers \cup Awaited) \ gone THEN 1 ELSE 0)
                                 + Cardinality(CallsOf(b, stack))
  BY ReleasedNat
<1>2. (events \cup timers \cup Awaited) \ gone = events \cup timers \cup Awaited'
  BY DEF StopInv
<1>3. TypeOK'
  BY <1>1 DEF TypeOK, tree
<1>4. RefsBalanced'
  BY <1>1, <1>2 DEF RefsBalanced
<1>5. TreeInv' /\ StackInv' /\ LvglMatchesLists'
  BY DEF TreeInv, StackInv, LvglMatchesLists, tree
<1>6. StopInv'
  <2>1. gone \in SUBSET Awaited /\ Awaited' \in SUBSET Awaited
    OBVIOUS
  <2>2. scanning' \cap fetching' = {}
    BY DEF StopInv
  <2>3. phase' # "up" => Awaited' = {}
    OBVIOUS
  <2> QED BY <2>1, <2>2, <2>3 DEF StopInv, tree
<1> QED BY <1>3, <1>4, <1>5, <1>6

LEMMA FetchSettlesInv ==
  ASSUME CoreInv, FetchSettles
  PROVE  CoreInv'
<1> USE DEF CoreInv
<1>1. phase = "up" /\ fetching # {} /\ fault' = fault
  BY DEF FetchSettles, LvglMatchesLists, StopInv, Awaited, TypeOK
<1>2. Awaited' = Awaited \ fetching /\ fetching \in SUBSET Awaited
  BY DEF FetchSettles, Awaited, StopInv
<1>3. polls' \in SUBSET {"scan", "fetch"} /\ ("scan" \in polls' <=> scanning' # {})
      /\ ("fetch" \in polls' <=> fetching' # {})
  BY DEF FetchSettles, LvglMatchesLists, TypeOK
<1>4. /\ refs' = Released(fetching) /\ scanning' \in SUBSET scanning /\ fetching' \in SUBSET fetching
      /\ UNCHANGED <<stack, events, timers, hooks, lvTimers, stoppable, on, tree, handles, fault>>
      /\ phase' = phase
  BY <1>1 DEF FetchSettles
<1> HIDE DEF CoreInv
<1> QED BY <1>1, <1>2, <1>3, <1>4, WaitsEnd

\* js_teardown_wifi() frees both.
LEMMA StopNetworkInv ==
  ASSUME CoreInv, StopNetwork
  PROVE  CoreInv'
<1>1. Awaited' = {} /\ phase = "up" /\ stack = << >> /\ scanning' = {} /\ fetching' = {}
      /\ polls' = {} /\ phase' = "offline" /\ refs' = Released(Awaited)
  BY DEF StopNetwork, Awaited
<1>2. UNCHANGED <<stack, events, timers, hooks, lvTimers, stoppable, on, tree, handles, fault>>
  BY DEF StopNetwork
<1> QED BY <1>1, <1>2, WaitsEnd

\* A widget joins the tree under a live parent.
LEMMA NewWidgetKeeps ==
  ASSUME CoreInv, NEW parent \in live, NEW w \in Widgets, NewWidget(parent, w),
         phase = "up", UNCHANGED <<phase, owned, on>>
  PROVE  /\ live \subseteq live' /\ live' \in SUBSET Objects /\ Screen \in live'
         /\ above' \in [Objects -> SUBSET Objects] /\ ident' \in [Objects -> Nat]
         /\ made' \in Nat
         /\ TreeInv' /\ LvglMatchesLists' /\ StopInv'
<1> USE DEF CoreInv
<1>1. /\ w \in Objects /\ w # Screen /\ parent \in Objects
      /\ made' = made + 1 /\ live' = live \cup {w} /\ w \notin live
      /\ above' = [above EXCEPT ![w] = above[parent] \cup {parent}]
      /\ ident' = [ident EXCEPT ![w] = made + 1]
  BY DEF NewWidget, Objects, TypeOK
<1>2. /\ live \subseteq live' /\ live' \in SUBSET Objects /\ Screen \in live'
      /\ above' \in [Objects -> SUBSET Objects] /\ ident' \in [Objects -> Nat]
      /\ made' \in Nat
  BY <1>1 DEF TypeOK
<1>4. Screen \in above[parent] \cup {parent}
  BY DEF TreeInv
<1>5. TreeInv'
  BY <1>1, <1>4 DEF TreeInv, TypeOK
<1>6. LvglMatchesLists' /\ StopInv'
  BY <1>1 DEF waits, Awaited, LvglMatchesLists, StopInv, owned
<1> QED BY <1>2, <1>5, <1>6

\* A constructor's widget joins the tree under a live parent, with the constructor
\* at work on it.
LEMMA MakeWidgetInv ==
  ASSUME CoreInv, NEW h \in handles, NEW w \in Widgets, MakeWidget(h, w)
  PROVE  CoreInv'
<1> USE DEF CoreInv
<1>1. /\ h.at \in live /\ NewWidget(h.at, w) /\ Push("make", w)
      /\ UNCHANGED <<phase, owned, on, handles, fault>>
  BY DEF MakeWidget, Accepted
<1>2. phase = "up" /\ phase' = "up"
  BY <1>1 DEF MakeWidget, ScriptRuns
<1>3. /\ live \subseteq live' /\ live' \in SUBSET Objects /\ Screen \in live'
      /\ above' \in [Objects -> SUBSET Objects] /\ ident' \in [Objects -> Nat]
      /\ made' \in Nat
      /\ TreeInv' /\ LvglMatchesLists' /\ StopInv'
  BY <1>1, <1>2, NewWidgetKeeps
<1>4. /\ stack' \in Seq(Frame) /\ StackInv'
      /\ \A b \in Bindings :
           Cardinality(CallsOf(b, stack')) = Cardinality(CallsOf(b, stack)) + 0
  <2>1. w \in Objects /\ w \in Bindings \cup Objects
    BY DEF Objects
  <2> QED BY <1>1, <1>2, <2>1, PushKeeps
<1>5. \A b \in Bindings : Cardinality(CallsOf(b, stack)) \in Nat
  BY CallsNat
<1>6. TypeOK'
  BY <1>1, <1>3, <1>4 DEF waits, Awaited, TypeOK, owned
<1>7. RefsBalanced'
  BY <1>1, <1>4, <1>5 DEF waits, Awaited, RefsBalanced, owned
<1> QED BY <1>3, <1>4, <1>6, <1>7

\* A binding or a constructor ends: no call is left.
LEMMA NativeEnds ==
  ASSUME CoreInv, AtWork, Pop, phase' = phase
  PROVE  /\ stack' \in Seq(Frame) /\ StackInv'
         /\ \A b \in Bindings :
              Cardinality(CallsOf(b, stack')) = Cardinality(CallsOf(b, stack))
         /\ Top.of \in Objects /\ phase = "up"
<1> USE DEF CoreInv
<1>1. stack # << >> /\ Top.what # "callback" /\ stack \in Seq(Frame)
  BY DEF AtWork, In, TypeOK
<1>2. Top.of \in Objects /\ phase = "up"
  BY <1>1 DEF StackInv, Top
<1>3. /\ stack' \in Seq(Frame) /\ StackInv'
      /\ \A b \in Bindings :
           Cardinality(CallsOf(b, stack')) = Cardinality(CallsOf(b, stack)) - 0
  BY <1>1, PopKeeps
<1>4. \A b \in Bindings : Cardinality(CallsOf(b, stack)) \in Nat
  BY CallsNat
<1> QED BY <1>2, <1>3, <1>4

\* A row or a tab joins the tree under the list or tab view it was added to.
LEMMA AddWidgetInv ==
  ASSUME CoreInv, NEW w \in Widgets, AddWidget(w)
  PROVE  CoreInv'
<1> USE DEF CoreInv
<1> DEFINE o == Top.of
<1>1. /\ AtWork /\ Pop /\ NewWidget(o, w) /\ o \in live
      /\ handles' = handles \cup {[at |-> w, id |-> made + 1]}
      /\ UNCHANGED <<phase, owned, on, fault>>
  BY DEF AddWidget, AtWork
<1>2. /\ stack' \in Seq(Frame) /\ StackInv'
      /\ \A b \in Bindings :
           Cardinality(CallsOf(b, stack')) = Cardinality(CallsOf(b, stack))
      /\ phase = "up"
  BY <1>1, NativeEnds
<1> HIDE DEF o
<1>3. /\ live \subseteq live' /\ live' \in SUBSET Objects /\ Screen \in live'
      /\ above' \in [Objects -> SUBSET Objects] /\ ident' \in [Objects -> Nat]
      /\ made' \in Nat
      /\ TreeInv' /\ LvglMatchesLists' /\ StopInv'
  BY <1>1, <1>2, NewWidgetKeeps
<1>4. handles' \in SUBSET [at: Objects, id: Nat]
  BY <1>1 DEF TypeOK, Objects
<1>5. TypeOK'
  BY <1>1, <1>2, <1>3, <1>4 DEF waits, Awaited, TypeOK, owned
<1>6. RefsBalanced'
  BY <1>1, <1>2 DEF waits, Awaited, RefsBalanced, owned
<1> QED BY <1>2, <1>3, <1>5, <1>6

\* A binding or a constructor that ends leaves everything but its call and maybe a
\* handle.
LEMMA TouchInv ==
  ASSUME CoreInv, Made \/ Touch \/ ReturnsUntouched
  PROVE  CoreInv'
<1> USE DEF CoreInv
<1> DEFINE o == Top.of
<1>1. /\ AtWork /\ Pop
      /\ fault' = fault \/ fault' = (fault \/ o \notin live)
      /\ handles' = handles \/ handles' = handles \cup {[at |-> o, id |-> ident[o]]}
      /\ UNCHANGED <<phase, owned, on, tree>>
  BY DEF Made, Touch, ReturnsUntouched, AtWork
<1>2. /\ stack' \in Seq(Frame) /\ StackInv'
      /\ \A b \in Bindings :
           Cardinality(CallsOf(b, stack')) = Cardinality(CallsOf(b, stack))
      /\ o \in Objects
  BY <1>1, NativeEnds
<1> HIDE DEF o
<1>3. handles' \in SUBSET [at: Objects, id: Nat] /\ fault' \in BOOLEAN
  <2>1. ident[o] \in Nat /\ handles \in SUBSET [at: Objects, id: Nat] /\ fault \in BOOLEAN
    BY <1>2 DEF TypeOK
  <2>2. [at |-> o, id |-> ident[o]] \in [at: Objects, id: Nat]
    BY <1>2, <2>1
  <2>3. handles' \in SUBSET [at: Objects, id: Nat]
    BY <1>1, <2>1, <2>2
  <2>4. fault' \in BOOLEAN
    BY <1>1, <2>1
  <2> QED BY <2>3, <2>4
<1>4. TypeOK'
  BY <1>1, <1>2, <1>3 DEF TypeOK, owned, tree, waits, Awaited
<1>5. RefsBalanced' /\ LvglMatchesLists' /\ TreeInv' /\ StopInv'
  BY <1>1, <1>2
  DEF RefsBalanced, LvglMatchesLists, TreeInv, StopInv, owned, tree, waits, Awaited
<1> QED BY <1>2, <1>4, <1>5

\* .on() binds to an object that is still there.
LEMMA BindEventInv ==
  ASSUME CoreInv, NEW b \in Bindings, BindEvent(b)
  PROVE  CoreInv'
<1> USE DEF CoreInv
<1> DEFINE o == Top.of
<1>1. /\ AtWork /\ Pop /\ Unused(b) /\ o \in live
      /\ events' = events \cup {b} /\ hooks' = hooks \cup {b}
      /\ on' = [on EXCEPT ![b] = o] /\ refs' = [refs EXCEPT ![b] = 1]
      /\ UNCHANGED <<phase, timers, lvTimers, stoppable, waits, tree, handles, fault>>
  BY DEF BindEvent, AtWork
<1>2. /\ stack' \in Seq(Frame) /\ StackInv'
      /\ \A c \in Bindings :
           Cardinality(CallsOf(c, stack')) = Cardinality(CallsOf(c, stack))
      /\ phase = "up"
  BY <1>1, NativeEnds
<1>3. Cardinality(CallsOf(b, stack)) = 0
  BY <1>1, UnusedNotCalled
<1> HIDE DEF o
<1>5. TypeOK'
  BY <1>1, <1>2 DEF TypeOK, tree, waits, Awaited
<1>6. RefsBalanced'
  BY <1>1, <1>2, <1>3 DEF waits, Awaited, RefsBalanced, TypeOK
<1>7. TreeInv'
  BY <1>1 DEF TreeInv, tree
<1>8. LvglMatchesLists' /\ StopInv'
  BY <1>1, <1>2 DEF LvglMatchesLists, StopInv, tree, waits, Awaited, Unused, TypeOK
<1> QED BY <1>2, <1>5, <1>6, <1>7, <1>8

\* A binding goes to work on an object of the tree.
LEMMA UnwrapInv ==
  ASSUME CoreInv, NEW h \in handles, Unwrap(h)
  PROVE  CoreInv'
<1> USE DEF CoreInv
<1>1. /\ ScriptRuns /\ h.at \in live /\ Push("native", h.at)
      /\ UNCHANGED <<phase, owned, on, tree, handles, fault>>
  BY DEF Unwrap, Accepted
<1>2. phase = "up"
  BY <1>1 DEF ScriptRuns
<1>3. h.at \in Objects /\ h.at \in Bindings \cup Objects /\ phase' = "up"
  BY <1>1, <1>2 DEF TypeOK
<1>4. /\ stack' \in Seq(Frame) /\ StackInv'
      /\ \A b \in Bindings :
           Cardinality(CallsOf(b, stack')) = Cardinality(CallsOf(b, stack)) + 0
  BY <1>1, <1>2, <1>3, PushKeeps
<1>5. \A b \in Bindings : Cardinality(CallsOf(b, stack)) \in Nat
  BY CallsNat
<1>6. TypeOK'
  BY <1>1, <1>4 DEF TypeOK, owned, tree, waits, Awaited
<1>7. RefsBalanced'
  BY <1>1, <1>4, <1>5 DEF waits, Awaited, RefsBalanced, owned
<1>8. LvglMatchesLists' /\ TreeInv' /\ StopInv'
  BY <1>1 DEF LvglMatchesLists, TreeInv, StopInv, owned, tree, waits, Awaited
<1> QED BY <1>4, <1>6, <1>7, <1>8

\* Objects below the screen go, and their bindings with them.
LEMMA DestroyInv ==
  ASSUME CoreInv, NEW gone \in SUBSET (live \ {Screen}), Destroy(gone),
         UNCHANGED <<stack, timers, lvTimers, stoppable, waits, on,
                     above, ident, made, handles, fault>>,
         \/ phase' = phase /\ phase = "up"
         \/ phase' = "detaching" /\ phase = "cleaning" /\ live \ {Screen} \subseteq gone
  PROVE  CoreInv'
<1> USE DEF CoreInv
<1> DEFINE released == {b \in hooks : on[b] \in gone}
<1>1. /\ live' = live \ gone /\ events' = events \ released
      /\ hooks' = hooks \ released /\ refs' = Released(released)
  BY DEF Destroy
<1>2. released \in SUBSET (events \cup timers) /\ released \cap (timers \cup Awaited) = {}
  BY DEF waits, Awaited, LvglMatchesLists, StopInv
<1>3. \A b \in events \ released : on[b] \in live \ gone
  BY DEF waits, Awaited, LvglMatchesLists
<1> HIDE DEF released
<1>4. /\ Released(released) \in [Bindings -> Nat]
      /\ \A b \in Bindings :
           Released(released)[b] = (IF b \in (events \cup timers \cup Awaited) \ released THEN 1 ELSE 0)
                                     + Cardinality(CallsOf(b, stack))
  BY <1>2, ReleasedNat
<1>5. (events \cup timers \cup Awaited) \ released = (events \ released) \cup timers \cup Awaited
  BY <1>2
<1>6. TypeOK'
  BY <1>1, <1>4 DEF TypeOK, waits
<1>7. RefsBalanced'
  BY <1>1, <1>4, <1>5 DEF waits, Awaited, RefsBalanced
<1>8. TreeInv' /\ StackInv'
  BY <1>1 DEF TreeInv, StackInv
<1>9. LvglMatchesLists'
  BY <1>1, <1>3 DEF waits, Awaited, LvglMatchesLists
<1>10. StopInv'
  BY <1>1 DEF waits, Awaited, StopInv, TypeOK
<1> QED BY <1>6, <1>7, <1>8, <1>9, <1>10

\* clean(), delete() and the lv_obj_clean() of jsvm_stop() never destroy the
\* screen.
LEMMA CleanInv ==
  ASSUME CoreInv, NEW h \in handles, Clean(h) \/ Delete(h)
  PROVE  CoreInv'
<1>1. ScriptRuns /\ h.at \in live
  BY DEF Clean, Delete, Accepted
<1>2. phase = "up"
  BY <1>1 DEF ScriptRuns
<1>3. Below(h.at) \in SUBSET (live \ {Screen})
  BY DEF Below, CoreInv, TreeInv
<1>4. CASE Clean(h)
  BY <1>2, <1>3, <1>4, DestroyInv DEF Clean
<1>5. CASE Delete(h)
  <2>1. Below(h.at) \cup {h.at} \in SUBSET (live \ {Screen})
    BY <1>1, <1>3, <1>5 DEF Delete
  <2> QED BY <1>2, <1>5, <2>1, DestroyInv DEF Delete
<1> QED BY <1>4, <1>5

\* Cleaning the screen takes every widget and leaves the screen.
LEMMA StopTreeInv ==
  ASSUME CoreInv, StopTree
  PROVE  CoreInv'
<1>1. Below(Screen) = live \ {Screen}
  BY DEF Below, CoreInv, TreeInv, TypeOK
<1>2. stack = << >> /\ phase = "cleaning"
  BY DEF StopTree, CoreInv, StackInv
<1> QED BY <1>1, <1>2, DestroyInv DEF StopTree

\* What is left by then is bound to the screen.
LEMMA StopScreenInv ==
  ASSUME CoreInv, StopScreen
  PROVE  CoreInv'
<1> USE DEF CoreInv
<1>1. /\ phase = "detaching" /\ phase' = "freeing" /\ hooks' = hooks \ events
      /\ fault' = (fault \/ \E b \in events : on[b] \notin live)
      /\ refs' = Released(events) /\ events' = {}
      /\ UNCHANGED <<stack, timers, lvTimers, stoppable, waits, on, tree, handles>>
  BY DEF StopScreen
<1>2. fault' = fault
  BY <1>1 DEF waits, Awaited, LvglMatchesLists, TypeOK
<1>3. /\ Released(events) \in [Bindings -> Nat]
      /\ \A b \in Bindings :
           Released(events)[b] = (IF b \in (events \cup timers \cup Awaited) \ events THEN 1 ELSE 0)
                                   + Cardinality(CallsOf(b, stack))
  BY ReleasedNat
<1>4. (events \cup timers \cup Awaited) \ events = {} \cup timers \cup Awaited
  BY DEF waits, Awaited, StopInv
<1>5. TypeOK'
  BY <1>1, <1>2, <1>3 DEF TypeOK, tree, waits, Awaited
<1>6. RefsBalanced'
  BY <1>1, <1>3, <1>4 DEF waits, Awaited, RefsBalanced
<1>7. TreeInv' /\ StackInv'
  BY <1>1, <1>2 DEF TreeInv, StackInv, tree, waits, Awaited
<1>8. LvglMatchesLists' /\ StopInv'
  BY <1>1 DEF LvglMatchesLists, StopInv, tree, waits, Awaited
<1> QED BY <1>5, <1>6, <1>7, <1>8

\* By the time the context goes nothing is held any more.
LEMMA StopContextInv ==
  ASSUME CoreInv, StopContext
  PROVE  CoreInv'
<1> USE DEF CoreInv
<1>1. /\ phase = "freeing" /\ phase' = "down" /\ handles' = {} /\ stoppable' = {}
      /\ UNCHANGED <<stack, events, timers, hooks, lvTimers, refs, waits, on, tree, fault>>
  BY DEF StopContext
<1>2. TypeOK'
  BY <1>1 DEF TypeOK, tree, waits, Awaited
<1>3. RefsBalanced' /\ TreeInv' /\ StackInv'
  BY <1>1 DEF RefsBalanced, TreeInv, StackInv, tree, waits, Awaited
<1>4. LvglMatchesLists' /\ StopInv'
  BY <1>1 DEF LvglMatchesLists, StopInv, tree, waits, Awaited
<1> QED BY <1>2, <1>3, <1>4

\* The host starts the VM, or a piece of script in it, and the script returns.
LEMMA HostInv ==
  ASSUME CoreInv, Host
  PROVE  CoreInv'
<1> USE DEF CoreInv
<1>1. ScriptFrame \in Frame /\ ScriptFrame.what = "script" /\ ScriptFrame.of \in Objects
  BY DEF ScriptFrame, Frame, Objects
<1>2. CASE Start \/ HostRunsScript
  <2>1. /\ stack = << >> /\ stack' = <<ScriptFrame>> /\ phase' = "up"
        /\ UNCHANGED <<owned, on, live, above, ident, fault>>
    BY <1>2 DEF Start, HostRunsScript, tree, waits, Awaited, StackInv
  <2>2. made' \in Nat /\ handles' \in SUBSET [at: Objects, id: Nat]
    BY <1>2 DEF Start, HostRunsScript, tree, waits, Awaited, TypeOK, Objects
  <2>3. stack' \in Seq(Frame) /\ DOMAIN stack' = {1} /\ stack'[1] = ScriptFrame
    BY <1>1, <2>1
  <2>4. TypeOK'
    BY <2>1, <2>2, <2>3 DEF waits, Awaited, TypeOK, owned
  <2>5. RefsBalanced'
    BY <2>1, NoCalls, NoCallsInScript DEF waits, Awaited, RefsBalanced, owned
  <2>6. StackInv'
    BY <1>1, <2>1, <2>3 DEF StackInv
  <2>7. LvglMatchesLists' /\ TreeInv' /\ StopInv'
    BY <2>1 DEF waits, Awaited, LvglMatchesLists, TreeInv, StopInv, owned
  <2> QED BY <2>4, <2>5, <2>6, <2>7
<1>3. CASE ScriptReturns
  <2>1. /\ stack # << >> /\ Top.what = "script" /\ Pop
        /\ UNCHANGED <<phase, owned, on, tree, handles, fault>>
    BY <1>3 DEF ScriptReturns, In
  <2>2. /\ stack' \in Seq(Frame) /\ StackInv'
        /\ \A b \in Bindings :
             Cardinality(CallsOf(b, stack')) = Cardinality(CallsOf(b, stack)) - 0
    BY <2>1, PopKeeps
  <2>3. \A b \in Bindings : Cardinality(CallsOf(b, stack)) \in Nat
    BY CallsNat
  <2>4. TypeOK'
    BY <2>1, <2>2 DEF TypeOK, owned, tree, waits, Awaited
  <2>5. RefsBalanced'
    BY <2>1, <2>2, <2>3 DEF waits, Awaited, RefsBalanced, owned
  <2>6. LvglMatchesLists' /\ TreeInv' /\ StopInv'
    BY <2>1 DEF LvglMatchesLists, TreeInv, StopInv, owned, tree, waits, Awaited
  <2> QED BY <2>2, <2>4, <2>5, <2>6
<1> QED BY <1>2, <1>3 DEF Host

\* LVGL dispatches to a binding the core holds, in a VM that is up, from the loop or
\* from within a binding that sets a text.
LEMMA TrampolineInv ==
  ASSUME CoreInv, Trampoline
  PROVE  CoreInv'
<1>1. ASSUME NEW b \in Bindings, LvglDispatches(b) PROVE CoreInv'
  <2>1. b \in events \cup timers /\ phase = "up" /\ stack = << >>
    BY <1>1 DEF waits, Awaited, LvglDispatches, CoreInv, LvglMatchesLists, StopInv
  <2> QED BY <1>1, <2>1, CallsInv DEF LvglDispatches
<1>2. ASSUME NEW b \in Bindings, SetValueRaises(b) PROVE CoreInv'
  <2>1. b \in events \cup timers /\ phase = "up"
    BY <1>2 DEF SetValueRaises, AtWork, In, CoreInv, LvglMatchesLists, StackInv
  <2> QED BY <1>2, <2>1, CallsInv DEF SetValueRaises
<1> QED BY <1>1, <1>2, CallbackReturnsInv DEF Trampoline

\* Every call and every return keeps the invariant.
LEMMA NextInv ==
  ASSUME CoreInv, [Next]_vars
  PROVE  CoreInv'
<1>1. CASE Host
  BY <1>1, HostInv
<1>2. CASE Trampoline
  BY <1>2, TrampolineInv
<1>3. CASE Timer
  BY <1>3, CreateTimerInv, StopTimerInv DEF Timer
<1>4. CASE Widget
  BY <1>4, MakeWidgetInv, CleanInv, UnwrapInv, TouchInv, AddWidgetInv, BindEventInv
  DEF Widget
<1>5. CASE Stop
  BY <1>5, StopNetworkInv, StopTimersInv, StopTreeInv, StopScreenInv, StopContextInv DEF Stop
<1>6. CASE UNCHANGED vars
  <2>1. TypeOK'
    BY <1>6 DEF CoreInv, TypeOK, vars, owned, tree, waits, Awaited
  <2>2. RefsBalanced' /\ LvglMatchesLists'
    BY <1>6 DEF CoreInv, RefsBalanced, LvglMatchesLists, vars, owned, tree, waits, Awaited
  <2>3. TreeInv' /\ StackInv' /\ StopInv'
    BY <1>6 DEF CoreInv, TreeInv, StackInv, StopInv, vars, owned, tree, waits, Awaited
  <2> QED BY <2>1, <2>2, <2>3 DEF CoreInv
<1>7. CASE Network
  BY <1>7, ScanStartsInv, FetchStartsInv, ScanAnswersInv, FetchSettlesInv DEF Network
<1> QED BY <1>1, <1>2, <1>3, <1>4, <1>5, <1>6, <1>7 DEF Next

-----------------------------------------------------------------------------
(* What a step touches.                                                    *)

\* A trampoline is entered with its binding listed and the VM up.
LEMMA CallsTouches ==
  ASSUME CoreInv, NEW b \in Bindings, Calls(b), b \in hooks \cup lvTimers,
         phase \in {"up", "down"}
  PROVE  fault' = fault
<1>1. b \in events \cup timers
  BY DEF CoreInv, LvglMatchesLists
<1>2. phase = "up"
  BY <1>1 DEF CoreInv, StopInv
<1>3. fault' = (fault \/ b \notin events \cup timers \/ phase # "up") /\ fault \in BOOLEAN
  BY DEF Calls, CoreInv, TypeOK
<1> QED BY <1>1, <1>2, <1>3

\* A trampoline that returns still holds its reference.
LEMMA ReturnTouches ==
  ASSUME CoreInv, CallbackReturns
  PROVE  fault' = fault
<1>1. /\ stack # << >> /\ Top.what = "callback" /\ stack \in Seq(Frame)
      /\ fault' = (fault \/ refs[Top.of] = 0) /\ fault \in BOOLEAN
  BY DEF CallbackReturns, In, CoreInv, TypeOK
<1>2. Top.of \in Bindings
  BY <1>1 DEF CoreInv, StackInv, Top
<1>3. IsCall(Top, Top.of) => Cardinality(CallsOf(Top.of, stack)) >= 1
  BY <1>1, CallsPop DEF Top
<1>4. Cardinality(CallsOf(Top.of, stack)) >= 1
  BY <1>1, <1>3 DEF IsCall
<1>5. refs[Top.of] # 0
  BY <1>2, <1>4, CallsNat DEF CoreInv, RefsBalanced
<1> QED BY <1>1, <1>5

\* Of all steps, only that of a binding that has lost its object can be the first
\* to touch freed memory.
LEMMA StepTouches ==
  ASSUME CoreInv, [Next]_vars
  PROVE  fault' => fault \/ Undercut
<1>1. CASE Host
  BY <1>1 DEF Host, Start, HostRunsScript, ScriptReturns
<1>2. CASE Trampoline
  <2>1. ASSUME NEW b \in Bindings, LvglDispatches(b) PROVE fault' = fault
    BY <2>1, CallsTouches DEF LvglDispatches
  <2>2. ASSUME NEW b \in Bindings, SetValueRaises(b) PROVE fault' = fault
    <3>1. phase = "up"
      BY <2>2 DEF SetValueRaises, AtWork, In, CoreInv, StackInv
    <3> QED BY <2>2, <3>1, CallsTouches DEF SetValueRaises
  <2> QED BY <1>2, <2>1, <2>2, ReturnTouches DEF Trampoline
<1>3. CASE Timer
  <2>1. ASSUME NEW b \in Bindings, StopTimer(b) PROVE fault' => fault
    BY <2>1 DEF StopTimer, CoreInv, LvglMatchesLists
  <2> QED BY <1>3, <2>1 DEF Timer, CreateTimer
<1>4. CASE Widget
  <2>1. ASSUME Made \/ Touch PROVE fault' => fault \/ Undercut
    BY <2>1 DEF Made, Touch, Undercut, AtWork
  <2>2. ASSUME NEW h \in handles, NEW w \in Widgets, MakeWidget(h, w) PROVE fault' = fault
    BY <2>2 DEF MakeWidget
  <2>3. ASSUME NEW h \in handles, Clean(h) \/ Delete(h) \/ Unwrap(h) PROVE fault' = fault
    BY <2>3 DEF Clean, Delete, Unwrap
  <2>4. ASSUME NEW w \in Widgets, AddWidget(w) PROVE fault' = fault
    BY <2>4 DEF AddWidget
  <2>5. ASSUME NEW b \in Bindings, BindEvent(b) PROVE fault' = fault
    BY <2>5 DEF BindEvent
  <2>6. ASSUME ReturnsUntouched PROVE fault' = fault
    BY <2>6 DEF ReturnsUntouched
  <2> QED BY <1>4, <2>1, <2>2, <2>3, <2>4, <2>5, <2>6 DEF Widget
<1>5. CASE Network
  <2>1. ASSUME ScanAnswers PROVE fault' => fault
    BY <2>1 DEF ScanAnswers, CoreInv, LvglMatchesLists, StopInv, Awaited
  <2>2. ASSUME FetchSettles PROVE fault' => fault
    BY <2>2 DEF FetchSettles, CoreInv, LvglMatchesLists, StopInv, Awaited
  <2> QED BY <1>5, <2>1, <2>2 DEF Network, ScanStarts, FetchStarts
<1>6. CASE Stop
  <2>1. ASSUME StopTimers PROVE fault' => fault
    <3>1. \A b \in timers : refs[b] >= 1
      BY ReleasedNat
    <3>2. ~ \E b \in timers : refs[b] = 0
      BY <3>1
    <3>3. fault' = (fault \/ \E b \in timers : refs[b] = 0)
      BY <2>1 DEF StopTimers
    <3> QED BY <3>2, <3>3
  <2>2. ASSUME StopScreen PROVE fault' => fault
    BY <2>2 DEF StopScreen, CoreInv, LvglMatchesLists
  <2> QED BY <1>6, <2>1, <2>2 DEF Stop, StopNetwork, StopTree, StopContext
<1>7. CASE UNCHANGED vars
  BY <1>7 DEF vars
<1> QED BY <1>1, <1>2, <1>3, <1>4, <1>5, <1>6, <1>7 DEF Next

\* The call entered is the one on top.
LEMMA PushTop ==
  ASSUME CoreInv, NEW what, NEW of, Push(what, of)
  PROVE  stack' # << >> /\ Top'.what = what /\ Top'.of = of
<1>1. stack \in Seq(Frame) /\ stack' = Append(stack, [what |-> what, of |-> of])
  BY DEF CoreInv, TypeOK, Push
<1>2. Len(stack') = Len(stack) + 1 /\ stack'[Len(stack) + 1] = [what |-> what, of |-> of]
  BY <1>1
<1> QED BY <1>1, <1>2 DEF Top

\* A call left makes the stack shorter.
LEMMA PopShorter ==
  ASSUME CoreInv, stack # << >>, Pop
  PROVE  Len(stack') = Len(stack) - 1 /\ Len(stack) \in Nat
<1> DEFINE n == Len(stack) - 1
<1>1. stack \in Seq(Frame) /\ Len(stack) \in Nat /\ Len(stack) >= 1
  BY DEF CoreInv, TypeOK
<1>2. n \in Nat /\ 1 \in Int /\ n \in Int /\ \A i \in 1..n : stack[i] \in Frame
  BY <1>1
<1> HIDE DEF n
<1>3. Len(SubSeq(stack, 1, n)) = IF 1 <= n THEN n - 1 + 1 ELSE 0
  BY <1>2, SubSeqProperties
<1>4. Len(SubSeq(stack, 1, n)) = n
  BY <1>2, <1>3
<1> QED BY <1>1, <1>4 DEF Pop, n

\* A step that goes to work on an object finds it in the tree.
LEMMA StepEnters ==
  ASSUME CoreInv, [Next]_vars, Len(stack') > Len(stack)
  PROVE  ~Undercut'
<1> DEFINE Callback == \E b \in Bindings : Push("callback", b)
<1>0. Len(stack) \in Nat
  BY DEF CoreInv, TypeOK
<1>1. ASSUME Callback PROVE ~Undercut'
  BY <1>1, PushTop DEF Undercut, AtWork, In
<1>2. ASSUME stack # << >>, Pop PROVE FALSE
  BY <1>0, <1>2, PopShorter
<1>3. ASSUME stack' = stack PROVE FALSE
  BY <1>0, <1>3
<1> HIDE DEF Callback
<1>4. CASE Host
  <2>1. ASSUME stack' = <<ScriptFrame>> PROVE ~Undercut'
    BY <2>1 DEF Undercut, AtWork, In, Top, ScriptFrame
  <2> QED BY <1>2, <1>4, <2>1 DEF Host, Start, HostRunsScript, ScriptReturns, In
<1>5. CASE Trampoline
  <2>1. ASSUME NEW b \in Bindings, Calls(b) PROVE Callback
    BY <2>1 DEF Calls, Callback
  <2> QED BY <1>1, <1>2, <1>5, <2>1
          DEF Trampoline, LvglDispatches, SetValueRaises, CallbackReturns, In
<1>6. CASE Timer
  BY <1>3, <1>6 DEF Timer, CreateTimer, StopTimer
<1>7. CASE Widget
  <2>1. ASSUME NEW h \in handles, Unwrap(h) PROVE ~Undercut'
    <3>1. Push("native", h.at) /\ h.at \in live /\ live' = live
      BY <2>1 DEF Unwrap, Accepted, tree
    <3> QED BY <3>1, PushTop DEF Undercut
  <2>2. ASSUME NEW h \in handles, NEW w \in Widgets, MakeWidget(h, w) PROVE ~Undercut'
    <3>1. Push("make", w) /\ w \in live'
      BY <2>2 DEF MakeWidget, NewWidget
    <3> QED BY <3>1, PushTop DEF Undercut
  <2>3. ASSUME NEW h \in handles, Clean(h) \/ Delete(h) PROVE FALSE
    BY <1>3, <2>3 DEF Clean, Delete
  <2>4. ASSUME NEW w \in Widgets, AddWidget(w) PROVE FALSE
    BY <1>2, <2>4 DEF AddWidget, In
  <2>5. ASSUME NEW b \in Bindings, BindEvent(b) PROVE FALSE
    BY <1>2, <2>5 DEF BindEvent, In
  <2>6. ASSUME Made \/ Touch \/ ReturnsUntouched PROVE FALSE
    BY <1>2, <2>6 DEF Made, Touch, ReturnsUntouched, In
  <2> QED BY <1>7, <2>1, <2>2, <2>3, <2>4, <2>5, <2>6 DEF Widget
<1>8. CASE Network
  <2>1. ASSUME ScanAnswers PROVE Callback
    BY <2>1 DEF ScanAnswers, Callback, CoreInv, TypeOK
  <2> QED BY <1>1, <1>3, <1>8, <2>1 DEF Network, ScanStarts, FetchStarts, FetchSettles
<1>9. CASE Stop
  BY <1>3, <1>9 DEF Stop, StopNetwork, StopTimers, StopTree, StopScreen, StopContext
<1>10. CASE UNCHANGED vars
  BY <1>3, <1>10 DEF vars
<1> QED BY <1>4, <1>5, <1>6, <1>7, <1>8, <1>9, <1>10 DEF Next

-----------------------------------------------------------------------------
(* The theorems.                                                           *)

\* The inductive invariant holds in every state.
THEOREM CoreInvariant ==
  Spec => []CoreInv
<1>1. Init => CoreInv
  BY InitInv
<1>2. CoreInv /\ [Next]_vars => CoreInv'
  BY NextInv
<1> QED BY <1>1, <1>2, PTL DEF Spec

\* JsvmCore keeps its types.
THEOREM CoreTypes ==
  Spec => []TypeOK
<1>1. CoreInv => TypeOK
  BY DEF CoreInv
<1> QED BY <1>1, CoreInvariant, PTL

\* Nothing freed is ever touched, whatever callbacks destroy, but an object that a
\* binding's own script deletes while the binding is at work on it.
THEOREM NoFaultAlways ==
  Spec => NoFault
<1>1. CoreInv /\ [Next]_vars
        => [/\ fault' => fault \/ Undercut
            /\ Len(stack') > Len(stack) => ~Undercut']_vars
  BY StepTouches, StepEnters
<1> QED BY <1>1, CoreInvariant, PTL DEF Spec, NoFault

\* As long as scripts delete no object that a binding below them on the stack is at
\* work on, nothing freed is touched at all.
THEOREM NothingFreedIsTouched ==
  Spec => ([]~Undercut => []~fault)
<1>1. Init => ~fault
  BY DEF Init
<1>2. CoreInv /\ [Next]_vars /\ ~Undercut /\ ~fault => ~fault'
  BY StepTouches
<1> QED BY <1>1, <1>2, CoreInvariant, PTL DEF Spec

\* One reference for the binding, one for each call of it under way.
THEOREM RefsBalancedAlways ==
  Spec => []RefsBalanced
<1>1. CoreInv => RefsBalanced
  BY DEF CoreInv
<1> QED BY <1>1, CoreInvariant, PTL

\* LVGL calls back what the core holds, and nothing else.
THEOREM LvglMatchesListsAlways ==
  Spec => []LvglMatchesLists
<1>1. CoreInv => LvglMatchesLists
  BY DEF CoreInv
<1> QED BY <1>1, CoreInvariant, PTL

\* jsvm_stop() gives back everything before the context goes.
THEOREM NothingSurvivesStopAlways ==
  Spec => []NothingSurvivesStop
<1>1. CoreInv => NothingSurvivesStop
  <2> SUFFICES ASSUME CoreInv, phase \in {"freeing", "down"}
               PROVE  hooks = {} /\ lvTimers = {} /\ polls = {} /\ live = {Screen}
                      /\ \A b \in Bindings : refs[b] = 0
    BY DEF NothingSurvivesStop
  <2>1. stack = << >> /\ events = {} /\ timers = {} /\ Awaited = {} /\ live = {Screen}
    BY DEF waits, Awaited, CoreInv, StackInv, StopInv
  <2>2. hooks = {} /\ lvTimers = {} /\ polls = {}
    BY <2>1 DEF Awaited, CoreInv, LvglMatchesLists, TypeOK
  <2>3. \A b \in Bindings : refs[b] = 0
    BY <2>1, NoCalls DEF waits, Awaited, CoreInv, RefsBalanced
  <2> QED BY <2>1, <2>2, <2>3
<1> QED BY <1>1, CoreInvariant, PTL
=============================================================================
