--------------------------- MODULE UiElementProofs ---------------------------
(***************************************************************************)
(* Proofs about UiElement for any elements, any number of them and any     *)
(* number of renders: what the refs of an app hold, the order its widgets  *)
(* are in, and that a widget that stays is as good as one made anew.       *)
(***************************************************************************)
EXTENDS UiElement, Lemmas

USE ElementAssumption

\* What the diff works on are elements and instances, and every widget alive is
\* among the old or the new ones.
ShapeInv ==
  /\ tree \in Seq(Elements) /\ kids \in Seq(Ids) /\ next \in Seq(Ids)
  /\ at \in {"idle", "byKey", "byPosition"}
  /\ DOMAIN inst = Ids
  /\ \A id \in Ids : inst[id].alive \in BOOLEAN
  /\ \A id \in Ids : inst[id].alive =>
       inst[id].vnode \in Elements /\ {"alive", "vnode"} \subseteq DOMAIN inst[id]
  /\ \A id \in Ids : inst[id].alive => id \in Olds \cup Reused
  /\ at = "idle" => next = << >>
  /\ refs \in [Refs -> Ids \cup {NoWidget, Deleted}]
  /\ shared \in BOOLEAN

\* What a ref holds is alive, and is the widget of an element that names it.
HeldInv ==
  \A r \in Refs : /\ refs[r] # Deleted
                  /\ refs[r] \in Ids => /\ inst[refs[r]].alive
                                        /\ inst[refs[r]].vnode.ref = r

\* While no ref was ever given away from under an element, each element's ref
\* holds its widget.
NamedInv ==
  ~shared => \A id \in Ids :
    inst[id].alive /\ inst[id].vnode.ref # NoRef => refs[inst[id].vnode.ref] = id

RefInv == ShapeInv /\ HeldInv /\ NamedInv

LEMMA IdFacts ==
  /\ NoWidget \notin Ids /\ Deleted \notin Ids /\ NoWidget # Deleted
  /\ \A e \in Elements : e.ref \in Refs \cup {NoRef}
BY DEF Ids, NoWidget, Deleted, IsElement

\* mountHost() leaves an instance that is alive and has the element it was made
\* for, whether it has a handler or not.
LEMMA MountedFacts ==
  ASSUME NEW e
  PROVE  /\ Mounted(e).alive = TRUE /\ Mounted(e).vnode = e
         /\ {"alive", "vnode"} \subseteq DOMAIN Mounted(e)
BY DEF Mounted, Bind

\* So does patch(), for an instance that was alive.
LEMMA PatchedFacts ==
  ASSUME NEW i, NEW e, i.alive = TRUE, {"alive", "vnode"} \subseteq DOMAIN i
  PROVE  /\ Patched(i, e).alive = TRUE /\ Patched(i, e).vnode = e
         /\ {"alive", "vnode"} \subseteq DOMAIN Patched(i, e)
BY DEF Patched, UpdateEvents, Bind

\* The element whose turn it is, and the instance it may take.
LEMMA WantedFacts ==
  ASSUME ShapeInv, Matching
  PROVE  Wanted \in Elements /\ Wanted.ref \in Refs \cup {NoRef}
BY IdFacts DEF ShapeInv, Matching, Wanted

LEMMA CandidateFacts ==
  ASSUME ShapeInv
  PROVE  Candidates \subseteq Olds /\ Olds \subseteq Ids /\ Taken \subseteq {id \in Ids : inst[id].alive}
<1>1. Candidates \subseteq Olds
  BY DEF Candidates, Olds
<1>2. Olds \subseteq Ids
  BY DEF ShapeInv, Olds
<1>3. Taken \subseteq {id \in Ids : inst[id].alive}
  BY <1>1, <1>2 DEF Taken, Compatible
<1>4. QED
  BY <1>1, <1>2, <1>3

\* What setRef() does to the refs.
LEMMA HoldFacts ==
  ASSUME NEW held \in [Refs -> Ids \cup {NoWidget, Deleted}],
         NEW ref \in Refs \cup {NoRef}, NEW id \in Ids \cup {NoWidget}
  PROVE  /\ Hold(held, ref, id) \in [Refs -> Ids \cup {NoWidget, Deleted}]
         /\ \A r \in Refs : Hold(held, ref, id)[r] = IF r = ref THEN id ELSE held[r]
BY DEF Hold

-----------------------------------------------------------------------------
(* unmount(), whether for a replacement or last of all.                    *)

LEMMA UnmountKeepsRefInv ==
  ASSUME RefInv, NEW id \in Ids, inst[id].alive, Unmount(id),
         UNCHANGED <<tree, kids, at, next>>
  PROVE  RefInv'
<1> DEFINE ref == inst[id].vnode.ref
           held == Hold(refs, ref, NoWidget)
<1>1. ref \in Refs \cup {NoRef}
  BY IdFacts DEF RefInv, ShapeInv
<1>2. /\ held \in [Refs -> Ids \cup {NoWidget, Deleted}]
      /\ \A r \in Refs : held[r] = IF r = ref THEN NoWidget ELSE refs[r]
  <2>1. refs \in [Refs -> Ids \cup {NoWidget, Deleted}]
    BY DEF RefInv, ShapeInv
  <2>2. NoWidget \in Ids \cup {NoWidget}
    OBVIOUS
  <2>3. QED
    BY <1>1, <2>1, <2>2, HoldFacts
<1>3. /\ inst' = [inst EXCEPT ![id] = NoInst]
      /\ refs' = [r \in Refs |-> IF held[r] = id THEN Deleted ELSE held[r]]
      /\ shared' = shared
  BY DEF Unmount
<1> HIDE DEF held
\* Whatever held the widget named it, and lets go of it.
<1>4. \A r \in Refs : held[r] # id
  BY <1>2, IdFacts DEF RefInv, HeldInv
<1>5. \A r \in Refs : refs'[r] = IF r = ref THEN NoWidget ELSE refs[r]
  BY <1>2, <1>3, <1>4
<1>6. /\ inst'[id] = NoInst /\ DOMAIN inst' = Ids
      /\ \A o \in Ids : o # id => inst'[o] = inst[o]
  BY <1>3 DEF RefInv, ShapeInv
<1>7. NoInst.alive = FALSE
  BY DEF NoInst
<1>8. ShapeInv'
  <2>1. \A o \in Ids : inst'[o].alive => o # id
    BY <1>6, <1>7
  <2>2. refs' \in [Refs -> Ids \cup {NoWidget, Deleted}]
    BY <1>2, <1>3
  <2>3. Olds' = Olds /\ Reused' = Reused
    BY DEF Olds, Reused
  <2>4. QED
    BY <1>3, <1>6, <1>7, <2>1, <2>2, <2>3 DEF RefInv, ShapeInv
<1>9. HeldInv'
  BY <1>5, <1>6, IdFacts DEF RefInv, HeldInv
<1>10. NamedInv'
  <2>1. SUFFICES ASSUME ~shared, NEW o \in Ids, inst'[o].alive, inst'[o].vnode.ref # NoRef
                 PROVE  refs'[inst'[o].vnode.ref] = o
    BY <1>3 DEF NamedInv
  <2>2. o # id /\ inst'[o] = inst[o]
    BY <1>6, <1>7, <2>1
  <2>3. refs[inst[o].vnode.ref] = o
    BY <2>1, <2>2 DEF RefInv, NamedInv
  <2>4. ref # NoRef => refs[ref] = id
    BY <2>1 DEF RefInv, NamedInv
  <2>5. inst[o].vnode.ref \in Refs
    BY <2>1, <2>2, IdFacts DEF RefInv, ShapeInv
  <2>6. inst[o].vnode.ref # ref
    BY <2>1, <2>2, <2>3, <2>4
  <2>7. QED
    BY <1>5, <2>2, <2>3, <2>5, <2>6
<1>11. QED
  BY <1>8, <1>9, <1>10 DEF RefInv

-----------------------------------------------------------------------------
(* patch() and mount() give the element's ref the widget of its instance.  *)

\* What the two have in common: one instance is new or has a new element, no
\* ref but that element's holds it, and the element's is set to it.
LEMMA SetRefKeepsRefInv ==
  ASSUME RefInv, NEW id \in Ids, NEW e \in Elements,
         e.ref \in Refs \cup {NoRef},
         DOMAIN inst' = Ids,
         \A o \in Ids : o # id => inst'[o] = inst[o],
         inst'[id].alive = TRUE, inst'[id].vnode = e,
         refs' \in [Refs -> Ids \cup {NoWidget, Deleted}],
         e.ref # NoRef => refs'[e.ref] = id,
         \A r \in Refs : r # e.ref => \/ refs'[r] = NoWidget /\ (~shared => refs[r] = id)
                                      \/ refs'[r] = refs[r] /\ refs[r] # id,
         ~shared' => ~shared /\ ~Shares(id, e.ref)
  PROVE  HeldInv' /\ NamedInv'
<1>1. HeldInv'
  <2>1. SUFFICES ASSUME NEW r \in Refs
                 PROVE  /\ refs'[r] # Deleted
                        /\ refs'[r] \in Ids => inst'[refs'[r]].alive /\ inst'[refs'[r]].vnode.ref = r
    BY DEF HeldInv
  <2>2. CASE r = e.ref
    BY <2>2, IdFacts
  <2>3. CASE r # e.ref
    BY <2>3, IdFacts DEF RefInv, HeldInv
  <2>4. QED
    BY <2>2, <2>3
<1>2. NamedInv'
  <2>1. SUFFICES ASSUME ~shared', NEW o \in Ids, inst'[o].alive, inst'[o].vnode.ref # NoRef
                 PROVE  refs'[inst'[o].vnode.ref] = o
    BY DEF NamedInv
  <2>2. CASE o = id
    BY <2>1, <2>2
  <2>3. CASE o # id
    <3>1. inst'[o] = inst[o] /\ inst[o].alive /\ inst[o].vnode.ref # NoRef
      BY <2>1, <2>3
    <3>2. ~shared
      BY <2>1
    <3>3. refs[inst[o].vnode.ref] = o
      BY <3>1, <3>2 DEF RefInv, NamedInv
    <3>4. inst[o].vnode.ref \in Refs
      BY <3>1, IdFacts DEF RefInv, ShapeInv
    <3>5. inst[o].vnode.ref # e.ref
      BY <2>1, <2>3, <3>1, <3>3 DEF Shares
    <3>6. QED
      BY <2>3, <3>1, <3>2, <3>3, <3>4, <3>5
  <2>4. QED
    BY <2>2, <2>3
<1>3. QED
  BY <1>1, <1>2

LEMMA ReusedGrows ==
  ASSUME ShapeInv, NEW id \in Ids, next' = Append(next, id), UNCHANGED <<tree, kids>>
  PROVE  next' \in Seq(Ids) /\ Reused \cup {id} = Reused' /\ Olds' = Olds
<1>1. next \in Seq(Ids)
  BY DEF ShapeInv
<1>2. /\ next' \in Seq(Ids)
      /\ DOMAIN next' = DOMAIN next \cup {Len(next) + 1}
      /\ next'[Len(next) + 1] = id
      /\ \A p \in DOMAIN next : next'[p] = next[p]
  BY <1>1
<1>3. Reused' = Reused \cup {id}
  BY <1>2 DEF Reused
<1>4. Olds' = Olds
  BY DEF Olds
<1>5. QED
  BY <1>2, <1>3, <1>4

LEMMA PatchKeepsRefInv ==
  ASSUME RefInv, Patch
  PROVE  RefInv'
<1>1. ShapeInv /\ Matching
  BY DEF RefInv, Patch
<1>2. PICK id \in Taken :
        /\ inst' = [inst EXCEPT ![id] = Patched(inst[id], Wanted)]
        /\ IF inst[id].vnode.ref = Wanted.ref THEN UNCHANGED <<refs, shared>>
           ELSE /\ refs' = Hold(Hold(refs, inst[id].vnode.ref, NoWidget), Wanted.ref, id)
                /\ shared' = (shared \/ Shares(id, Wanted.ref))
        /\ next' = Append(next, id)
  BY DEF Patch
<1>3. /\ id \in Ids /\ inst[id].alive = TRUE
      /\ inst[id].vnode \in Elements /\ {"alive", "vnode"} \subseteq DOMAIN inst[id]
  BY <1>1, <1>2, CandidateFacts DEF ShapeInv
<1>4. UNCHANGED <<tree, kids, at>>
  BY DEF Patch
<1> DEFINE old == inst[id].vnode.ref
           new == Wanted.ref
           cleared == Hold(refs, old, NoWidget)
<1>5. Wanted \in Elements /\ new \in Refs \cup {NoRef} /\ old \in Refs \cup {NoRef}
  BY <1>1, <1>3, WantedFacts, IdFacts
<1>6. refs \in [Refs -> Ids \cup {NoWidget, Deleted}]
  BY <1>1 DEF ShapeInv
<1>7. /\ DOMAIN inst' = Ids
      /\ inst'[id].alive = TRUE /\ inst'[id].vnode = Wanted
      /\ {"alive", "vnode"} \subseteq DOMAIN inst'[id]
      /\ \A o \in Ids : o # id => inst'[o] = inst[o]
  <2>1. DOMAIN inst = Ids
    BY <1>1 DEF ShapeInv
  <2>2. inst'[id] = Patched(inst[id], Wanted)
    BY <1>2, <1>3, <2>1
  <2>3. QED
    BY <1>2, <1>3, <2>1, <2>2, PatchedFacts
<1>8. HeldInv' /\ NamedInv' /\ refs' \in [Refs -> Ids \cup {NoWidget, Deleted}] /\ shared' \in BOOLEAN
  <2>1. \A r \in Refs : refs[r] = id => r = old
    BY <1>3 DEF RefInv, HeldInv
  <2>2. CASE old = new
    <3>1. refs' = refs /\ shared' = shared
      BY <1>2, <2>2
    <3>2. HeldInv'
      BY <1>3, <1>5, <1>7, <2>1, <2>2, <3>1, IdFacts DEF RefInv, HeldInv
    <3>3. NamedInv'
      BY <1>3, <1>5, <1>7, <2>2, <3>1 DEF RefInv, NamedInv
    <3>4. QED
      BY <1>6, <3>1, <3>2, <3>3, <1>1 DEF ShapeInv
  <2>3. CASE old # new
    <3>1. refs' = Hold(cleared, new, id) /\ shared' = (shared \/ Shares(id, new))
      BY <1>2, <2>3
    <3>2. /\ cleared \in [Refs -> Ids \cup {NoWidget, Deleted}]
          /\ \A r \in Refs : cleared[r] = IF r = old THEN NoWidget ELSE refs[r]
      BY <1>5, <1>6, HoldFacts
    <3> HIDE DEF cleared
    <3>3. /\ refs' \in [Refs -> Ids \cup {NoWidget, Deleted}]
          /\ \A r \in Refs : refs'[r] = IF r = new THEN id ELSE cleared[r]
      BY <1>3, <1>5, <3>1, <3>2, HoldFacts
    <3>4. new # NoRef => refs'[new] = id
      BY <1>5, <3>3
    <3>5. ~shared /\ old # NoRef => refs[old] = id
      BY <1>3 DEF RefInv, NamedInv
    <3>6. \A r \in Refs : r # new => \/ refs'[r] = NoWidget /\ (~shared => refs[r] = id)
                                     \/ refs'[r] = refs[r] /\ refs[r] # id
      BY <2>1, <3>2, <3>3, <3>5, IdFacts
    <3>7. (~shared' => ~shared /\ ~Shares(id, new)) /\ shared' \in BOOLEAN
      BY <3>1, <1>1 DEF ShapeInv
    <3>8. HeldInv' /\ NamedInv'
      BY <1>3, <1>5, <1>7, <3>3, <3>4, <3>6, <3>7, SetRefKeepsRefInv
    <3>9. QED
      BY <3>3, <3>7, <3>8
  <2>4. QED
    BY <2>2, <2>3
<1>9. ShapeInv'
  <2>1. next' \in Seq(Ids) /\ Reused \cup {id} = Reused' /\ Olds' = Olds
    BY <1>1, <1>2, <1>3, <1>4, ReusedGrows
  <2>2. at # "idle"
    BY <1>1 DEF Matching
  <2>3. QED
    BY <1>1, <1>4, <1>5, <1>7, <1>8, <2>1, <2>2 DEF ShapeInv
<1>10. QED
  BY <1>8, <1>9 DEF RefInv

LEMMA MountKeepsRefInv ==
  ASSUME RefInv, Mount
  PROVE  RefInv'
<1>1. ShapeInv /\ Matching
  BY DEF RefInv, Mount
<1>2. PICK id \in Ids :
        /\ Free(id)
        /\ inst' = [inst EXCEPT ![id] = Mounted(Wanted)]
        /\ refs' = Hold(refs, Wanted.ref, id)
        /\ shared' = (shared \/ Shares(id, Wanted.ref))
        /\ next' = Append(next, id)
  BY DEF Mount
<1>3. UNCHANGED <<tree, kids, at>>
  BY DEF Mount
<1>4. ~inst[id].alive
  BY <1>1, <1>2 DEF ShapeInv, Free
<1>5. Wanted \in Elements /\ Wanted.ref \in Refs \cup {NoRef}
  BY <1>1, WantedFacts
<1>6. /\ DOMAIN inst' = Ids
      /\ inst'[id].alive = TRUE /\ inst'[id].vnode = Wanted
      /\ {"alive", "vnode"} \subseteq DOMAIN inst'[id]
      /\ \A o \in Ids : o # id => inst'[o] = inst[o]
  <2>1. DOMAIN inst = Ids
    BY <1>1 DEF ShapeInv
  <2>2. inst'[id] = Mounted(Wanted)
    BY <1>2, <2>1
  <2>3. QED
    BY <1>2, <2>1, <2>2, MountedFacts
<1>7. /\ refs' \in [Refs -> Ids \cup {NoWidget, Deleted}]
      /\ \A r \in Refs : refs'[r] = IF r = Wanted.ref THEN id ELSE refs[r]
  BY <1>1, <1>2, <1>5, HoldFacts DEF ShapeInv
\* No ref holds a widget that is yet to be made.
<1>8. \A r \in Refs : refs[r] # id
  BY <1>2, <1>4 DEF RefInv, HeldInv
<1>9. HeldInv' /\ NamedInv'
  <2>1. Wanted.ref # NoRef => refs'[Wanted.ref] = id
    BY <1>5, <1>7
  <2>2. \A r \in Refs : r # Wanted.ref =>
          \/ refs'[r] = NoWidget /\ (~shared => refs[r] = id)
          \/ refs'[r] = refs[r] /\ refs[r] # id
    BY <1>7, <1>8
  <2>3. ~shared' => ~shared /\ ~Shares(id, Wanted.ref)
    BY <1>2
  <2>4. id \in Ids
    OBVIOUS
  <2>5. QED
    BY <1>5, <1>6, <1>7, <2>1, <2>2, <2>3, <2>4, SetRefKeepsRefInv
<1>10. ShapeInv'
  <2>1. next' \in Seq(Ids) /\ Reused \cup {id} = Reused' /\ Olds' = Olds
    BY <1>1, <1>2, <1>3, ReusedGrows
  <2>2. at # "idle"
    BY <1>1 DEF Matching
  <2>3. shared' \in BOOLEAN
    BY <1>1, <1>2 DEF ShapeInv, Shares
  <2>4. QED
    BY <1>1, <1>3, <1>5, <1>6, <1>7, <2>1, <2>2, <2>3 DEF ShapeInv
<1>11. QED
  BY <1>9, <1>10 DEF RefInv

-----------------------------------------------------------------------------
LEMMA InitRefInv == Init => RefInv
<1> SUFFICES ASSUME Init PROVE RefInv
  OBVIOUS
<1>1. ShapeInv
  <2>1. /\ tree \in Seq(Elements) /\ kids \in Seq(Ids) /\ next \in Seq(Ids)
        /\ at \in {"idle", "byKey", "byPosition"} /\ next = << >> /\ shared \in BOOLEAN
    <3>1. tree = << >> /\ kids = << >> /\ next = << >> /\ at = "idle" /\ shared = FALSE
      BY DEF Init
    <3>2. << >> \in Seq(Elements) /\ << >> \in Seq(Ids)
      OBVIOUS
    <3>3. QED
      BY <3>1, <3>2, Zenon
  <2>2. DOMAIN inst = Ids /\ \A id \in Ids : inst[id].alive = FALSE
    BY DEF Init, NoInst
  <2>3. refs \in [Refs -> Ids \cup {NoWidget, Deleted}]
    BY DEF Init
  <2>4. QED
    BY <2>1, <2>2, <2>3 DEF ShapeInv
<1>2. HeldInv
  BY IdFacts DEF Init, HeldInv
<1>3. NamedInv
  BY DEF Init, NamedInv, NoInst
<1>4. QED
  BY <1>1, <1>2, <1>3 DEF RefInv

LEMMA BeginKeepsRefInv ==
  ASSUME RefInv, RenderBegins
  PROVE  RefInv'
<1>1. PICK elems \in BoundedSeq(Elements, MaxPlaces) : tree' = elems
  BY DEF RenderBegins
<1>2. elems \in Seq(Elements)
  BY <1>1 DEF BoundedSeq, SeqOf
<1>3. UNCHANGED <<kids, inst, refs, next, shared>> /\ at' \in {"byKey", "byPosition"}
  BY DEF RenderBegins
<1>4. Olds' = Olds /\ Reused' = Reused
  BY <1>3 DEF Olds, Reused
<1>5. ShapeInv'
  BY <1>1, <1>2, <1>3, <1>4 DEF RefInv, ShapeInv
<1>6. HeldInv' /\ NamedInv'
  BY <1>3 DEF RefInv, HeldInv, NamedInv
<1>7. QED
  BY <1>5, <1>6 DEF RefInv

LEMMA EndKeepsRefInv ==
  ASSUME RefInv, RenderEnds
  PROVE  RefInv'
<1>1. UNCHANGED <<tree, inst, refs, shared>> /\ kids' = next /\ next' = << >> /\ at' = "idle"
  BY DEF RenderEnds
<1>2. Olds' = Reused
  BY <1>1 DEF Olds, Reused
<1>3. \A id \in Ids : inst[id].alive => id \in Reused
  BY DEF RenderEnds, Leftovers, RefInv, ShapeInv
<1>4. ShapeInv'
  BY <1>1, <1>2, <1>3 DEF RefInv, ShapeInv
<1>5. HeldInv' /\ NamedInv'
  BY <1>1 DEF RefInv, HeldInv, NamedInv
<1>6. QED
  BY <1>4, <1>5 DEF RefInv

LEMMA StepKeepsRefInv == RefInv /\ [Next]_vars => RefInv'
<1> SUFFICES ASSUME RefInv, [Next]_vars PROVE RefInv'
  OBVIOUS
<1>1. CASE RenderBegins
  BY <1>1, BeginKeepsRefInv
<1>2. CASE Patch
  BY <1>2, PatchKeepsRefInv
<1>3. CASE Replace
  <2>1. PICK id \in Candidates : inst[id].alive /\ Unmount(id)
    BY <1>3 DEF Replace
  <2>2. id \in Ids
    BY <2>1, CandidateFacts DEF RefInv
  <2>3. UNCHANGED <<tree, kids, at, next>>
    BY <1>3 DEF Replace
  <2>4. QED
    BY <2>1, <2>2, <2>3, UnmountKeepsRefInv
<1>4. CASE Mount
  BY <1>4, MountKeepsRefInv
<1>5. CASE Sweep
  <2>1. PICK id \in Leftovers : Unmount(id)
    BY <1>5 DEF Sweep
  <2>2. id \in Ids /\ inst[id].alive
    BY <2>1, CandidateFacts DEF RefInv, Leftovers
  <2>3. UNCHANGED <<tree, kids, at, next>>
    BY <1>5 DEF Sweep
  <2>4. QED
    BY <2>1, <2>2, <2>3, UnmountKeepsRefInv
<1>6. CASE RenderEnds
  BY <1>6, EndKeepsRefInv
<1>7. CASE UNCHANGED vars
  <2>1. ShapeInv'
    BY <1>7 DEF vars, RefInv, ShapeInv, Olds, Reused
  <2>2. HeldInv' /\ NamedInv'
    BY <1>7 DEF vars, RefInv, HeldInv, NamedInv
  <2>3. QED
    BY <2>1, <2>2 DEF RefInv
<1>8. QED
  BY <1>1, <1>2, <1>3, <1>4, <1>5, <1>6, <1>7 DEF Next

\* Whatever the app renders, in whatever order, no ref ever holds a deleted
\* widget, and each holds that of the element that names it unless it was once
\* given to one while another had it: setRef() in patch(), mount() and unmount().
THEOREM RefsAreCurrentAlways == Spec => []RefsAreCurrent
<1>1. RefInv => RefsAreCurrent
  BY DEF RefInv, HeldInv, NamedInv, RefsAreCurrent
<1>2. QED
  BY InitRefInv, StepKeepsRefInv, <1>1, PTL DEF Spec

\* What a ref holds, if anything, is alive and belongs to an element that names
\* it, even where two elements name the same.
RefsAreLive ==
  \A r \in Refs :
    refs[r] # NoWidget => /\ refs[r] \in Ids /\ inst[refs[r]].alive
                          /\ inst[refs[r]].vnode.ref = r

\* Through every step of a render a handler that reads a ref finds a widget it
\* may use, or null: what unmount() takes out of refs is what it deletes.
THEOREM RefsAreLiveAlways == Spec => []RefsAreLive
<1>1. RefInv => RefsAreLive
  BY DEF RefInv, ShapeInv, HeldInv, RefsAreLive
<1>2. QED
  BY InitRefInv, StepKeepsRefInv, <1>1, PTL DEF Spec

-----------------------------------------------------------------------------
(* What mountHost() and patch() make of an instance, field by field.       *)

Fields == {"alive", "vnode", "below", "look", "labels", "on", "bound", "trampolines"}

LEMMA MountedFields ==
  ASSUME NEW e
  PROVE  /\ DOMAIN Mounted(e) = Fields
         /\ Mounted(e).alive = TRUE /\ Mounted(e).vnode = e
         /\ Mounted(e).below = Below(e)
         /\ Mounted(e).look = Apply(NewLook, e.props)
         /\ Mounted(e).labels = IF TextOf(e) # NoText THEN SetText(<< >>, TextOf(e))
                               ELSE Label(Below(e))
         /\ Mounted(e).on = e.on
         /\ Mounted(e).bound = (e.on # NoHandler)
         /\ Mounted(e).trampolines = IF e.on # NoHandler THEN 1 ELSE 0
<1> DEFINE labels == IF TextOf(e) # NoText THEN SetText(<< >>, TextOf(e)) ELSE Label(Below(e))
           look == Apply(NewLook, e.props)
           made == [alive |-> TRUE, vnode |-> e, below |-> Below(e), look |-> look,
                    labels |-> labels, on |-> NoHandler, bound |-> FALSE, trampolines |-> 0]
<1>1. Mounted(e) = Bind(made, e)
  BY DEF Mounted
<1> HIDE DEF labels, look
<1>2. /\ DOMAIN made = Fields
      /\ made.alive = TRUE /\ made.vnode = e /\ made.below = Below(e) /\ made.look = look
      /\ made.labels = labels /\ made.on = NoHandler /\ made.bound = FALSE
      /\ made.trampolines = 0
  BY DEF Fields
<1> HIDE DEF made
<1>3. CASE e.on = NoHandler
  BY <1>1, <1>2, <1>3 DEF Bind, labels, look
<1>4. CASE e.on # NoHandler
  <2>1. Mounted(e) = [made EXCEPT !.on = e.on, !.bound = TRUE, !.trampolines = 1]
    <3>1. made.trampolines + 1 = 1
      BY <1>2
    <3> QED BY <1>1, <1>2, <1>4, <3>1, Zenon DEF Bind
  <2>2. /\ DOMAIN Mounted(e) = Fields
        /\ Mounted(e).alive = TRUE /\ Mounted(e).vnode = e /\ Mounted(e).below = Below(e)
        /\ Mounted(e).look = look /\ Mounted(e).labels = labels
        /\ Mounted(e).on = e.on /\ Mounted(e).bound = TRUE /\ Mounted(e).trampolines = 1
    BY <1>2, <2>1 DEF Fields
  <2> QED BY <1>4, <2>2 DEF labels, look
<1> QED BY <1>3, <1>4

LEMMA PatchedFields ==
  ASSUME NEW i, DOMAIN i = Fields, i.bound \in BOOLEAN, NEW e
  PROVE  LET text == DiffText(i.labels, i.vnode, e)
         IN /\ DOMAIN Patched(i, e) = Fields
            /\ Patched(i, e).alive = i.alive /\ Patched(i, e).vnode = e
            /\ Patched(i, e).below = IF TextOf(e) # NoText THEN i.below ELSE Below(e)
            /\ Patched(i, e).look = Apply(i.look, DiffProps(i.vnode, e))
            /\ Patched(i, e).labels = IF TextOf(e) # NoText THEN text
                                     ELSE DiffBelow(text, i.below, Below(e))
            /\ Patched(i, e).on = e.on
            /\ Patched(i, e).bound = (e.on # NoHandler \/ i.bound)
            /\ Patched(i, e).trampolines =
                 IF e.on # NoHandler /\ ~i.bound THEN i.trampolines + 1 ELSE i.trampolines
<1> DEFINE set == [i EXCEPT !.vnode = e, !.look = Apply(@, DiffProps(i.vnode, e)),
                            !.labels = DiffText(@, i.vnode, e)]
           cleared == [set EXCEPT !.on = e.on]
           bound == Bind(cleared, e)
<1>1. /\ DOMAIN cleared = Fields
      /\ cleared.alive = i.alive /\ cleared.vnode = e /\ cleared.below = i.below
      /\ cleared.look = Apply(i.look, DiffProps(i.vnode, e))
      /\ cleared.labels = DiffText(i.labels, i.vnode, e)
      /\ cleared.on = e.on /\ cleared.bound = i.bound /\ cleared.trampolines = i.trampolines
  BY DEF Fields
<1>2. Patched(i, e) = IF TextOf(e) # NoText THEN bound
                      ELSE [bound EXCEPT !.labels = DiffBelow(@, i.below, Below(e)),
                                         !.below = Below(e)]
  BY DEF Patched, UpdateEvents
<1> HIDE DEF cleared
<1>3. /\ DOMAIN bound = Fields
      /\ bound.alive = cleared.alive /\ bound.vnode = cleared.vnode /\ bound.below = cleared.below
      /\ bound.look = cleared.look /\ bound.labels = cleared.labels
      /\ bound.on = e.on /\ bound.bound = (e.on # NoHandler \/ i.bound)
      /\ bound.trampolines =
           IF e.on # NoHandler /\ ~i.bound THEN i.trampolines + 1 ELSE i.trampolines
  BY <1>1 DEF Bind, Fields
<1> HIDE DEF bound
<1> QED BY <1>1, <1>2, <1>3 DEF Fields

-----------------------------------------------------------------------------
(* Types.                                                                  *)

Texts == Strings \cup {NoText, ""}
ALabel == [own : BOOLEAN, text : Texts]
Labels == Seq(ALabel)

LEMMA ElementFacts ==
  ASSUME NEW e \in Elements
  PROVE  /\ e.tag \in Tags /\ DOMAIN e.props \subseteq PropNames
         /\ \A k \in DOMAIN e.props : e.props[k] \in ValueOf(k) \cup {Undefined}
         /\ TextOf(e) \in Texts /\ Below(e).text \in Texts
         /\ e.on \in Handlers \cup {NoHandler}
BY DEF IsElement, TextOf, Below, NoBelow, Texts

LEMMA ValueFacts ==
  /\ ValueOf("x") = Int /\ ValueOf("y") = Int
  /\ ValueOf("align") = {"top-left", "center"}
  /\ ValueOf("hidden") = BOOLEAN /\ ValueOf("scroll") = BOOLEAN
BY DEF ValueOf

\* .set() leaves a widget with a value for every prop.
LEMMA ApplyType ==
  ASSUME NEW look, \A k \in PropNames \ {"bg"} : look[k] \in ValueOf(k),
         NEW props, \A k \in DOMAIN props : props[k] \in ValueOf(k) \cup {Undefined}
  PROVE  /\ DOMAIN Apply(look, props) = PropNames
         /\ \A k \in PropNames \ {"bg"} : Apply(look, props)[k] \in ValueOf(k)
<1>1. DOMAIN Apply(look, props) = PropNames
  BY DEF Apply
<1>2. ASSUME NEW k \in PropNames \ {"bg"} PROVE Apply(look, props)[k] \in ValueOf(k)
  <2>1. Given(props, k) => props[k] \in ValueOf(k)
    BY DEF Given
  <2>2. look[k] \in ValueOf(k)
    OBVIOUS
  <2>3. CASE k = "scroll"
    <3>1. Apply(look, props)[k] \in BOOLEAN
      BY <2>3 DEF Apply, PropNames
    <3> QED BY <2>3, <3>1, ValueFacts
  <2>4. CASE k \in {"x", "y"}
    <3>1. 0 \in ValueOf(k)
      BY <2>4, ValueFacts
    <3>2. Apply(look, props)[k] \in {props[k], 0, look[k]} /\
          (Apply(look, props)[k] = props[k] \/ Apply(look, props)[k] \in {0, look[k]})
      BY <2>4 DEF Apply
    <3>3. Apply(look, props)[k] = (IF Given(props, k) THEN props[k]
            ELSE IF \E p \in Places : Given(props, p) THEN 0 ELSE look[k])
      BY <2>4 DEF Apply
    <3> QED BY <2>1, <2>2, <3>1, <3>3
  <2>5. CASE k \notin {"scroll", "x", "y"}
    <3>1. Apply(look, props)[k] = IF Given(props, k) THEN props[k] ELSE look[k]
      BY <2>5 DEF Apply
    <3> QED BY <2>1, <2>2, <3>1
  <2> QED BY <2>3, <2>4, <2>5
<1> QED BY <1>1, <1>2

LEMMA NewLookType == \A k \in PropNames \ {"bg"} : NewLook[k] \in ValueOf(k)
<1>1. /\ NewLook["align"] = "top-left" /\ NewLook["x"] = 0 /\ NewLook["y"] = 0
      /\ NewLook["hidden"] = FALSE /\ NewLook["scroll"] = TRUE
  BY DEF NewLook
<1>2. PropNames \ {"bg"} = {"align", "x", "y", "hidden", "scroll"}
  BY DEF PropNames, Places
<1>3. NewLook["hidden"] \in ValueOf("hidden") /\ NewLook["scroll"] \in ValueOf("scroll")
  BY <1>1, ValueFacts, Zenon
<1>4. NewLook["align"] \in ValueOf("align") /\ NewLook["x"] \in ValueOf("x")
      /\ NewLook["y"] \in ValueOf("y")
  BY <1>1, ValueFacts
<1> QED BY <1>2, <1>3, <1>4, Zenon

LEMMA DiffPropsType ==
  ASSUME NEW old, NEW new \in Elements
  PROVE  \A k \in DOMAIN DiffProps(old, new) :
           DiffProps(old, new)[k] \in ValueOf(k) \cup {Undefined}
<1>1. \A k \in DOMAIN Reset : Reset[k] \in ValueOf(k)
  <2>1. DOMAIN Reset = {"hidden", "scroll"} /\ Reset["hidden"] = FALSE /\ Reset["scroll"] = TRUE
    BY DEF Reset
  <2>2. Reset["hidden"] \in ValueOf("hidden") /\ Reset["scroll"] \in ValueOf("scroll")
    BY <2>1, ValueFacts, Zenon
  <2> QED BY <2>1, <2>2, Zenon
<1>2. \A k \in DOMAIN new.props : new.props[k] \in ValueOf(k) \cup {Undefined}
  BY ElementFacts
<1> QED BY <1>1, <1>2 DEF DiffProps

LEMMA ALabelFacts ==
  ASSUME NEW text \in Texts
  PROVE  /\ \A own \in BOOLEAN : [own |-> own, text |-> text] \in ALabel
         /\ \A l \in ALabel : [l EXCEPT !.text = text] \in ALabel
<1>1. \A own \in BOOLEAN : [own |-> own, text |-> text] \in ALabel
  BY Zenon DEF ALabel
<1>2. \A l \in ALabel : [l EXCEPT !.text = text] \in ALabel
  BY DEF ALabel
<1> QED BY <1>1, <1>2

LEMMA LabelsType ==
  ASSUME NEW labels \in Labels, NEW text \in Texts, NEW old, NEW new, new.text \in Texts
  PROVE  /\ SetText(labels, text) \in Labels
         /\ Label(new) \in Labels
         /\ DiffBelow(labels, old, new) \in Labels
<1>0. labels \in Seq(ALabel) /\ Len(labels) \in Nat /\ DOMAIN labels = 1..Len(labels)
      /\ \A p \in DOMAIN labels : labels[p] \in ALabel
  BY DEF Labels
<1>1. SetText(labels, text) \in Labels
  <2>1. CASE labels = << >>
    <3>1. PICK l \in ALabel : l = [own |-> TRUE, text |-> text]
      BY ALabelFacts
    <3>2. SetText(labels, text) = <<l>>
      BY <2>1, <3>1 DEF SetText
    <3> QED BY <3>2 DEF Labels
  <2>2. CASE labels # << >>
    <3>1. 1 \in DOMAIN labels
      BY <1>0, <2>2
    <3>2. [labels[1] EXCEPT !.text = text] \in ALabel
      <4>1. labels[1] \in ALabel
        BY <1>0, <3>1
      <4> QED BY <4>1, ALabelFacts, Zenon
    <3>3. PICK l \in ALabel : l = [labels[1] EXCEPT !.text = text]
      BY <3>2
    <3>4. SetText(labels, text) = [labels EXCEPT ![1] = l]
      BY <2>2, <3>3 DEF SetText
    <3>5. [labels EXCEPT ![1] = l] \in [1..Len(labels) -> ALabel]
      BY <1>0, <3>1
    <3>6. \A f \in [1..Len(labels) -> ALabel] : f \in Seq(ALabel)
      BY <1>0
    <3> QED BY <3>4, <3>5, <3>6 DEF Labels
  <2> QED BY <2>1, <2>2
<1>2. Label(new) \in Labels
  <2>1. PICK l \in ALabel : l = [own |-> FALSE, text |-> new.text]
    BY ALabelFacts
  <2>2. Label(new) \in {<< >>, <<l>>}
    BY <2>1, Zenon DEF Label
  <2>3. << >> \in Seq(ALabel) /\ <<l>> \in Seq(ALabel)
    BY <2>1
  <2> QED BY <2>2, <2>3, Zenon DEF Labels
<1>3. Own(labels) \in Labels
  <2>1. CASE labels # << >>
    <3>1. Last(labels) \in ALabel
      BY <1>0, <2>1 DEF Last
    <3> QED BY <3>1 DEF Own, Labels
  <2>2. CASE labels = << >>
    BY <2>2 DEF Own, Labels
  <2> QED BY <2>1, <2>2
<1>4. Label(new) \o Own(labels) \in Labels
  BY <1>2, <1>3 DEF Labels
<1>5. [p \in DOMAIN labels |->
         IF labels[p].own THEN labels[p] ELSE [labels[p] EXCEPT !.text = new.text]] \in Labels
  <2> DEFINE changed == [p \in DOMAIN labels |->
         IF labels[p].own THEN labels[p] ELSE [labels[p] EXCEPT !.text = new.text]]
  <2>1. \A p \in DOMAIN labels : [labels[p] EXCEPT !.text = new.text] \in ALabel
    BY <1>0, ALabelFacts
  <2>2. changed \in [1..Len(labels) -> ALabel]
    BY <1>0, <2>1
  <2> HIDE DEF changed
  <2>3. changed \in Seq(ALabel)
    BY <1>0, <2>2
  <2> QED BY <2>3 DEF changed, Labels
<1> QED BY <1>1, <1>2, <1>4, <1>5 DEF DiffBelow

LEMMA MountedType == ASSUME NEW e \in Elements PROVE Instance(Mounted(e))
<1>1. /\ DOMAIN Apply(NewLook, e.props) = PropNames
      /\ \A k \in PropNames \ {"bg"} : Apply(NewLook, e.props)[k] \in ValueOf(k)
  BY ElementFacts, NewLookType, ApplyType
<1>2. << >> \in Labels
  BY DEF Labels
<1>3. Mounted(e).labels \in Labels
  <2>1. TextOf(e) \in Texts /\ Below(e).text \in Texts
    BY ElementFacts
  <2>2. SetText(<< >>, TextOf(e)) \in Labels /\ Label(Below(e)) \in Labels
    BY <1>2, <2>1, LabelsType
  <2> QED BY <2>2, MountedFields
<1>4. Mounted(e).on \in Handlers \cup {NoHandler} /\ Mounted(e).bound \in BOOLEAN
      /\ Mounted(e).trampolines \in Nat
  <2>1. Mounted(e).on \in Handlers \cup {NoHandler}
    BY ElementFacts, MountedFields
  <2>2. Mounted(e).bound \in BOOLEAN
    BY MountedFields, Zenon
  <2>3. Mounted(e).trampolines \in {0, 1}
    BY MountedFields, Zenon
  <2> QED BY <2>1, <2>2, <2>3
<1> QED BY <1>1, <1>3, <1>4, MountedFields DEF Instance, Fields, Labels, ALabel, Texts

LEMMA PatchedType ==
  ASSUME NEW i, Instance(i), i.alive = TRUE, NEW e \in Elements
  PROVE  Instance(Patched(i, e)) /\ DOMAIN i = Fields /\ i.bound \in BOOLEAN
<1>1. /\ DOMAIN i = Fields /\ i.vnode \in Elements
      /\ \A k \in PropNames \ {"bg"} : i.look[k] \in ValueOf(k)
      /\ i.labels \in Labels
      /\ i.on \in Handlers \cup {NoHandler} /\ i.bound \in BOOLEAN /\ i.trampolines \in Nat
  <2>1. i # NoInst
    BY DEF NoInst
  <2>2. i.labels \in Seq([own : BOOLEAN, text : Strings \cup {NoText, ""}])
    BY <2>1, Zenon DEF Instance
  <2>3. i.labels \in Labels
    BY <2>2 DEF Labels, ALabel, Texts
  <2> QED BY <2>1, <2>3, Zenon DEF Instance, Fields
<1>2. /\ DOMAIN Apply(i.look, DiffProps(i.vnode, e)) = PropNames
      /\ \A k \in PropNames \ {"bg"} : Apply(i.look, DiffProps(i.vnode, e))[k] \in ValueOf(k)
  BY <1>1, DiffPropsType, ApplyType
<1> DEFINE text == DiffText(i.labels, i.vnode, e)
<1>3. text \in Labels
  <2>1. TextOf(e) \in Texts /\ "" \in Texts
    BY ElementFacts DEF Texts
  <2>2. Below(e).text \in Texts
    BY ElementFacts
  <2>3. SetText(i.labels, TextOf(e)) \in Labels /\ SetText(i.labels, "") \in Labels
    BY <1>1, <2>1, <2>2, LabelsType
  <2> QED BY <1>1, <2>3 DEF DiffText
<1>4. DiffBelow(text, i.below, Below(e)) \in Labels
  <2>1. "" \in Texts /\ Below(e).text \in Texts
    BY ElementFacts DEF Texts
  <2> HIDE DEF text
  <2> QED BY <1>3, <2>1, LabelsType
<1>5. Patched(i, e).labels \in Labels
  BY <1>1, <1>3, <1>4, PatchedFields
<1>6. /\ Patched(i, e).on \in Handlers \cup {NoHandler} /\ Patched(i, e).bound \in BOOLEAN
      /\ Patched(i, e).trampolines \in Nat
  <2>1. Patched(i, e).on \in Handlers \cup {NoHandler}
    BY <1>1, ElementFacts, PatchedFields
  <2>0. Patched(i, e).bound = (e.on # NoHandler \/ i.bound)
    <3>1. DOMAIN i = Fields /\ i.bound \in BOOLEAN
      BY <1>1
    <3> QED BY ONLY <3>1, PatchedFields
  <2>2. Patched(i, e).bound \in BOOLEAN
    BY ONLY <2>0, Zenon
  <2>3. Patched(i, e).trampolines \in {i.trampolines, i.trampolines + 1}
    BY <1>1, PatchedFields, Zenon
  <2>4. i.trampolines + 1 \in Nat
    BY <1>1
  <2> QED BY <1>1, <2>1, <2>2, <2>3, <2>4
<1>7. /\ DOMAIN Patched(i, e) = Fields /\ Patched(i, e).alive = TRUE /\ Patched(i, e).vnode = e
      /\ Patched(i, e).look = Apply(i.look, DiffProps(i.vnode, e))
  BY <1>1, PatchedFields
<1>8. Instance(Patched(i, e))
  BY <1>2, <1>5, <1>6, <1>7 DEF Instance, Fields, Labels, ALabel, Texts
<1> QED BY <1>1, <1>8

-----------------------------------------------------------------------------
(* The elements gone through, and the instances they have.                 *)

LEMMA NextElement ==
  ASSUME ShapeInv, MatchInv, Matching, NEW id \in Ids \ Reused,
         next' = Append(next, id), UNCHANGED <<tree, kids, at>>,
         \A o \in Ids : o # id => inst'[o] = inst[o],
         inst'[id].alive = TRUE, inst'[id].vnode = Wanted,
         at = "byPosition" /\ id \in Olds =>
           Len(next) + 1 \in DOMAIN kids /\ kids[Len(next) + 1] = id
  PROVE  MatchInv'
<1>1. /\ next \in Seq(Ids) /\ tree \in Seq(Elements) /\ Len(next) \in Nat /\ Len(tree) \in Nat
      /\ at # "idle" /\ Len(next) < Len(tree)
  BY DEF ShapeInv, Matching
<1>2. /\ DOMAIN next' = DOMAIN next \cup {Len(next) + 1} /\ Len(next') = Len(next) + 1
      /\ next'[Len(next) + 1] = id
      /\ \A p \in DOMAIN next : next'[p] = next[p] /\ next[p] \in Ids
  BY <1>1
<1>3. \A p \in DOMAIN next : next[p] # id
  BY DEF Reused
<1>4. \A p \in DOMAIN next' : inst'[next'[p]].alive /\ inst'[next'[p]].vnode = tree[p]
  BY <1>1, <1>2, <1>3 DEF MatchInv, Wanted
<1>5. IsInjective(next')
  BY <1>2, <1>3 DEF MatchInv, IsInjective
<1>6. ASSUME at = "byPosition", NEW p \in DOMAIN next', next'[p] \in Olds
      PROVE  p \in DOMAIN kids /\ next'[p] = kids[p]
  BY <1>2, <1>6 DEF MatchInv
<1>7. Olds' = Olds
  BY DEF Olds
<1>8. Len(next') <= Len(tree)
  BY <1>1, <1>2
<1> QED BY <1>1, <1>4, <1>5, <1>6, <1>7, <1>8 DEF MatchInv

\* By position an element may take the instance in its place, and no other.
LEMMA PositionTaken ==
  ASSUME at = "byPosition", NEW id \in Candidates
  PROVE  Len(next) + 1 \in DOMAIN kids /\ kids[Len(next) + 1] = id
BY DEF Candidates

LEMMA MatchStep == ASSUME RefInv, MatchInv, [Next]_vars PROVE MatchInv'
<1>0. ShapeInv
  BY DEF RefInv
<1>1. CASE RenderBegins
  <2>1. /\ at = "idle" /\ next = << >> /\ at' # "idle" /\ next' = << >>
        /\ UNCHANGED <<kids, inst>>
    BY <1>0, <1>1 DEF RenderBegins, ShapeInv
  <2>2. Len(next') <= Len(tree')
    <3>1. PICK elems \in BoundedSeq(Elements, MaxPlaces) : tree' = elems
      BY <1>1 DEF RenderBegins
    <3>2. elems \in Seq(Elements)
      BY <3>1 DEF BoundedSeq, SeqOf
    <3> QED BY <2>1, <3>1, <3>2
  <2>3. DOMAIN next' = {}
    BY <2>1
  <2> QED BY <2>1, <2>2, <2>3 DEF MatchInv, IsInjective
<1>2. CASE Patch
  <2>1. PICK id \in Taken : /\ inst' = [inst EXCEPT ![id] = Patched(inst[id], Wanted)]
                            /\ next' = Append(next, id)
    BY <1>2 DEF Patch
  <2>2. /\ id \in Ids \ Reused /\ id \in Candidates /\ inst[id].alive = TRUE
        /\ {"alive", "vnode"} \subseteq DOMAIN inst[id]
    BY <1>0, <2>1, CandidateFacts DEF Taken, ShapeInv
  <2>3. /\ \A o \in Ids : o # id => inst'[o] = inst[o]
        /\ inst'[id].alive = TRUE /\ inst'[id].vnode = Wanted
    <3>1. DOMAIN inst = Ids
      BY <1>0 DEF ShapeInv
    <3>2. inst'[id] = Patched(inst[id], Wanted)
      BY <2>1, <2>2, <3>1
    <3> QED BY <2>1, <2>2, <3>1, <3>2, PatchedFacts
  <2>4. Matching /\ UNCHANGED <<tree, kids, at>>
    BY <1>2 DEF Patch
  <2> QED BY <1>0, <2>1, <2>2, <2>3, <2>4, NextElement, PositionTaken
<1>3. CASE Mount
  <2>1. PICK id \in Ids : /\ Free(id) /\ inst' = [inst EXCEPT ![id] = Mounted(Wanted)]
                          /\ next' = Append(next, id)
    BY <1>3 DEF Mount
  <2>2. id \notin Olds \cup Reused
    BY <2>1 DEF Free
  <2>3. /\ \A o \in Ids : o # id => inst'[o] = inst[o]
        /\ inst'[id].alive = TRUE /\ inst'[id].vnode = Wanted
    BY <1>0, <2>1, MountedFacts DEF ShapeInv
  <2>4. Matching /\ UNCHANGED <<tree, kids, at>>
    BY <1>3 DEF Mount
  <2> QED BY <1>0, <2>1, <2>2, <2>3, <2>4, NextElement
\* What is unmounted was no element's yet.
<1>4. ASSUME NEW id \in Ids \ Reused, Unmount(id), at # "idle", UNCHANGED <<tree, kids, at, next>>
      PROVE  MatchInv'
  <2>1. \A o \in Ids : o # id => inst'[o] = inst[o]
    BY <1>0, <1>4 DEF Unmount, ShapeInv
  <2>2. \A p \in DOMAIN next : next[p] \in Ids /\ next[p] # id
    BY <1>0, <1>4 DEF Reused, ShapeInv
  <2>3. Olds' = Olds
    BY <1>4 DEF Olds
  <2> QED BY <1>4, <2>1, <2>2, <2>3 DEF MatchInv
<1>5. CASE Replace
  <2>1. PICK id \in Candidates : Unmount(id)
    BY <1>5 DEF Replace
  <2>2. /\ Matching /\ at = "byPosition" /\ UNCHANGED <<tree, kids, at, next>>
    BY <1>5 DEF Replace
  <2>3. id \in Ids /\ id \in Olds
    BY <1>0, CandidateFacts
  <2>4. id \notin Reused
    <3> SUFFICES ASSUME NEW p \in DOMAIN next, next[p] = id PROVE FALSE
      BY DEF Reused
    <3>1. p \in DOMAIN kids /\ kids[p] = id
      BY <2>2, <2>3 DEF MatchInv
    <3>2. Len(next) + 1 \in DOMAIN kids /\ kids[Len(next) + 1] = id
      BY <2>2, PositionTaken
    <3>3. p = Len(next) + 1
      BY <3>1, <3>2 DEF MatchInv, IsInjective
    <3>4. next \in Seq(Ids)
      BY <1>0 DEF ShapeInv
    <3> QED BY <3>3, <3>4
  <2> QED BY <1>4, <2>1, <2>2, <2>3, <2>4
<1>6. CASE Sweep
  <2>1. PICK id \in Leftovers : Unmount(id)
    BY <1>6 DEF Sweep
  <2>2. id \in Ids \ Reused
    BY <1>0, CandidateFacts DEF Leftovers
  <2> QED BY <1>4, <1>6, <2>1, <2>2 DEF Sweep
<1>7. CASE RenderEnds
  <2>1. /\ at # "idle" /\ ~(Len(next) < Len(tree)) /\ kids' = next /\ next' = << >>
        /\ at' = "idle" /\ UNCHANGED <<tree, inst>>
    BY <1>0, <1>7 DEF RenderEnds, Matching, ShapeInv
  <2>2. Len(next) = Len(tree)
    BY <1>0, <2>1 DEF MatchInv, ShapeInv
  <2>3. IsInjective(next')
    BY <2>1 DEF IsInjective
  <2> QED BY <2>1, <2>2, <2>3 DEF MatchInv
<1>8. CASE UNCHANGED vars
  BY <1>8 DEF vars, MatchInv, Olds
<1> QED BY <1>1, <1>2, <1>3, <1>5, <1>6, <1>7, <1>8 DEF Next

-----------------------------------------------------------------------------
\* Everything has its type, and the instances fit in the container.
TypeInv ==
  /\ Len(tree) <= MaxPlaces /\ Len(kids) <= MaxPlaces
  /\ \A id \in Ids : Instance(inst[id])

LEMMA BoundedFacts ==
  ASSUME NEW S, NEW s
  PROVE  s \in BoundedSeq(S, MaxPlaces) <=> s \in Seq(S) /\ Len(s) <= MaxPlaces
<1>1. ASSUME s \in BoundedSeq(S, MaxPlaces) PROVE s \in Seq(S) /\ Len(s) <= MaxPlaces
  BY <1>1 DEF BoundedSeq, SeqOf
<1>2. ASSUME s \in Seq(S), Len(s) <= MaxPlaces PROVE s \in BoundedSeq(S, MaxPlaces)
  <2>1. Len(s) \in 0..MaxPlaces /\ s \in [1..Len(s) -> S]
    BY <1>2
  <2> QED BY <2>1 DEF BoundedSeq, SeqOf
<1> QED BY <1>1, <1>2

LEMMA TypeStep == ASSUME RefInv, MatchInv, TypeInv, [Next]_vars PROVE TypeInv'
<1>0. ShapeInv
  BY DEF RefInv
<1>1. CASE RenderBegins
  <2>1. PICK elems \in BoundedSeq(Elements, MaxPlaces) : tree' = elems
    BY <1>1 DEF RenderBegins
  <2>2. Len(tree') <= MaxPlaces
    BY <2>1, BoundedFacts
  <2> QED BY <1>1, <2>2 DEF RenderBegins, TypeInv
<1>2. ASSUME NEW id \in Ids, NEW i, Instance(i), inst' = [inst EXCEPT ![id] = i]
      PROVE  \A o \in Ids : Instance(inst'[o])
  BY <1>0, <1>2 DEF ShapeInv, TypeInv
<1>3. CASE Patch
  <2>1. PICK id \in Taken : inst' = [inst EXCEPT ![id] = Patched(inst[id], Wanted)]
    BY <1>3 DEF Patch
  <2>2. id \in Ids /\ inst[id].alive = TRUE /\ Wanted \in Elements
    BY <1>0, <1>3, <2>1, CandidateFacts, WantedFacts DEF Patch, ShapeInv
  <2>3. Instance(Patched(inst[id], Wanted))
    BY <2>2, PatchedType DEF TypeInv
  <2> QED BY <1>2, <1>3, <2>1, <2>2, <2>3 DEF Patch, TypeInv
<1>4. CASE Mount
  <2>1. PICK id \in Ids : inst' = [inst EXCEPT ![id] = Mounted(Wanted)]
    BY <1>4 DEF Mount
  <2>2. Instance(Mounted(Wanted))
    BY <1>0, <1>4, WantedFacts, MountedType DEF Mount
  <2> QED BY <1>2, <1>4, <2>1, <2>2 DEF Mount, TypeInv
<1>5. CASE Replace \/ Sweep
  <2>1. PICK id \in Ids : inst' = [inst EXCEPT ![id] = NoInst]
    BY <1>0, <1>5, CandidateFacts DEF Replace, Sweep, Leftovers, Unmount
  <2>2. Instance(NoInst)
    BY DEF Instance
  <2> QED BY <1>2, <1>5, <2>1, <2>2 DEF Replace, Sweep, TypeInv
<1>6. CASE RenderEnds
  <2>1. kids' = next /\ UNCHANGED <<tree, inst>> /\ at # "idle"
    BY <1>6 DEF RenderEnds
  <2>2. Len(next) <= MaxPlaces
    BY <1>0, <2>1 DEF MatchInv, TypeInv, ShapeInv
  <2> QED BY <2>1, <2>2 DEF TypeInv
<1>7. CASE UNCHANGED vars
  BY <1>7 DEF vars, TypeInv
<1> QED BY <1>1, <1>3, <1>4, <1>5, <1>6, <1>7 DEF Next

LEMMA InitTypes == Init => MatchInv /\ TypeInv
<1> SUFFICES ASSUME Init PROVE MatchInv /\ TypeInv
  OBVIOUS
<1>1. /\ tree = << >> /\ kids = << >> /\ next = << >> /\ at = "idle"
      /\ \A id \in Ids : inst[id] = NoInst
  BY DEF Init
<1>2. DOMAIN kids = {} /\ DOMAIN next = {} /\ Len(kids) = 0 /\ Len(tree) = 0
  BY <1>1
<1>3. MatchInv
  BY <1>1, <1>2 DEF MatchInv, IsInjective
<1>4. TypeInv
  <2>1. Instance(NoInst)
    BY DEF Instance
  <2>2. \A id \in Ids : Instance(inst[id])
    BY <1>1, <2>1, Zenon
  <2> QED BY <1>2, <2>2 DEF TypeInv
<1> QED BY <1>3, <1>4

-----------------------------------------------------------------------------
(* The widgets of the container, through a render.                         *)

OrderInv == box \in Seq(Ids) /\ structural \in BOOLEAN /\ BoxInv

LEMMA OrderInit == Init => OrderInv
<1> SUFFICES ASSUME Init PROVE OrderInv
  OBVIOUS
<1>1. /\ box = << >> /\ kids = << >> /\ next = << >> /\ structural = FALSE
      /\ \A id \in Ids : inst[id] = NoInst
  BY DEF Init
<1>2. box \in Seq(Ids) /\ DOMAIN box = {} /\ DOMAIN next = {}
  BY <1>1
<1>3. \A id \in Ids : inst[id].alive = FALSE
  BY <1>1 DEF NoInst
<1>4. IsInjective(box) /\ \A id \in Ids : ~Touchable(box, id)
  BY <1>2 DEF IsInjective, Touchable
<1>5. Reused = {}
  BY <1>2 DEF Reused
<1> QED BY <1>1, <1>2, <1>3, <1>4, <1>5 DEF OrderInv, BoxInv

\* With every widget there is among them, the instances of the elements are the
\* container's, and where nothing was made or deleted they are in place.
LEMMA EndInOrder ==
  ASSUME ShapeInv, MatchInv, OrderInv, RenderEnds
  PROVE  box' = next
<1>1. /\ at \in {"byKey", "byPosition"} /\ Leftovers = {}
      /\ box' = IF structural \/ (at = "byKey" /\ next # kids) THEN Ordered(box, next) ELSE box
  BY DEF RenderEnds, ShapeInv
<1>2. /\ box \in Seq(Ids) /\ next \in Seq(Ids) /\ kids \in Seq(Ids)
      /\ IsInjective(box) /\ IsInjective(next) /\ IsInjective(kids)
  BY DEF OrderInv, BoxInv, ShapeInv, MatchInv
<1>3. \A id \in Ids : inst[id].alive <=> id \in Reused
  <2>1. \A id \in Ids : inst[id].alive => id \in Reused
    BY <1>1 DEF Leftovers, ShapeInv
  <2>2. \A id \in Reused : inst[id].alive
    BY <1>1 DEF Reused, MatchInv
  <2> QED BY <2>1, <2>2
<1>4. CASE structural \/ (at = "byKey" /\ next # kids)
  <2>1. \A id \in Ids : Touchable(box, id) <=> id \in Reused
    BY <1>3 DEF OrderInv, BoxInv
  <2>2. Reused = Range(next) /\ Range(next) \subseteq Ids /\ Range(box) \subseteq Ids
    BY <1>2 DEF Reused, Range
  <2>3. \A id \in Ids : Touchable(box, id) <=> id \in Range(box)
    BY DEF Touchable, Range
  <2>4. Range(box) = Range(next)
    BY <2>1, <2>2, <2>3
  <2> QED BY <1>1, <1>2, <1>4, <2>4, ReorderAll
<1>5. CASE ~structural /\ ~(at = "byKey" /\ next # kids)
  <2>1. box' = kids /\ box = kids /\ Reused \subseteq Olds
    BY <1>1, <1>5 DEF OrderInv, BoxInv
  <2>2. CASE at = "byKey"
    BY <1>5, <2>1, <2>2
  <2>3. CASE at = "byPosition"
    <3>1. \A p \in DOMAIN next : p \in DOMAIN kids /\ next[p] = kids[p]
      BY <2>1, <2>3 DEF MatchInv, Reused
    <3>2. \A p \in DOMAIN kids : p \in DOMAIN next
      <4> TAKE p \in DOMAIN kids
      <4>1. kids[p] \in Ids /\ inst[kids[p]].alive
        BY <1>2, <2>1 DEF OrderInv, BoxInv, Touchable
      <4>2. PICK q \in DOMAIN next : next[q] = kids[p]
        BY <1>3, <4>1 DEF Reused
      <4>3. q = p
        BY <1>2, <3>1, <4>2 DEF IsInjective
      <4> QED BY <4>3
    <3>3. Len(next) = Len(kids)
      <4>1. PICK n \in Nat, k \in Nat : /\ n = Len(next) /\ DOMAIN next = 1..n
                                        /\ k = Len(kids) /\ DOMAIN kids = 1..k
        BY <1>2
      <4>2. 1..n = 1..k
        BY <3>1, <3>2, <4>1
      <4>3. n = k
        BY <4>2
      <4> QED BY <4>1, <4>3
    <3> QED BY <1>2, <2>1, <3>1, <3>3
  <2> QED BY <1>1, <2>2, <2>3
<1> QED BY <1>4, <1>5

LEMMA OrderStep == ASSUME RefInv, MatchInv, OrderInv, [Next]_vars PROVE OrderInv'
<1>0. ShapeInv
  BY DEF RefInv
<1>1. CASE RenderBegins
  <2>1. at = "idle" /\ at' # "idle" /\ UNCHANGED <<kids, inst, box, next, structural>>
    BY <1>1 DEF RenderBegins
  <2>2. Olds' = Olds /\ Reused' = Reused
    BY <2>1 DEF Olds, Reused
  <2> QED BY <2>1, <2>2 DEF OrderInv, BoxInv
<1>2. CASE Patch
  <2>1. PICK id \in Taken : /\ inst' = [inst EXCEPT ![id] = Patched(inst[id], Wanted)]
                            /\ next' = Append(next, id)
    BY <1>2 DEF Patch
  <2>2. UNCHANGED <<tree, kids, at, box, structural>> /\ at # "idle"
    BY <1>2 DEF Patch, Matching
  <2>3. /\ id \in Ids /\ id \in Olds /\ inst[id].alive = TRUE
        /\ {"alive", "vnode"} \subseteq DOMAIN inst[id]
    BY <1>0, <2>1, CandidateFacts DEF Taken, ShapeInv
  <2>4. \A o \in Ids : inst'[o].alive <=> inst[o].alive
    <3>1. inst'[id] = Patched(inst[id], Wanted) /\ \A o \in Ids : o # id => inst'[o] = inst[o]
      BY <1>0, <2>1, <2>3 DEF ShapeInv
    <3>2. Patched(inst[id], Wanted).alive = TRUE
      BY <2>3, PatchedFacts
    <3> QED BY <2>3, <3>1, <3>2
  <2>5. Reused' = Reused \cup {id} /\ Olds' = Olds
    BY <1>0, <2>1, <2>2, <2>3, ReusedGrows
  <2> QED BY <2>2, <2>3, <2>4, <2>5 DEF OrderInv, BoxInv
<1>3. CASE Mount
  <2>1. PICK id \in Ids : /\ Free(id) /\ inst' = [inst EXCEPT ![id] = Mounted(Wanted)]
                          /\ box' = Append(box, id)
    BY <1>3 DEF Mount
  <2>2. structural' = TRUE /\ at' # "idle"
    BY <1>3 DEF Mount, Matching
  <2>3. ~inst[id].alive
    BY <1>0, <2>1 DEF ShapeInv, Free
  <2>4. /\ box' \in Seq(Ids) /\ IsInjective(box')
        /\ \A v : Touchable(box', v) <=> v = id \/ Touchable(box, v)
    <3>1. ~Touchable(box, id)
      BY <2>3 DEF OrderInv, BoxInv
    <3> QED BY <2>1, <3>1, AppendFacts DEF OrderInv, BoxInv
  <2>5. inst'[id].alive = TRUE /\ \A o \in Ids : o # id => inst'[o] = inst[o]
    BY <1>0, <2>1, MountedFacts DEF ShapeInv
  <2>6. \A o \in Ids : inst'[o].alive <=> Touchable(box', o)
    BY <2>4, <2>5 DEF OrderInv, BoxInv
  <2> QED BY <2>2, <2>4, <2>6 DEF OrderInv, BoxInv
<1>4. CASE Replace \/ Sweep
  <2>1. PICK id \in Ids : inst[id].alive /\ Unmount(id)
    BY <1>0, <1>4, CandidateFacts DEF Replace, Sweep, Leftovers
  <2>2. /\ inst' = [inst EXCEPT ![id] = NoInst] /\ box' = Without(box, id)
        /\ structural' = TRUE /\ at' # "idle"
    BY <1>4, <2>1 DEF Unmount, Replace, Sweep
  <2>3. /\ box' \in Seq(Ids) /\ IsInjective(box')
        /\ \A v : Touchable(box', v) <=> v # id /\ Touchable(box, v)
    <3>1. Touchable(box, id)
      BY <2>1 DEF OrderInv, BoxInv
    <3> QED BY <2>2, <3>1, WithoutFacts DEF OrderInv, BoxInv
  <2>4. inst'[id].alive = FALSE /\ \A o \in Ids : o # id => inst'[o] = inst[o]
    BY <1>0, <2>2 DEF ShapeInv, NoInst
  <2>5. \A o \in Ids : inst'[o].alive <=> Touchable(box', o)
    BY <2>3, <2>4 DEF OrderInv, BoxInv
  <2> QED BY <2>2, <2>3, <2>5 DEF OrderInv, BoxInv
<1>5. CASE RenderEnds
  <2>1. box' = next
    BY <1>0, <1>5, EndInOrder
  <2>2. /\ kids' = next /\ next' = << >> /\ structural' = FALSE /\ inst' = inst /\ at # "idle"
    BY <1>5 DEF RenderEnds
  <2>3. next \in Seq(Ids) /\ IsInjective(next) /\ Reused' = {}
    <3>1. DOMAIN next' = {}
      BY <2>2
    <3> QED BY <1>0, <3>1 DEF ShapeInv, MatchInv, Reused
  <2>4. \A id \in Ids : inst[id].alive <=> Touchable(next, id)
    <3>1. \A id \in Ids : inst[id].alive => id \in Reused
      BY <1>0, <1>5 DEF RenderEnds, Leftovers, ShapeInv
    <3>2. \A id \in Reused : inst[id].alive
      BY <2>2 DEF Reused, MatchInv
    <3>3. \A id : id \in Reused <=> Touchable(next, id)
      BY DEF Reused, Touchable
    <3> QED BY <3>1, <3>2, <3>3
  <2> QED BY <2>1, <2>2, <2>3, <2>4 DEF OrderInv, BoxInv
<1>6. CASE UNCHANGED vars
  BY <1>6 DEF vars, OrderInv, BoxInv, Olds, Reused, Touchable
<1> QED BY <1>1, <1>2, <1>3, <1>4, <1>5, <1>6 DEF Next

\* At every step of a render the container holds the widgets of the instances
\* there are and no others, and after it those of the elements, in their order:
\* mount() and unmount() leave none behind, and a render that makes, deletes and
\* moves none has no need of reorder().
THEOREM BoxInvariant == Spec => []BoxInv
<1>1. MatchInv /\ RefInv /\ [Next]_vars => MatchInv'
  BY MatchStep
<1>2. RefInv /\ MatchInv /\ OrderInv /\ [Next]_vars => OrderInv'
  BY OrderStep
<1>3. OrderInv => BoxInv
  BY DEF OrderInv
<1> QED BY <1>1, <1>2, <1>3, InitRefInv, InitTypes, OrderInit, StepKeepsRefInv, PTL DEF Spec

LEMMA TypesFollow == RefInv /\ MatchInv /\ TypeInv /\ OrderInv => TypeOK
<1> SUFFICES ASSUME RefInv, MatchInv, TypeInv, OrderInv PROVE TypeOK
  OBVIOUS
<1>1. tree \in Seq(Elements) /\ kids \in Seq(Ids) /\ next \in Seq(Ids)
  BY DEF RefInv, ShapeInv
<1>2. Len(next) <= MaxPlaces
  <2>1. CASE at = "idle"
    <3>1. next = << >>
      BY <2>1 DEF RefInv, ShapeInv
    <3> QED BY <3>1
  <2>2. CASE at # "idle"
    BY <1>1, <2>2 DEF MatchInv, TypeInv
  <2> QED BY <2>1, <2>2
<1>3. /\ tree \in BoundedSeq(Elements, MaxPlaces)
      /\ kids \in BoundedSeq(Ids, MaxPlaces) /\ next \in BoundedSeq(Ids, MaxPlaces)
  BY <1>1, <1>2, BoundedFacts DEF TypeInv
<1> QED BY <1>3 DEF TypeOK, TypeInv, RefInv, ShapeInv, MatchInv, OrderInv

\* Whatever the app renders, a widget has a value for every prop, its labels
\* have texts, and once a render is over there is a live instance for each
\* element, never more of them than the container is bounded by.
THEOREM ElementTypes == Spec => []TypeOK
<1>1. MatchInv /\ RefInv /\ [Next]_vars => MatchInv'
  BY MatchStep
<1>2. RefInv /\ MatchInv /\ TypeInv /\ [Next]_vars => TypeInv'
  BY TypeStep
<1>3. RefInv /\ MatchInv /\ OrderInv /\ [Next]_vars => OrderInv'
  BY OrderStep
<1> QED BY <1>1, <1>2, <1>3, InitRefInv, InitTypes, OrderInit, StepKeepsRefInv, TypesFollow, PTL DEF Spec

-----------------------------------------------------------------------------
(* A widget that stays and one made anew.                                  *)

LEMMA PropFacts ==
  ASSUME NEW e, NEW k
  PROVE  /\ Given(e.props, k) <=> Prop(e, k) # Undefined
         /\ Given(e.props, k) => e.props[k] = Prop(e, k) /\ k \in DOMAIN e.props
         /\ k \in DOMAIN e.props => e.props[k] = Prop(e, k)
         /\ k \notin DOMAIN e.props => Prop(e, k) = Undefined
BY DEF Given, Prop

\* What diffProps() has of a prop.
LEMMA DiffFacts ==
  ASSUME NEW old, NEW e, NEW k
  PROVE  /\ k \in DOMAIN DiffProps(old, e) <=>
              \/ k \in DOMAIN e.props /\ Prop(e, k) # Prop(old, k)
              \/ k \in DOMAIN old.props \ DOMAIN e.props /\ k \in DOMAIN Reset
         /\ k \in DOMAIN DiffProps(old, e) =>
              DiffProps(old, e)[k] = IF k \in DOMAIN e.props THEN Prop(e, k) ELSE Reset[k]
BY DEF DiffProps, Prop

LEMMA ResetFacts ==
  DOMAIN Reset = {"hidden", "scroll"} /\ Reset["hidden"] = FALSE /\ Reset["scroll"] = TRUE
BY DEF Reset

\* The props sent make of the look of one element that of the next.
LEMMA LookPatched ==
  ASSUME Steady, NEW i, i.vnode \in Elements, NEW e \in Elements, Alike(i.vnode, e), LookKept(i),
         NEW look, look = Apply(i.look, DiffProps(i.vnode, e))
  PROVE  /\ \A k \in PropNames \ {"bg"} : look[k] = Apply(NewLook, e.props)[k]
         /\ Given(e.props, "bg") => look["bg"] = e.props["bg"]
<1> DEFINE old == i.vnode
           d == DiffProps(old, e)
<1>0. /\ \A k \in Places : Prop(old, k) = Prop(e, k)
      /\ Unscrolled(old) <=> Unscrolled(e)
      /\ "hidden" \in DOMAIN e.props => Given(e.props, "hidden")
      /\ "hidden" \in DOMAIN old.props => Given(old.props, "hidden")
  BY DEF Steady, Alike
<1>p. /\ PropNames = {"align", "x", "y", "bg", "hidden", "scroll"}
      /\ Places = {"align", "x", "y"}
  BY DEF PropNames, Places
\* The place is not sent.
<1>1. ASSUME NEW k \in Places PROVE ~Given(d, k) /\ (Given(old.props, k) <=> Given(e.props, k))
  <2>1. k \notin DOMAIN Reset /\ Prop(old, k) = Prop(e, k)
    BY <1>0, <1>p, ResetFacts
  <2>2. k \notin DOMAIN d
    BY <2>1, DiffFacts
  <2> QED BY <2>1, <2>2, PropFacts DEF Given
<1>2. ASSUME NEW k \in Places PROVE look[k] = Apply(NewLook, e.props)[k]
  <2>1. look[k] = i.look[k]
    BY <1>1, <1>p DEF Apply
  <2>2. i.look[k] = Apply(NewLook, old.props)[k]
    BY <1>p DEF LookKept
  <2>3. Given(e.props, k) => old.props[k] = e.props[k]
    BY <1>0, <1>1, PropFacts
  <2>4. (\E p \in Places : Given(old.props, p)) <=> (\E p \in Places : Given(e.props, p))
    BY <1>1
  <2>5. Apply(NewLook, old.props)[k] = Apply(NewLook, e.props)[k]
    BY <1>1, <1>p, <2>3, <2>4 DEF Apply
  <2> QED BY <2>1, <2>2, <2>5
<1>3. look["scroll"] = Apply(NewLook, e.props)["scroll"]
  <2>1. /\ look["scroll"] = (i.look["scroll"] /\ ~(Given(d, "scroll") /\ ~d["scroll"]))
        /\ i.look["scroll"] = Apply(NewLook, old.props)["scroll"]
    BY <1>p DEF Apply, LookKept
  <2>2. ASSUME NEW f
        PROVE  Apply(NewLook, f.props)["scroll"] = (TRUE /\ ~(Given(f.props, "scroll") /\ ~f.props["scroll"]))
    BY <1>p DEF Apply, NewLook
  <2>3. i.look["scroll"] = ~Unscrolled(old) /\ Apply(NewLook, e.props)["scroll"] = ~Unscrolled(e)
    BY <2>1, <2>2, Zenon DEF Unscrolled
  <2>4. ASSUME ~Unscrolled(e) PROVE ~(Given(d, "scroll") /\ ~d["scroll"])
    <3>1. CASE "scroll" \in DOMAIN e.props
      <4>1. "scroll" \in DOMAIN d => d["scroll"] = e.props["scroll"]
        BY <3>1, DiffFacts, PropFacts
      <4> QED BY <2>4, <3>1, <4>1 DEF Given, Unscrolled
    <3>2. CASE "scroll" \notin DOMAIN e.props
      BY <3>2, DiffFacts, ResetFacts DEF Given
    <3> QED BY <3>1, <3>2
  <2> QED BY <1>0, <2>1, <2>3, <2>4, Zenon
<1>4. look["hidden"] = Apply(NewLook, e.props)["hidden"]
  <2>1. /\ look["hidden"] = IF Given(d, "hidden") THEN d["hidden"] ELSE i.look["hidden"]
        /\ i.look["hidden"] = Apply(NewLook, old.props)["hidden"]
    BY <1>p DEF Apply, LookKept
  <2>2. ASSUME NEW f
        PROVE  Apply(NewLook, f.props)["hidden"] =
                 IF Given(f.props, "hidden") THEN f.props["hidden"] ELSE FALSE
    BY <1>p DEF Apply, NewLook
  <2>3. CASE "hidden" \in DOMAIN e.props /\ Prop(e, "hidden") # Prop(old, "hidden")
    <3>1. "hidden" \in DOMAIN d /\ d["hidden"] = e.props["hidden"]
      BY <2>3, DiffFacts, PropFacts
    <3>2. Given(e.props, "hidden") /\ Given(d, "hidden")
      BY <1>0, <2>3, <3>1 DEF Given
    <3> QED BY <2>1, <2>2, <3>1, <3>2
  <2>4. CASE "hidden" \in DOMAIN e.props /\ Prop(e, "hidden") = Prop(old, "hidden")
    <3>1. ~Given(d, "hidden") /\ Given(e.props, "hidden")
      BY <1>0, <2>4, DiffFacts DEF Given
    <3>2. Given(old.props, "hidden") /\ old.props["hidden"] = e.props["hidden"]
      BY <2>4, <3>1, PropFacts
    <3> QED BY <2>1, <2>2, <3>1, <3>2
  <2>5. CASE "hidden" \notin DOMAIN e.props
    <3>1. ~Given(e.props, "hidden")
      BY <2>5 DEF Given
    <3>2. CASE "hidden" \in DOMAIN old.props
      <4>1. "hidden" \in DOMAIN d /\ d["hidden"] = FALSE
        BY <2>5, <3>2, DiffFacts, ResetFacts
      <4>2. Given(d, "hidden")
        BY <4>1, Zenon DEF Given
      <4> QED BY <2>1, <2>2, <3>1, <4>1, <4>2
    <3>3. CASE "hidden" \notin DOMAIN old.props
      <4>1. ~Given(d, "hidden") /\ ~Given(old.props, "hidden")
        BY <2>5, <3>3, DiffFacts DEF Given
      <4> QED BY <2>1, <2>2, <3>1, <4>1
    <3> QED BY <3>2, <3>3
  <2> QED BY <2>3, <2>4, <2>5
<1>5. ASSUME Given(e.props, "bg") PROVE look["bg"] = e.props["bg"]
  <2>1. look["bg"] = IF Given(d, "bg") THEN d["bg"] ELSE i.look["bg"]
    BY <1>p DEF Apply
  <2>2. "bg" \in DOMAIN e.props /\ e.props["bg"] = Prop(e, "bg") /\ Prop(e, "bg") # Undefined
    BY <1>5, PropFacts
  <2>3. CASE Prop(e, "bg") # Prop(old, "bg")
    <3>1. "bg" \in DOMAIN d /\ d["bg"] = e.props["bg"]
      BY <2>2, <2>3, DiffFacts
    <3> QED BY <1>5, <2>1, <2>2, <3>1 DEF Given
  <2>4. CASE Prop(e, "bg") = Prop(old, "bg")
    <3>1. "bg" \notin DOMAIN d
      BY <2>2, <2>4, DiffFacts
    <3>2. Given(old.props, "bg") /\ old.props["bg"] = e.props["bg"]
      BY <2>2, <2>4, PropFacts
    <3> QED BY <2>1, <3>1, <3>2 DEF Given, LookKept
  <2> QED BY <2>3, <2>4
<1>6. \A k \in PropNames \ {"bg"} : k \in Places \/ k = "scroll" \/ k = "hidden"
  BY <1>p
<1> QED BY <1>2, <1>3, <1>4, <1>5, <1>6

LEMMA TextReplaced ==
  ASSUME NEW own, NEW a, NEW b, NEW l, l = [own |-> own, text |-> a]
  PROVE  l.own = own /\ [l EXCEPT !.text = b] = [own |-> own, text |-> b]
OBVIOUS

\* A text set again takes the place of the one before.
LEMMA SetTextAgain ==
  ASSUME NEW a, NEW b
  PROVE  SetText(SetText(<< >>, a), b) = SetText(<< >>, b)
<1> DEFINE l == [own |-> TRUE, text |-> a]
           m == [own |-> TRUE, text |-> b]
<1>1. SetText(<< >>, a) = <<l>> /\ SetText(<< >>, b) = <<m>>
  BY DEF SetText
<1>2. [l EXCEPT !.text = b] = m
  BY TextReplaced, Zenon
<1> HIDE DEF l, m
<1>3. <<l>> # << >> /\ <<l>>[1] = l
  OBVIOUS
<1>4. [<<l>> EXCEPT ![1] = m] = <<m>>
  OBVIOUS
<1>5. SetText(<<l>>, b) = [<<l>> EXCEPT ![1] = m]
  BY <1>2, <1>3 DEF SetText
<1> QED BY <1>1, <1>4, <1>5

\* Where the only label is the one mounted inside, diffKids() leaves the label
\* of the new one.
LEMMA LabelAgain ==
  ASSUME NEW old, NEW new PROVE DiffBelow(Label(old), old, new) = Label(new)
<1> DEFINE l == [own |-> FALSE, text |-> old.text]
           m == [own |-> FALSE, text |-> new.text]
<1>1. /\ Label(old) = IF old = NoBelow THEN << >> ELSE <<l>>
      /\ Label(new) = IF new = NoBelow THEN << >> ELSE <<m>>
  BY DEF Label
<1>2. l.own = FALSE /\ [l EXCEPT !.text = new.text] = m
  <2>1. l.own = FALSE
    OBVIOUS
  <2>2. PICK f : f = FALSE
    OBVIOUS
  <2>3. l = [own |-> f, text |-> old.text] /\ m = [own |-> f, text |-> new.text]
    BY <2>2, Zenon
  <2> HIDE DEF l, m
  <2>4. [l EXCEPT !.text = new.text] = [own |-> f, text |-> new.text]
    BY <2>3, TextReplaced
  <2> QED BY <2>1, <2>3, <2>4, Zenon
<1> HIDE DEF l, m
<1>3. CASE new = old
  BY <1>3 DEF DiffBelow
<1>4. CASE new # old /\ new # NoBelow /\ old # NoBelow /\ new.auto = old.auto
  <2>1. DOMAIN <<l>> = {1} /\ <<l>>[1] = l
    OBVIOUS
  <2>2. DiffBelow(<<l>>, old, new) =
          [p \in DOMAIN <<l>> |->
             IF <<l>>[p].own THEN <<l>>[p] ELSE [<<l>>[p] EXCEPT !.text = new.text]]
    BY <1>4, Zenon DEF DiffBelow
  <2>3. DiffBelow(<<l>>, old, new) = [p \in {1} |-> m]
    BY <1>2, <2>1, <2>2
  <2>4. [p \in {1} |-> m] = <<m>>
    OBVIOUS
  <2> QED BY <1>1, <1>4, <2>3, <2>4
<1>5. CASE new # old /\ ~(new # NoBelow /\ old # NoBelow /\ new.auto = old.auto)
  <2>1. DiffBelow(Label(old), old, new) = Label(new) \o Own(Label(old))
    BY <1>5, Zenon DEF DiffBelow
  <2>2. Own(Label(old)) = << >>
    <3>1. Last(<<l>>) = l
      BY DEF Last
    <3> QED BY <1>1, <1>2, <3>1 DEF Own
  <2>3. Label(new) \o << >> = Label(new)
    <3>1. << >> \o << >> = << >> /\ <<m>> \o << >> = <<m>>
      OBVIOUS
    <3> QED BY <1>1, <3>1
  <2> QED BY <2>1, <2>2, <2>3
<1> QED BY <1>3, <1>4, <1>5

\* The labels of an element become those of the next.
LEMMA LabelsPatched ==
  ASSUME Steady, NEW i, i.vnode \in Elements, NEW e \in Elements, Alike(i.vnode, e), LabelsKept(i),
         NEW j, j.vnode = e,
         j.below = (IF TextOf(e) # NoText THEN i.below ELSE Below(e)),
         j.labels = (IF TextOf(e) # NoText THEN DiffText(i.labels, i.vnode, e)
                     ELSE DiffBelow(DiffText(i.labels, i.vnode, e), i.below, Below(e)))
  PROVE  LabelsKept(j)
<1> DEFINE old == i.vnode
<1>0. \A f, g \in Elements : Alike(f, g) => TextOf(f) = NoText \/ Below(g) = NoBelow
  BY DEF Steady
<1>1. Alike(e, old) /\ \A f : Alike(old, f) <=> Alike(e, f)
  BY DEF Alike
<1>2. CASE TextOf(e) # NoText
  <2>1. Below(e) = NoBelow /\ Below(old) = NoBelow
    BY <1>0, <1>1, <1>2 DEF Below
  <2>2. j.below = Below(e)
    BY <1>2, <2>1 DEF LabelsKept
  <2>3. \/ i.labels = << >>
        \/ \E t : i.labels = SetText(<< >>, t)
    BY <2>1 DEF LabelsKept, Label
  <2>4. SetText(i.labels, TextOf(e)) = SetText(<< >>, TextOf(e))
    BY <2>3, SetTextAgain
  <2>5. j.labels = SetText(<< >>, TextOf(e))
    BY <1>2, <2>4 DEF DiffText, LabelsKept
  <2> QED BY <1>2, <2>2, <2>5 DEF LabelsKept
<1>3. CASE TextOf(e) = NoText
  <2>1. j.below = Below(e) /\ i.below = Below(old)
    BY <1>3 DEF LabelsKept
  <2>2. CASE TextOf(old) # NoText
    <3>1. Below(e) = NoBelow /\ Below(old) = NoBelow
      BY <1>0, <2>2 DEF Below
    <3>2. j.labels = DiffText(i.labels, old, e)
      BY <1>3, <2>1, <3>1 DEF DiffBelow
    <3>3. DiffText(i.labels, old, e) = SetText(SetText(<< >>, TextOf(old)), "")
      BY <1>3, <2>2 DEF DiffText, LabelsKept
    <3>4. j.labels = SetText(<< >>, "")
      BY <3>2, <3>3, SetTextAgain
    <3> QED BY <1>1, <1>3, <2>1, <2>2, <3>1, <3>4 DEF LabelsKept
  <2>3. CASE TextOf(old) = NoText
    <3>1. j.labels = DiffBelow(i.labels, Below(old), Below(e))
      BY <1>3, <2>1, <2>3 DEF DiffText
    <3>2. CASE i.labels = Label(Below(old))
      <4>1. j.labels = Label(Below(e))
        BY <3>1, <3>2, LabelAgain
      <4> QED BY <1>3, <2>1, <4>1, Zenon DEF LabelsKept
    <3>3. CASE i.labels # Label(Below(old))
      <4>1. PICK f \in Elements : Alike(old, f) /\ TextOf(f) # NoText
        BY <2>3, <3>3 DEF LabelsKept
      <4>2. Alike(e, f) /\ Alike(f, e)
        BY <1>1, <4>1 DEF Alike
      <4>3. Below(old) = NoBelow /\ i.labels = SetText(<< >>, "")
        BY <2>3, <3>3 DEF LabelsKept
      <4>4. Below(e) = NoBelow
        BY <1>0, <4>1, <4>2
      <4>5. j.labels = i.labels
        BY <3>1, <4>3, <4>4 DEF DiffBelow
      <4> QED BY <1>3, <2>1, <4>1, <4>2, <4>3, <4>4, <4>5 DEF LabelsKept
    <3> QED BY <3>2, <3>3
  <2> QED BY <2>2, <2>3
<1> QED BY <1>2, <1>3

\* patch() keeps a widget as its element would have it, for the next element.
LEMMA PatchedKept ==
  ASSUME Steady, NEW i, Instance(i), i.alive = TRUE, NEW e \in Elements, Alike(i.vnode, e),
         LookKept(i), LabelsKept(i), EventsKept(i)
  PROVE  LookKept(Patched(i, e)) /\ LabelsKept(Patched(i, e)) /\ EventsKept(Patched(i, e))
<1> DEFINE j == Patched(i, e)
<1>1. DOMAIN i = Fields /\ i.bound \in BOOLEAN /\ i.vnode \in Elements /\ i.trampolines \in Nat
  <2>1. i # NoInst
    BY DEF NoInst
  <2> QED BY <2>1, Zenon DEF Instance, Fields
<1>2. /\ j.vnode = e
      /\ j.look = Apply(i.look, DiffProps(i.vnode, e))
      /\ j.below = (IF TextOf(e) # NoText THEN i.below ELSE Below(e))
      /\ j.labels = (IF TextOf(e) # NoText THEN DiffText(i.labels, i.vnode, e)
                    ELSE DiffBelow(DiffText(i.labels, i.vnode, e), i.below, Below(e)))
      /\ j.on = e.on
      /\ j.bound = (e.on # NoHandler \/ i.bound)
      /\ j.trampolines =
           IF e.on # NoHandler /\ ~i.bound THEN i.trampolines + 1 ELSE i.trampolines
  BY <1>1, PatchedFields
<1> HIDE DEF j
<1>3. LookKept(j)
  BY <1>1, <1>2, LookPatched DEF LookKept
<1>4. LabelsKept(j)
  BY <1>1, <1>2, LabelsPatched
<1>5. EventsKept(j)
  <2>1. i.trampolines = IF i.bound THEN 1 ELSE 0
    BY DEF EventsKept
  <2>2. CASE e.on = NoHandler
    <3>1. /\ j.on = e.on /\ (j.bound <=> i.bound) /\ j.trampolines = i.trampolines
      BY <1>2, <2>2, Zenon
    <3> QED BY <2>1, <2>2, <3>1, <1>2, Zenon DEF EventsKept
  <2>3. CASE e.on # NoHandler
    <3>1. j.on = e.on /\ j.bound
      BY <1>2, <2>3, Zenon
    <3>2. j.trampolines = 1
      BY <1>1, <1>2, <2>1, <2>3
    <3> QED BY <1>2, <3>1, <3>2, Zenon DEF EventsKept
  <2> QED BY <2>2, <2>3
<1> QED BY <1>3, <1>4, <1>5 DEF j

\* A widget made for an element is as it would have it.
LEMMA MountedKept ==
  ASSUME NEW e \in Elements
  PROVE  LookKept(Mounted(e)) /\ LabelsKept(Mounted(e)) /\ EventsKept(Mounted(e))
<1> DEFINE j == Mounted(e)
<1>1. /\ j.vnode = e /\ j.below = Below(e) /\ j.look = Apply(NewLook, e.props)
      /\ j.labels = (IF TextOf(e) # NoText THEN SetText(<< >>, TextOf(e)) ELSE Label(Below(e)))
      /\ j.on = e.on /\ j.bound = (e.on # NoHandler)
      /\ j.trampolines = IF e.on # NoHandler THEN 1 ELSE 0
  BY MountedFields
<1> HIDE DEF j
<1>2. LookKept(j)
  <2>1. ASSUME Given(e.props, "bg") PROVE Apply(NewLook, e.props)["bg"] = e.props["bg"]
    BY <2>1 DEF Apply, PropNames
  <2> QED BY <1>1, <2>1 DEF LookKept
<1>3. LabelsKept(j)
  BY <1>1 DEF LabelsKept
<1>4. EventsKept(j)
  BY <1>1 DEF EventsKept
<1> QED BY <1>2, <1>3, <1>4 DEF j

LEMMA KeptStep == ASSUME Steady, RefInv, TypeInv, KeptInv, [Next]_vars PROVE KeptInv'
<1> DEFINE Kept(i) == LookKept(i) /\ LabelsKept(i) /\ EventsKept(i)
<1>0. ShapeInv /\ MatchInv /\ MatchInv' /\ \A id \in Ids : inst[id].alive => Kept(inst[id])
  BY MatchStep DEF RefInv, KeptInv
<1>1. ASSUME NEW id \in Ids, NEW i, i.alive => Kept(i), inst' = [inst EXCEPT ![id] = i]
      PROVE  \A o \in Ids : inst'[o].alive => Kept(inst'[o])
  <2> HIDE DEF Kept
  <2> QED BY <1>0, <1>1 DEF ShapeInv
<1>2. CASE Patch
  <2>1. PICK id \in Taken : inst' = [inst EXCEPT ![id] = Patched(inst[id], Wanted)]
    BY <1>2 DEF Patch
  <2>2. id \in Ids /\ inst[id].alive = TRUE /\ Wanted \in Elements
    BY <1>0, <1>2, <2>1, CandidateFacts, WantedFacts DEF Patch, ShapeInv
  <2>3. Alike(inst[id].vnode, Wanted)
    BY <2>1 DEF Taken, Compatible, KeyOf, Alike
  <2>4. Kept(Patched(inst[id], Wanted))
    BY <1>0, <2>2, <2>3, PatchedKept DEF TypeInv
  <2> HIDE DEF Kept
  <2>5. \A o \in Ids : inst'[o].alive => Kept(inst'[o])
    BY <1>1, <2>1, <2>2, <2>4
  <2> QED BY <1>0, <2>5 DEF KeptInv, Kept
<1>3. CASE Mount
  <2>1. PICK id \in Ids : inst' = [inst EXCEPT ![id] = Mounted(Wanted)]
    BY <1>3 DEF Mount
  <2>2. Kept(Mounted(Wanted))
    BY <1>0, <1>3, WantedFacts, MountedKept DEF Mount
  <2> HIDE DEF Kept
  <2>3. \A o \in Ids : inst'[o].alive => Kept(inst'[o])
    BY <1>1, <2>1, <2>2
  <2> QED BY <1>0, <2>3 DEF KeptInv, Kept
<1>4. CASE Replace \/ Sweep
  <2>1. PICK id \in Ids : inst' = [inst EXCEPT ![id] = NoInst]
    BY <1>0, <1>4, CandidateFacts DEF Replace, Sweep, Leftovers, Unmount
  <2>2. ~NoInst.alive
    BY DEF NoInst
  <2> HIDE DEF Kept
  <2>3. \A o \in Ids : inst'[o].alive => Kept(inst'[o])
    BY <1>1, <2>1, <2>2
  <2> QED BY <1>0, <2>3 DEF KeptInv, Kept
<1>5. CASE RenderBegins \/ RenderEnds \/ UNCHANGED vars
  <2>1. inst' = inst
    BY <1>5 DEF RenderBegins, RenderEnds, vars
  <2> QED BY <1>0, <2>1 DEF KeptInv
<1> QED BY <1>2, <1>3, <1>4, <1>5 DEF Next

\* A widget that is as its element would have it appears as a new one would.
LEMMA KeptAppears ==
  ASSUME NEW i, i.vnode \in Elements, LookKept(i), LabelsKept(i), EventsKept(i)
  PROVE  Appears(i, i.vnode) = Appears(Mounted(i.vnode), i.vnode)
<1> DEFINE e == i.vnode
           m == Mounted(e)
<1>1. /\ m.look = Apply(NewLook, e.props) /\ m.on = e.on
      /\ m.labels = (IF TextOf(e) # NoText THEN SetText(<< >>, TextOf(e)) ELSE Label(Below(e)))
      /\ m.trampolines = IF e.on # NoHandler THEN 1 ELSE 0
  BY MountedFields
<1> HIDE DEF m
<1>2. ASSUME NEW k \in DOMAIN Reset \cup {k \in PropNames : Given(e.props, k)}
      PROVE  i.look[k] = m.look[k]
  <2>1. CASE k = "bg"
    <3>1. Given(e.props, "bg")
      BY <1>2, <2>1, ResetFacts
    <3>2. m.look["bg"] = e.props["bg"]
      BY <1>1, <3>1 DEF Apply, PropNames
    <3> QED BY <2>1, <3>1, <3>2 DEF LookKept
  <2>2. CASE k # "bg"
    <3>1. k \in PropNames \ {"bg"}
      BY <1>2, <2>2, ResetFacts DEF PropNames
    <3> QED BY <1>1, <3>1 DEF LookKept
  <2> QED BY <2>1, <2>2
<1> DEFINE Seen(labels) == [p \in {p \in DOMAIN labels : labels[p].text # ""} |-> labels[p]]
<1>3. Seen(i.labels) = Seen(m.labels)
  <2>1. CASE i.labels = m.labels
    <3> HIDE DEF Seen
    <3> QED BY <2>1
  <2>2. CASE i.labels # m.labels
    <3>1. i.labels = SetText(<< >>, "") /\ m.labels = << >>
      <4>1. TextOf(e) = NoText
        BY <1>1, <2>2 DEF LabelsKept
      <4>2. m.labels = Label(Below(e))
        BY <1>1, <4>1
      <4>3. i.labels = SetText(<< >>, "") /\ Below(e) = NoBelow
        BY <2>2, <4>1, <4>2, Zenon DEF LabelsKept
      <4>4. Label(Below(e)) = << >>
        BY <4>3, Zenon DEF Label
      <4> QED BY <4>2, <4>3, <4>4, Zenon
    <3>2. DOMAIN m.labels = {}
      <4>1. DOMAIN << >> = {}
        OBVIOUS
      <4> QED BY <3>1, <4>1, Zenon
    <3>3. PICK l : l = [own |-> TRUE, text |-> ""]
      OBVIOUS
    <3>4. i.labels = <<l>> /\ l.text = ""
      <4>1. SetText(<< >>, "") = <<l>>
        BY <3>3, Zenon DEF SetText
      <4>2. l.text = ""
        BY <3>3
      <4> QED BY <3>1, <4>1, <4>2, Zenon
    <3>5. DOMAIN i.labels = {1} /\ i.labels[1].text = ""
      <4>1. DOMAIN <<l>> = {1} /\ <<l>>[1] = l
        OBVIOUS
      <4> QED BY <3>4, <4>1, Zenon
    <3>6. {p \in DOMAIN i.labels : i.labels[p].text # ""} = {}
      <4>1. \A p \in DOMAIN i.labels : p = 1
        BY <3>5, Zenon
      <4>2. \A p \in DOMAIN i.labels : i.labels[p].text = ""
        BY <3>5, <4>1, Zenon
      <4> QED BY <4>2, Zenon
    <3>7. {p \in DOMAIN m.labels : m.labels[p].text # ""} = {}
      BY <3>2, Zenon
    <3> QED BY <3>6, <3>7
  <2> QED BY <2>1, <2>2
<1>4. i.on = m.on /\ (i.on # NoHandler => i.trampolines = m.trampolines)
  BY <1>1 DEF EventsKept
<1> DEFINE Props(x) == [k \in DOMAIN Reset \cup {k \in PropNames : Given(e.props, k)} |-> x.look[k]]
           Fires(x) == [p \in 1..(IF x.on = NoHandler THEN 0 ELSE x.trampolines) |-> x.on]
<1>5. Props(i) = Props(m)
  BY <1>2
<1>6. Fires(i) = Fires(m)
  BY <1>4
<1>7. \A x : Appears(x, e) = [props |-> Props(x), shows |-> Seen(x.labels), fires |-> Fires(x)]
  BY DEF Appears
<1> HIDE DEF Props, Seen, Fires
<1> QED BY <1>3, <1>5, <1>6, <1>7 DEF m

\* Over any number of renders of elements that ui.js can bring up to date, every
\* widget is where its element is, and looks and acts like one made anew:
\* patch(), diffProps(), updateEvents(), apply_props() and reorder() forget
\* nothing and leave nothing behind.
THEOREM AsGoodAsNewAlways == ASSUME Steady PROVE Spec => []AsGoodAsNew
<1>1. Init => KeptInv
  BY InitTypes DEF Init, KeptInv, NoInst
<1>2. RefInv /\ KeptInv /\ OrderInv => AsGoodAsNew
  <2> SUFFICES ASSUME RefInv, KeptInv, OrderInv, at = "idle" PROVE AsGoodAsNew
    BY DEF AsGoodAsNew
  <2>1. kids \in Seq(Ids) /\ tree \in Seq(Elements) /\ Len(kids) = Len(tree) /\ box = kids
    BY DEF RefInv, ShapeInv, KeptInv, MatchInv, OrderInv, BoxInv
  <2>2. DOMAIN box = DOMAIN tree
    BY <2>1
  <2>3. ASSUME NEW p \in DOMAIN tree
        PROVE  Appears(inst[box[p]], tree[p]) = Appears(Mounted(tree[p]), tree[p])
    <3>1. p \in DOMAIN kids /\ box[p] = kids[p] /\ kids[p] \in Ids /\ tree[p] \in Elements
      BY <2>1, <2>2
    <3>2. inst[kids[p]].alive /\ inst[kids[p]].vnode = tree[p]
      BY <3>1 DEF KeptInv, MatchInv
    <3> QED BY <3>1, <3>2, KeptAppears DEF KeptInv
  <2> QED BY <2>2, <2>3 DEF AsGoodAsNew
<1>3. RefInv /\ TypeInv /\ KeptInv /\ [Next]_vars => KeptInv'
  BY KeptStep
<1>4. RefInv /\ KeptInv /\ TypeInv /\ [Next]_vars => TypeInv'
  BY TypeStep DEF KeptInv
<1>5. RefInv /\ KeptInv /\ OrderInv /\ [Next]_vars => OrderInv'
  BY OrderStep DEF KeptInv
<1> QED BY <1>1, <1>2, <1>3, <1>4, <1>5, InitRefInv, InitTypes, OrderInit, StepKeepsRefInv, PTL DEF Spec
=============================================================================
