---------------------------- MODULE UiReconciler ----------------------------
(***************************************************************************)
(* The children diff of app/lib/ui.js: mount, unmount, diffKids and        *)
(* reorder, over one container.  Components have no widget of their own:   *)
(* what they return is attached to the container of whoever contains them, *)
(* to any depth, which is why one diff inside another has to put the       *)
(* widgets of both in order.                                               *)
(*                                                                         *)
(* A diff calls the components it comes to, whose own diffs end before it  *)
(* goes on: stack has the diffs under way.  An instance is known by the    *)
(* order it was made in, and a widget by its instance.  What throws, a     *)
(* component or a call on a deleted widget, ends every diff where it       *)
(* stands: flush() reports it and the next render starts from what was     *)
(* left.                                                                   *)
(***************************************************************************)
EXTENDS UiOrder, FiniteSets

CONSTANTS
  HostTags,   \* tags of widgets
  CompTags,   \* component functions
  Keys, NoKey,
  Elements,   \* what the app renders, at any depth
  MaxKids,    \* bound: children of the container
  MaxRenders  \* bound: renders after the first

Root == 1
RootTag == "root"
Tags == HostTags \cup CompTags

\* An element: what h() returns, and what the component function in it will
\* return or throw.  What is inside a widget has a container of its own.
IsElement(e) ==
  /\ e.tag \in Tags /\ e.key \in Keys \cup {NoKey}
  /\ e.kids \in Seq(Elements) /\ e.throws \in BOOLEAN
  /\ e.tag \in HostTags => e.kids = << >> /\ ~e.throws

ASSUME ReconcilerAssumption ==
  /\ HostTags \cap CompTags = {} /\ RootTag \notin Tags /\ NoKey \notin Keys
  /\ MaxKids \in Nat /\ MaxRenders \in Nat
  /\ \A e \in Elements : IsElement(e)

VARIABLES
  inst,     \* the instances ever made
  gone,     \* those unmounted
  box,      \* the container's widgets, in LVGL's order
  stack,    \* the diffs under way, each called by the one before it
  doomed,   \* what unmount() has yet to come to
  threw,    \* what the last render has thrown
  renders,  \* how many there have been
  failed,   \* history: one of them has thrown
  keyed     \* history: children with components among them were matched by key

vars == <<inst, gone, box, stack, doomed, threw, renders, failed, keyed>>

-----------------------------------------------------------------------------
(* Instances.  "under" is whose child one was made as, and "asked" what the *)
(* children are instances of; ui.js has no need of either.                 *)

IsHost(i) == inst[i].tag \in HostTags

Made(tag, key, parent) ==
  [tag |-> tag, key |-> key, under |-> parent, kids |-> << >>, asked |-> << >>, mounted |-> FALSE]

\* A row of instances with the k-th of them, a component, replaced by its children.
Replaced(row, k, kids) ==
  LET p == PlaceOf(row, k) IN SubSeq(row, 1, p - 1) \o kids \o SubSeq(row, p + 1, Len(row))

\* collect(), from the root down whoever asks for it.  Whoever is in a row of
\* instances is replaced by its children, the eldest first: a child is younger
\* than what it is in, so at the end there are widgets only.
Unfolded(is) ==
  LET row[k \in 0..Len(is)] ==
        IF k = 0 THEN <<Root>>
        ELSE LET last == row[k - 1] IN
             IF is[k].tag \notin HostTags /\ Touchable(last, k) THEN Replaced(last, k, is[k].kids)
             ELSE last
  IN row
Collect(is) == Unfolded(is)[Len(is)]

\* Whoever comes up on the way from the root to the widgets.
InTree(is) == UNION {ToSet(Unfolded(is)[k]) : k \in 0..Len(is)}

-----------------------------------------------------------------------------
(* diffKids() and mountKids() of the diff on top of the stack.             *)

Frame(n, elems, mode) ==
  [owner |-> n, elems |-> elems, mode |-> mode,
   next |-> << >>, dropped |-> {}, structural |-> FALSE]

Top == stack[Len(stack)]
Old == inst[Top.owner].kids
Place == Len(Top.next) + 1
Wanted == Top.elems[Place]
Reused == ToSet(Top.next)
Diffing == stack # << >> /\ doomed = << >>
Matching == Diffing /\ Place <= Len(Top.elems)
Matched == Diffing /\ Place > Len(Top.elems)

Compatible(x, e) == x.key = e.key /\ x.tag = e.tag

\* Mutant of Candidates: the instance in the same place.
CandidatesInPlace == {Old[p] : p \in DOMAIN Old \cap {Place}}

\* The instance a diff looks at for the next element: by position the one in its
\* place; by key the last with its tag and key, or for an element without a key,
\* the next instance without.  Past the last of those, old[unkeyedAt] is undefined.
Candidates ==
  LET Unkeyed(p) == inst[Old[p]].key = NoKey
      nth == Cardinality({q \in 1..Place : Top.elems[q].key = NoKey})
      Same(p) == Compatible(inst[Old[p]], Wanted)
      Position(p) ==
        IF Top.mode # "key" THEN p = Place
        ELSE IF Wanted.key = NoKey
        THEN Unkeyed(p) /\ Cardinality({q \in 1..p : Unkeyed(q)}) = nth
        ELSE Same(p) /\ \A q \in DOMAIN Old : q > p => ~Same(q)
  IN {Old[p] : p \in {p \in DOMAIN Old : Position(p)}}
Taken == {i \in Candidates \ Reused : Compatible(inst[i], Wanted)}

\* The diff goes on with the next element once it has an instance.
Took(i, new) ==
  [stack EXCEPT ![Len(stack)].next = Append(@, i), ![Len(stack)].structural = @ \/ new]

Throws(what) == stack' = << >> /\ doomed' = << >> /\ threw' = what /\ failed' = TRUE

\* How the children of an instance are matched: not at all the first time.
Mode(i, elems) ==
  IF ~i.mounted THEN "mount"
  ELSE IF \/ \E p \in DOMAIN i.kids : inst[i.kids[p]].key # NoKey
          \/ \E p \in DOMAIN elems : elems[p].key # NoKey
  THEN "key" ELSE "position"
Careful(mode, elems) == mode = "position" => \A p \in DOMAIN elems : elems[p].tag \in HostTags

\* Children of instance n, one of "is", are to become these.
Calls(frames, is, n, elems) ==
  LET mode == Mode(is[n], elems) IN
  /\ stack' = Append(frames, Frame(n, elems, mode))
  /\ keyed' = (keyed /\ Careful(mode, elems))

\* patch() of a widget changes nothing that is modelled.
PatchHost ==
  /\ Matching /\ Wanted.tag \in HostTags
  /\ \E i \in Taken : stack' = Took(i, FALSE)
  /\ UNCHANGED <<inst, gone, box, doomed, threw, renders, failed, keyed>>

\* patch() and renderComponent(); one that throws has returned nothing to diff.
PatchComponent ==
  /\ Matching /\ Wanted.tag \in CompTags /\ ~Wanted.throws
  /\ \E i \in Taken : Calls(Took(i, FALSE), inst, i, Wanted.kids)
  /\ UNCHANGED <<inst, gone, box, doomed, threw, renders, failed>>
PatchThrows ==
  /\ Matching /\ Wanted.throws /\ Taken # {}
  /\ Throws("component")
  /\ UNCHANGED <<inst, gone, box, renders, keyed>>

\* By position, what is in the place of the next element and cannot become it is
\* unmounted before its successor is made.
InTheWay ==
  {p \in DOMAIN Old \ Top.dropped :
     Matching /\ p = Place /\ Top.mode = "position" /\ ~Compatible(inst[Old[p]], Wanted)}

\* mount()
Mount(made) ==
  /\ Matching /\ InTheWay = {} /\ Taken = {}
  /\ inst' = Append(inst, made)
Making == Made(Wanted.tag, Wanted.key, Top.owner)
Newest == Len(inst) + 1

MountHost ==
  /\ Matching /\ Wanted.tag \in HostTags /\ Mount(Making)
  /\ box' = Append(box, Newest)
  /\ stack' = Took(Newest, TRUE)
  /\ UNCHANGED <<gone, doomed, threw, renders, failed, keyed>>

\* Mutant of MountComponent: it is attached to the container itself.
MountComponentAttached ==
  /\ Matching /\ Wanted.tag \in CompTags /\ ~Wanted.throws
  /\ Mount([Making EXCEPT !.mounted = TRUE])
  /\ stack' = Append(Took(Newest, TRUE), Frame(Newest, Wanted.kids, "mount"))
  /\ box' = Append(box, Newest)
  /\ UNCHANGED <<gone, doomed, threw, renders, failed, keyed>>

\* mount() of a component, and its first render.
MountComponent ==
  /\ Matching /\ Wanted.tag \in CompTags /\ ~Wanted.throws
  /\ Mount([Making EXCEPT !.mounted = TRUE])
  /\ stack' = Append(Took(Newest, TRUE), Frame(Newest, Wanted.kids, "mount"))
  /\ UNCHANGED <<gone, box, doomed, threw, renders, failed, keyed>>
MountThrows ==
  /\ Matching /\ Wanted.throws /\ Mount(Making)
  /\ Throws("component")
  /\ UNCHANGED <<gone, box, renders, keyed>>

\* Mutant of Leftovers: what no element can take, from the beginning.
LeftoversEarly ==
  {p \in DOMAIN Old \ Top.dropped :
     Diffing /\ Old[p] \notin Reused
     /\ \A q \in DOMAIN Top.elems : ~Compatible(inst[Old[p]], Top.elems[q])}

\* What no element took is unmounted last.
Leftovers == {p \in DOMAIN Old \ Top.dropped : Matched /\ Old[p] \notin Reused}

\* One after the other, in their order.
Drop ==
  /\ Diffing
  /\ LET leaving == InTheWay \cup Leftovers IN
     \E p \in leaving :
       /\ \A q \in leaving : p <= q
       /\ doomed' = <<Old[p]>>
       /\ stack' = [stack EXCEPT ![Len(stack)].dropped = @ \cup {p},
                                 ![Len(stack)].structural = TRUE]
  /\ UNCHANGED <<inst, gone, box, threw, renders, failed, keyed>>

\* Mutant of UnmountComponent: what is below stays.
UnmountComponentAlone ==
  /\ doomed # << >> /\ ~IsHost(Head(doomed))
  /\ gone' = gone \cup {Head(doomed)}
  /\ doomed' = Tail(doomed)
  /\ UNCHANGED <<inst, box, stack, threw, renders, failed, keyed>>

\* unmount()
UnmountComponent ==
  /\ doomed # << >> /\ ~IsHost(Head(doomed))
  /\ gone' = gone \cup {Head(doomed)}
  /\ doomed' = inst[Head(doomed)].kids \o Tail(doomed)
  /\ UNCHANGED <<inst, box, stack, threw, renders, failed, keyed>>
UnmountHost ==
  /\ doomed # << >> /\ IsHost(Head(doomed))
  /\ gone' = gone \cup {Head(doomed)}
  /\ IF Touchable(box, Head(doomed))
     THEN /\ box' = Without(box, Head(doomed)) /\ doomed' = Tail(doomed)
          /\ UNCHANGED <<stack, threw, failed>>
     ELSE /\ Throws("deleted")
          /\ UNCHANGED box
  /\ UNCHANGED <<inst, renders, keyed>>

\* Mutant of Reorders: a move alone is no change.
ReordersUnmoved == IF Top.mode = "mount" THEN Top.owner = Root ELSE Top.structural

\* Whether the widgets are put in order at the end: always in render(), and not
\* when a component is mounted.
Reorders ==
  IF Top.mode = "mount" THEN Top.owner = Root
  ELSE Top.structural \/ (Top.mode = "key" /\ Top.next # Old)

\* The owner gets its new children, the container its order.
End ==
  /\ Matched /\ Leftovers = {}
  /\ inst' = [inst EXCEPT ![Top.owner].kids = Top.next, ![Top.owner].asked = Top.elems,
                          ![Top.owner].mounted = TRUE]
  /\ LET widgets == Collect(inst') IN
     IF ~Reorders
     THEN stack' = Front(stack) /\ UNCHANGED <<box, doomed, threw, failed>>
     ELSE /\ box' = Ordered(box, widgets)
          /\ IF Asked(box, widgets) = DOMAIN widgets
             THEN stack' = Front(stack) /\ UNCHANGED <<doomed, threw, failed>>
             ELSE Throws("deleted")
  /\ UNCHANGED <<gone, renders, keyed>>

-----------------------------------------------------------------------------
\* render(): the root empty, its children to be mounted.
Init ==
  /\ inst = <<Made(RootTag, NoKey, 0)>> /\ gone = {} /\ box = << >>
  /\ \E elems \in BoundedSeq(Elements, MaxKids) : stack = <<Frame(Root, elems, "mount")>>
  /\ doomed = << >> /\ threw = "nothing"
  /\ renders = 0 /\ failed = FALSE /\ keyed = TRUE

Idle == stack = << >>

Render(is, n, elems) ==
  /\ Idle /\ renders < MaxRenders
  /\ renders' = renders + 1 /\ threw' = "nothing"
  /\ Calls(<< >>, is, n, elems)
  /\ UNCHANGED <<gone, box, doomed, failed>>

\* What contains the root's children renders again: update(), if render() returned.
RenderAll ==
  /\ inst[Root].mounted
  /\ \E elems \in BoundedSeq(Elements, MaxKids) : Render(inst, Root, elems)
  /\ UNCHANGED inst

\* A component renders again by itself, even one that a failed render has left.
\* One that throws when it does changes nothing.
RenderOne ==
  /\ \E i \in DOMAIN inst \ gone, e \in Elements :
       /\ inst[i].tag \in CompTags /\ e.tag = inst[i].tag /\ ~e.throws
       /\ Render(inst, i, e.kids)
       /\ inst' = [inst EXCEPT ![i].mounted = TRUE]

Next ==
  \/ RenderAll \/ RenderOne
  \/ PatchHost \/ PatchComponent \/ PatchThrows
  \/ MountHost \/ MountComponent \/ MountThrows
  \/ Drop \/ UnmountComponent \/ UnmountHost \/ End

Spec == Init /\ [][Next]_vars

-----------------------------------------------------------------------------
Instance == [tag: Tags \cup {RootTag}, key: Keys \cup {NoKey}, under: Nat,
             kids: Seq(Nat), asked: Seq(Elements), mounted: BOOLEAN]
FrameType == [owner: Nat, elems: Seq(Elements), mode: {"mount", "position", "key"},
              next: Seq(Nat), dropped: SUBSET Nat, structural: BOOLEAN]

TypeOK ==
  /\ inst \in Seq(Instance) /\ gone \subseteq DOMAIN inst
  /\ box \in Seq(DOMAIN inst) /\ \A p \in DOMAIN box : IsHost(box[p])
  /\ stack \in Seq(FrameType) /\ doomed \in Seq(DOMAIN inst)
  /\ threw \in {"nothing", "component", "deleted"}
  /\ renders \in 0..MaxRenders /\ failed \in BOOLEAN /\ keyed \in BOOLEAN

-----------------------------------------------------------------------------
(* Properties.                                                             *)

\* Nothing has thrown while children were matched by position that it could
\* leave half replaced.
Sound == keyed \/ ~failed

\* Whatever was inserted, removed, replaced or moved, in the container or in
\* the components in it, at any depth, its widgets are the declared ones in
\* declared order (docs/ui-runtime.md, "How the reconciler works"): a walk of
\* the tree gives them, and every child is of the tag and key that was asked
\* for in its place.  Where children have keys this is so after a component has
\* thrown as well, with what the failed render left behind after them.
OrderIsDeclared ==
  Idle /\ Sound =>
    /\ IsPrefix(Collect(inst), box) /\ (~failed => box = Collect(inst))
    /\ \A n \in InTree(inst) :
         /\ DOMAIN inst[n].kids = DOMAIN inst[n].asked
         /\ \A p \in DOMAIN inst[n].kids : Compatible(inst[inst[n].kids[p]], inst[n].asked[p])

\* Every instance is in the tree or unmounted, never both: no widget and no
\* component is left behind, and none is used after its end.
AllAccountedFor == Idle /\ ~failed => InTree(inst) = DOMAIN inst \ gone

\* A child whose tag and key are there before and after takes its widget, or
\* its state, with it, wherever it moves to and whatever fails on the way:
\* nothing of it is made anew.
Named(is, n, tag, key) ==
  {p \in DOMAIN is[n].kids : is[is[n].kids[p]].tag = tag /\ is[is[n].kids[p]].key = key}
KeyKeepsInstance ==
  [][\A n \in DOMAIN inst : inst'[n].kids # inst[n].kids =>
       \A p \in DOMAIN inst[n].kids, q \in DOMAIN inst'[n].kids, tag \in Tags, key \in Keys :
         Named(inst, n, tag, key) = {p} /\ Named(inst', n, tag, key) = {q}
           => inst'[n].kids[q] = inst[n].kids[p]]_vars

\* Where children are matched by key, a component that throws half way through
\* costs the rest of them nothing: what leaves is unmounted last, so no child
\* in the tree is a deleted one, then or in any later render
\* (docs/ui-runtime.md:108).
KeyedRecovers == keyed => threw # "deleted" /\ (Idle => InTree(inst) \cap gone = {})

\* A render of components that do not throw does not throw: no deleted widget
\* is asked for its place ("It assumes every child of box came from this tree",
\* ui.js:601-602; "a component that throws is reported ... and the rest of the
\* tree keeps running", docs/ui-runtime.md:108).
NoDeletedWidgetTouched == threw # "deleted"
=============================================================================
