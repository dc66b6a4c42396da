------------------------------ MODULE UiElement ------------------------------
(***************************************************************************)
(* What one render does to the widgets of elements that stay, in ui.js:    *)
(* the props it sends to .set(), the text, the event handlers and the      *)
(* refs, for the elements of one container; and what .set() makes of the   *)
(* props in bindings_lv.cpp.  Which instance an element gets is decided by *)
(* diffKids(), here one step at a time, and the order of the widgets by    *)
(* reorder() at its end.  Components, and what throws, are the matter of   *)
(* UiReconciler.                                                           *)
(*                                                                         *)
(* Elements are buttons, whose text is set on a label of their own, and    *)
(* plain containers, where a string is mounted as a label.  Inside either  *)
(* there is a string, one label, or nothing.                               *)
(***************************************************************************)
EXTENDS UiOrder, Integers, FiniteSets

CONSTANTS
  Elements,          \* what the app renders
  MaxPlaces,         \* bound: elements in the container
  Keys, NoKey,
  Strings, NoText,   \* what a label shows
  Handlers, NoHandler,
  Refs, NoRef,
  Colours,
  Undefined          \* the value of a prop that is given as undefined

Tags == {"button", "obj"}
Places == {"align", "x", "y"}
PropNames == Places \cup {"bg", "hidden", "scroll"}
ValueOf(k) == CASE k = "align" -> {"top-left", "center"}
                [] k \in {"x", "y"} -> Int
                [] k = "bg" -> Colours
                [] k \in {"hidden", "scroll"} -> BOOLEAN

\* RESET, without text, which has rules of its own.
Reset == [hidden |-> FALSE, scroll |-> TRUE]

\* An element: what h() returns.
IsElement(e) ==
  /\ e.tag \in Tags /\ e.key \in Keys \cup {NoKey}
  /\ DOMAIN e.props \subseteq PropNames
  /\ \A k \in DOMAIN e.props : e.props[k] \in ValueOf(k) \cup {Undefined}
  /\ e.string \in Strings \cup {NoText} /\ e.label \in Strings \cup {NoText}
  /\ NoText \in {e.string, e.label}
  /\ e.on \in Handlers \cup {NoHandler} /\ e.ref \in Refs \cup {NoRef}

ASSUME ElementAssumption ==
  /\ MaxPlaces \in Nat
  /\ NoText \notin Strings /\ NoHandler \notin Handlers
  /\ NoRef \notin Refs /\ NoKey \notin Keys
  /\ Undefined \notin BOOLEAN
  /\ \A e \in Elements : IsElement(e)

\* Instances, and their widgets, are numbered; a number is free again when the
\* render after the one that unmounted it begins.
Ids == 1..(2 * MaxPlaces)
NoWidget == 0
Deleted == -1

VARIABLES
  tree,     \* the elements last asked for
  kids,     \* their instances
  inst,     \* what is known of each instance, and its widget
  box,      \* the container's widgets, in LVGL's order
  refs,     \* the widget each ref holds
  at,       \* where diffKids() is
  next,     \* the instances of the elements it has been through
  structural, \* a widget was made or deleted in this render
  shared    \* history: a ref was given to an element while another had it

vars == <<tree, kids, inst, box, refs, at, next, structural, shared>>

-----------------------------------------------------------------------------
(* The widget: .set() in bindings_lv.cpp.                                  *)

Given(props, k) == k \in DOMAIN props /\ props[k] # Undefined

\* apply_props(): undefined is "not given"; align, x and y are applied
\* together; scroll only takes the flag away.
Apply(look, props) ==
  [k \in PropNames |->
     IF k = "scroll" THEN look[k] /\ ~(Given(props, k) /\ ~props[k])
     ELSE IF Given(props, k) THEN props[k]
     ELSE IF k \in {"x", "y"} /\ \E p \in Places : Given(props, p) THEN 0
     ELSE look[k]]

\* widget_set_text() of a button: its first label, or a new one of its own.
SetText(labels, text) ==
  IF labels = << >> THEN <<[own |-> TRUE, text |-> text]>>
  ELSE [labels EXCEPT ![1].text = text]

\* What lv_button_create() and lv_obj_create() make.
NewLook == [align |-> "top-left", x |-> 0, y |-> 0, bg |-> Undefined,
            hidden |-> FALSE, scroll |-> TRUE]

-----------------------------------------------------------------------------
(* One element: mountHost(), patch(), unmount().                           *)

\* textOf()
TextOf(e) == IF e.tag = "button" THEN e.string ELSE NoText

NoBelow == [auto |-> FALSE, text |-> NoText]

\* What is mounted inside: a label element, or the one made for a string.
Below(e) ==
  IF TextOf(e) # NoText THEN NoBelow
  ELSE IF e.string # NoText THEN [auto |-> TRUE, text |-> e.string]
  ELSE [auto |-> FALSE, text |-> e.label]

Label(below) == IF below = NoBelow THEN << >> ELSE <<[own |-> FALSE, text |-> below.text]>>

NoInst == [alive |-> FALSE]

\* bindEvents(): at most one trampoline, whose handler is looked up when it is
\* called.
Bind(i, e) ==
  IF e.on = NoHandler THEN i
  ELSE [i EXCEPT !.on = e.on, !.bound = TRUE,
                 !.trampolines = IF i.bound THEN @ ELSE @ + 1]

\* mountHost(), but for the ref.
Mounted(e) ==
  Bind([alive |-> TRUE, vnode |-> e, below |-> Below(e),
        look |-> Apply(NewLook, e.props),
        labels |-> IF TextOf(e) # NoText THEN SetText(<< >>, TextOf(e)) ELSE Label(Below(e)),
        on |-> NoHandler, bound |-> FALSE, trampolines |-> 0], e)

Prop(e, k) == IF k \in DOMAIN e.props THEN e.props[k] ELSE Undefined

\* diffProps(): what is sent to .set().
DiffProps(old, new) ==
  LET changed == {k \in DOMAIN new.props : Prop(new, k) # Prop(old, k)}
      gone == (DOMAIN old.props \ DOMAIN new.props) \cap DOMAIN Reset
  IN [k \in changed \cup gone |-> IF k \in gone THEN Reset[k] ELSE new.props[k]]

DiffText(labels, old, new) ==
  IF TextOf(new) = TextOf(old) THEN labels
  ELSE SetText(labels, IF TextOf(new) = NoText THEN "" ELSE TextOf(new))

\* Mutant of UpdateEvents: a handler that is gone stays.
UpdateEventsOnlyNew(i, e) == Bind(i, e)

UpdateEvents(i, e) == Bind([i EXCEPT !.on = e.on], e)

\* The button's own label, if it has one, is its last: it is made where there is
\* none, and reorder() puts what is mounted before it.
Own(labels) == IF labels # << >> /\ Last(labels).own THEN <<Last(labels)>> ELSE << >>

\* diffKids() of the one thing inside.
DiffBelow(labels, old, new) ==
  IF new = old THEN labels
  ELSE IF new # NoBelow /\ old # NoBelow /\ new.auto = old.auto
  THEN [p \in DOMAIN labels |->
          IF labels[p].own THEN labels[p] ELSE [labels[p] EXCEPT !.text = new.text]]
  ELSE Label(new) \o Own(labels)

\* patch(), but for the ref: with a text of its own, what is inside is left
\* alone.
Patched(i, e) ==
  LET set == [i EXCEPT !.vnode = e,
                       !.look = Apply(@, DiffProps(i.vnode, e)),
                       !.labels = DiffText(@, i.vnode, e)]
      bound == UpdateEvents(set, e)
  IN IF TextOf(e) # NoText THEN bound
     ELSE [bound EXCEPT !.labels = DiffBelow(@, i.below, Below(e)), !.below = Below(e)]

-----------------------------------------------------------------------------
(* refs                                                                    *)

\* setRef()
Hold(held, ref, id) == IF ref = NoRef THEN held ELSE [held EXCEPT ![ref] = id]

\* Whether an element gets a ref that another one still has.
Shares(id, ref) ==
  ref # NoRef /\ \E o \in Ids : o # id /\ inst[o].alive /\ inst[o].vnode.ref = ref

\* Mutant of Unmount: the ref goes on holding the widget.
UnmountHeld(id) ==
  /\ inst' = [inst EXCEPT ![id] = NoInst]
  /\ refs' = [r \in Refs |-> IF refs[r] = id THEN Deleted ELSE refs[r]]
  /\ box' = Without(box, id) /\ structural' = TRUE
  /\ UNCHANGED shared

\* unmount(): whoever else holds the widget holds a deleted one.
Unmount(id) ==
  /\ inst' = [inst EXCEPT ![id] = NoInst]
  /\ LET held == Hold(refs, inst[id].vnode.ref, NoWidget)
     IN refs' = [r \in Refs |-> IF held[r] = id THEN Deleted ELSE held[r]]
  /\ box' = Without(box, id) /\ structural' = TRUE
  /\ UNCHANGED shared

-----------------------------------------------------------------------------
(* diffKids() of the container, one element after the other.               *)

Init ==
  /\ tree = << >> /\ kids = << >> /\ next = << >> /\ box = << >>
  /\ inst = [id \in Ids |-> NoInst]
  /\ refs = [r \in Refs |-> NoWidget]
  /\ at = "idle" /\ structural = FALSE
  /\ shared = FALSE

KeyOf(id) == inst[id].vnode.key

\* What the container is in renders again.
RenderBegins ==
  /\ at = "idle"
  /\ \E elems \in BoundedSeq(Elements, MaxPlaces) :
       /\ tree' = elems
       /\ at' = IF \/ \E p \in DOMAIN kids : KeyOf(kids[p]) # NoKey
                   \/ \E p \in DOMAIN elems : elems[p].key # NoKey
                THEN "byKey" ELSE "byPosition"
  /\ UNCHANGED <<kids, inst, box, refs, next, structural, shared>>

Compatible(id, e) == inst[id].alive /\ inst[id].vnode.tag = e.tag /\ KeyOf(id) = e.key

\* The instances the next element may take: by position the one in its place,
\* by key the last of its tag and key; without a key the next that has none.
Candidates ==
  LET n == Len(next) + 1
      Unkeyed(p) == KeyOf(kids[p]) = NoKey
      nth == Cardinality({q \in 1..n : tree[q].key = NoKey})
      Same(p) == Compatible(kids[p], tree[n])
      Position(p) ==
        IF at = "byPosition" THEN p = n
        ELSE IF tree[n].key = NoKey
        THEN Unkeyed(p) /\ Cardinality({q \in 1..p : Unkeyed(q)}) = nth
        ELSE Same(p) /\ \A q \in DOMAIN kids : q > p => ~Same(q)
  IN {kids[p] : p \in {p \in DOMAIN kids : Position(p)}}

Olds == {kids[p] : p \in DOMAIN kids}
Reused == {next[p] : p \in DOMAIN next}
Free(id) == id \notin Olds \cup Reused
Wanted == tree[Len(next) + 1]
Matching == at \in {"byKey", "byPosition"} /\ Len(next) < Len(tree)
Taken == {id \in Candidates \ Reused : Compatible(id, Wanted)}

\* patch()
Patch ==
  /\ Matching
  /\ \E id \in Taken :
       /\ inst' = [inst EXCEPT ![id] = Patched(inst[id], Wanted)]
       /\ LET old == inst[id].vnode.ref
              new == Wanted.ref
          IN IF old = new THEN UNCHANGED <<refs, shared>>
             ELSE /\ refs' = Hold(Hold(refs, old, NoWidget), new, id)
                  /\ shared' = (shared \/ Shares(id, new))
       /\ next' = Append(next, id)
  /\ UNCHANGED <<tree, kids, at, box, structural>>

\* By position, what is not compatible is unmounted before its place is taken.
Replace ==
  /\ Matching /\ at = "byPosition" /\ Taken = {}
  /\ \E id \in Candidates : inst[id].alive /\ Unmount(id)
  /\ UNCHANGED <<tree, kids, at, next>>

\* mount()
Mount ==
  /\ Matching /\ Taken = {}
  /\ at = "byPosition" => \A id \in Candidates : ~inst[id].alive
  /\ \E id \in Ids :
       /\ Free(id) /\ \A o \in 1..(id - 1) : ~Free(o)
       /\ inst' = [inst EXCEPT ![id] = Mounted(Wanted)]
       /\ refs' = Hold(refs, Wanted.ref, id)
       /\ shared' = (shared \/ Shares(id, Wanted.ref))
       /\ next' = Append(next, id) /\ box' = Append(box, id)
  /\ structural' = TRUE
  /\ UNCHANGED <<tree, kids, at>>

\* Mutant of Leftovers: those that were taken as well.
LeftoversAll == {id \in Olds : inst[id].alive}

Leftovers == {id \in Olds \ Reused : inst[id].alive}

\* Whatever no element took is unmounted last.
Sweep ==
  /\ at # "idle" /\ ~Matching
  /\ \E id \in Leftovers : Unmount(id)
  /\ UNCHANGED <<tree, kids, at, next>>

\* By key a move alone is a change of structure too.
RenderEnds ==
  /\ at # "idle" /\ ~Matching /\ Leftovers = {}
  /\ kids' = next /\ next' = << >>
  /\ box' = IF structural \/ (at = "byKey" /\ next # kids) THEN Ordered(box, next) ELSE box
  /\ at' = "idle" /\ structural' = FALSE
  /\ UNCHANGED <<tree, inst, refs, shared>>

Next == RenderBegins \/ Patch \/ Replace \/ Mount \/ Sweep \/ RenderEnds

Spec == Init /\ [][Next]_vars

-----------------------------------------------------------------------------
Instance(i) ==
  \/ i = NoInst
  \/ /\ DOMAIN i = {"alive", "vnode", "below", "look", "labels", "on", "bound", "trampolines"}
     /\ i.alive /\ i.vnode \in Elements
     /\ DOMAIN i.look = PropNames
     /\ \A k \in PropNames \ {"bg"} : i.look[k] \in ValueOf(k)
     /\ i.labels \in Seq([own : BOOLEAN, text : Strings \cup {NoText, ""}])
     /\ i.on \in Handlers \cup {NoHandler} /\ i.bound \in BOOLEAN /\ i.trampolines \in Nat

TypeOK ==
  /\ tree \in BoundedSeq(Elements, MaxPlaces)
  /\ kids \in BoundedSeq(Ids, MaxPlaces) /\ next \in BoundedSeq(Ids, MaxPlaces)
  /\ \A id \in Ids : Instance(inst[id])
  /\ refs \in [Refs -> Ids \cup {NoWidget, Deleted}]
  /\ box \in Seq(Ids)
  /\ at \in {"idle", "byKey", "byPosition"} /\ structural \in BOOLEAN /\ shared \in BOOLEAN
  /\ at = "idle" => Len(kids) = Len(tree) /\ \A p \in DOMAIN kids : inst[kids[p]].alive

\* Elements that can follow one another on one widget.
Alike(e, f) == e.tag = f.tag /\ e.key = f.key

Unscrolled(e) == Given(e.props, "scroll") /\ ~e.props["scroll"]

\* What ui.js can bring up to date and what it cannot: between elements that
\* follow one another the place is a matter of which element it is, as are
\* whether it scrolls and whether it has a text or something inside, and hidden
\* is never given as undefined.
Steady ==
  \A e, f \in Elements : Alike(e, f) =>
    /\ \A k \in Places : Prop(e, k) = Prop(f, k)
    /\ Unscrolled(e) <=> Unscrolled(f)
    /\ TextOf(e) = NoText \/ Below(f) = NoBelow
    /\ "hidden" \in DOMAIN e.props => Given(e.props, "hidden")

\* The look of an instance is that of its element: but for a colour that is no
\* longer given, it is what mountHost() would make.
LookKept(i) ==
  /\ \A k \in PropNames \ {"bg"} : i.look[k] = Apply(NewLook, i.vnode.props)[k]
  /\ Given(i.vnode.props, "bg") => i.look["bg"] = i.vnode.props["bg"]

\* So are its labels, but for an own one that is empty, where another element of
\* its kind has a text.
LabelsKept(i) ==
  /\ i.below = Below(i.vnode)
  /\ TextOf(i.vnode) # NoText => i.labels = SetText(<< >>, TextOf(i.vnode))
  /\ TextOf(i.vnode) = NoText =>
       \/ i.labels = Label(Below(i.vnode))
       \/ /\ Below(i.vnode) = NoBelow /\ i.labels = SetText(<< >>, "")
          /\ \E f \in Elements : Alike(i.vnode, f) /\ TextOf(f) # NoText

\* Its handler is the element's, and there is one trampoline once it had any.
EventsKept(i) ==
  /\ i.on = i.vnode.on /\ (i.on # NoHandler => i.bound)
  /\ i.trampolines = IF i.bound THEN 1 ELSE 0

\* The elements gone through have instances of their own, and no two elements
\* the same; by position, an instance that was there is in its old place.
MatchInv ==
  /\ at # "idle" => /\ Len(next) <= Len(tree)
                    /\ \A p \in DOMAIN next : /\ inst[next[p]].alive
                                              /\ inst[next[p]].vnode = tree[p]
  /\ at = "byPosition" => \A p \in DOMAIN next :
       next[p] \in Olds => p \in DOMAIN kids /\ next[p] = kids[p]
  /\ at = "idle" => /\ Len(kids) = Len(tree)
                    /\ \A p \in DOMAIN kids : /\ inst[kids[p]].alive
                                              /\ inst[kids[p]].vnode = tree[p]
  /\ IsInjective(kids) /\ IsInjective(next)

\* The container holds the widgets of the instances that are alive, and as long
\* as none was made or deleted, in the order of the last render.
BoxInv ==
  /\ IsInjective(box)
  /\ \A id \in Ids : inst[id].alive <=> Touchable(box, id)
  /\ at = "idle" => ~structural
  /\ ~structural => box = kids /\ Reused \subseteq Olds

\* Every widget is as its element would have it, at every step of a render.
KeptInv ==
  /\ MatchInv
  /\ \A id \in Ids : inst[id].alive =>
       LookKept(inst[id]) /\ LabelsKept(inst[id]) /\ EventsKept(inst[id])

-----------------------------------------------------------------------------
(* Properties.                                                             *)

\* What a person sees of the element and what an event on it calls.  A prop
\* that is gone and has no neutral value keeps its last one
\* (docs/ui-runtime.md:136) and is not looked at.
Appears(i, e) ==
  [props  |-> [k \in DOMAIN Reset \cup {k \in PropNames : Given(e.props, k)} |-> i.look[k]],
   shows  |-> [p \in {p \in DOMAIN i.labels : i.labels[p].text # ""} |-> i.labels[p]],
   fires  |-> [p \in 1..(IF i.on = NoHandler THEN 0 ELSE i.trampolines) |-> i.on]]

\* A render leaves every widget as a rebuild would, and in the place of its
\* element, whatever came before: "the difference between a re-render and a
\* rebuild" (ui.js:428) is one of cost alone.  Props come and go, texts change,
\* handlers are swapped, taken away and given back, elements are put in before
\* others and move, and instances change hands, over any number of renders.
AsGoodAsNew ==
  at = "idle" =>
    /\ DOMAIN box = DOMAIN tree
    /\ \A p \in DOMAIN tree : Appears(inst[box[p]], tree[p]) = Appears(Mounted(tree[p]), tree[p])

\* A ref never holds a deleted widget, at no step of a render, and unless it was
\* ever given to one element while another had it, it holds the widget of the
\* element that names it (docs/ui-runtime.md:83, tools/test-ui.mjs:477).
RefsAreCurrent ==
  /\ \A r \in Refs : refs[r] # Deleted
  /\ ~shared => \A id \in Ids :
       inst[id].alive /\ inst[id].vnode.ref # NoRef => refs[inst[id].vnode.ref] = id

\* "align, x and y: x and y become offsets from it", "offsets with align,
\* absolute position without" (docs/binding-api.md:47-48), and "every prop in
\* binding-api.md's props table works exactly as it does there"
\* (docs/ui-runtime.md:58): an element is where its align, x and y say.
PlacedAsGiven ==
  at = "idle" =>
    \A p \in DOMAIN tree, k \in Places :
      Given(tree[p].props, k) => inst[kids[p]].look[k] = tree[p].props[k]
=============================================================================
