------------------------------- MODULE UiOrder -------------------------------
(***************************************************************************)
(* How ui.js puts the widgets of a container in order: .index() of one of  *)
(* them, .delete(), and reorder(), which asks each in turn for the place   *)
(* that the tree gives it.  A container is the sequence of its widgets in  *)
(* LVGL's order.                                                           *)
(***************************************************************************)
EXTENDS Naturals, Sequences, SequencesExt

\* A handle to a deleted widget throws: what .delete() and .index() start with.
Touchable(box, w) == \E p \in DOMAIN box : box[p] = w
PlaceOf(box, w) == CHOOSE p \in DOMAIN box : box[p] = w

\* .delete()
Without(box, w) == RemoveAt(box, PlaceOf(box, w))

\* .index(i): what lies between closes up behind the widget.  LVGL takes no
\* notice of a place that is not there.
MoveTo(box, w, i) ==
  LET p == PlaceOf(box, w) IN
  IF i \notin DOMAIN box THEN box
  ELSE [q \in DOMAIN box |-> IF q = i THEN w
                             ELSE IF i < q /\ q <= p THEN box[q - 1]
                             ELSE IF p <= q /\ q < i THEN box[q + 1]
                             ELSE box[q]]

\* The widgets reorder() gets to: those up to the first that throws.  Moving
\* deletes none, so which they are is known from the start.
Asked(box, widgets) == {n \in DOMAIN widgets : \A m \in 1..n : Touchable(box, widgets[m])}

\* reorder(): the n-th widget is moved to place n, if it is not there.
Ordered(box, widgets) ==
  LET placed[n \in 0..Len(widgets)] ==
        IF n = 0 THEN box
        ELSE IF n \in Asked(box, widgets) THEN MoveTo(placed[n - 1], widgets[n], n)
        ELSE placed[n - 1]
  IN placed[Len(widgets)]
=============================================================================
