----------------------------- MODULE MCUiElement -----------------------------
(***************************************************************************)
(* Elements for TLC: props that come and go, texts, labels and handlers    *)
(* that change, two keyed rows, and a ref that may be on any of them.      *)
(***************************************************************************)
EXTENDS UiElement

MCElement(tag, key, props, string, label, on, ref) ==
  [tag |-> tag, key |-> key, props |-> props, string |-> string, label |-> label,
   on |-> on, ref |-> ref]

MCStrings == {"Show", "Hide"}
MCKeys == {"k1", "k2"}
MCHandlers == {"show", "hide"}
MCRefs == {"field"}
MCColours == {"red", "blue"}

MCShown == [x |-> 5, y |-> 10, bg |-> "red"]
MCHidden == [x |-> 5, y |-> 10, bg |-> "blue", hidden |-> TRUE]
MCUnscrolled == [align |-> "center", y |-> 10, scroll |-> FALSE]

\* Elements whose place is a matter of what they are, as are whether they
\* scroll and whether a button contains a string or a label.
MCStill ==
  {MCElement("button", "none", MCShown, "Show", "none", "show", "none"),
   MCElement("button", "none", MCHidden, "Hide", "none", "hide", "field"),
   MCElement("obj", "none", MCUnscrolled, "none", "Show", "none", "field"),
   MCElement("obj", "none", MCUnscrolled, "none", "Hide", "hide", "none"),
   MCElement("obj", "none", MCUnscrolled, "Hide", "none", "none", "none"),
   MCElement("button", "k1", MCShown, "Show", "none", "none", "field"),
   MCElement("button", "k1", MCHidden, "none", "none", "hide", "none"),
   MCElement("button", "k2", MCShown, "Hide", "none", "show", "field")}

\* A button that follows a finger down the screen.
MCMoving ==
  {MCElement("button", "none", [x |-> 5, y |-> 10], "Show", "none", "none", "none"),
   MCElement("button", "none", [x |-> 5, y |-> 20], "Show", "none", "none", "none")}

\* Elements that do not keep to the above: a string in place of a label, and
\* props that switch scrolling, or are given as undefined.
MCMixed ==
  {MCElement("button", "none", << >>, "Show", "none", "none", "none"),
   MCElement("button", "none", << >>, "none", "Hide", "none", "none")}
MCScrolling ==
  {MCElement("obj", "none", [scroll |-> s], "none", "none", "none", "none") : s \in BOOLEAN}
MCUndefined ==
  {MCElement("obj", "none", [hidden |-> h], "none", "none", "none", "none") : h \in {TRUE, Undefined}}

\* Which of these are elements that AsGoodAsNew is proved for.
ASSUME SteadyAssumption ==
  /\ Elements = MCStill => Steady
  /\ Elements \in {MCMoving, MCMixed, MCScrolling, MCUndefined} => ~Steady
==============================================================================
