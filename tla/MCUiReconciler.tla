--------------------------- MODULE MCUiReconciler ---------------------------
(***************************************************************************)
(* Elements for TLC, and the walk of the tree compared with the recursive  *)
(* function that ui.js makes it with.                                      *)
(***************************************************************************)
EXTENDS UiReconciler

CONSTANTS Label, Rows, Screen, Key

MCEl(tag, keys, kids, throws) == [tag: {tag}, key: keys, kids: kids, throws: {throws}]
MCLabel == [tag |-> Label, key |-> NoKey, kids |-> << >>, throws |-> FALSE]

\* Widgets, and components with a widget or nothing in them, none with a key.
MCPlain == MCEl(Label, {NoKey}, {<< >>}, FALSE) \cup MCEl(Rows, {NoKey}, {<< >>, <<MCLabel>>}, FALSE)

\* Some of them with keys, and components that throw with these keys, by
\* themselves or in another, where one that does not may have been.
MCFaulty(keys) == MCEl(Rows, keys, {<< >>}, TRUE)
MCKeyed == MCEl(Rows, {Key}, {<<MCLabel>>}, FALSE)
MCWith(faulty) ==
  MCEl(Label, Keys \cup {NoKey}, {<< >>}, FALSE) \cup MCEl(Rows, {NoKey}, {<< >>}, FALSE)
    \cup MCKeyed \cup faulty
    \cup MCEl(Screen, {NoKey}, {<<e>> : e \in MCKeyed \cup faulty}, FALSE)
MCDeep == MCWith(MCFaulty({Key}))
MCUnkeyed == MCWith(MCFaulty({NoKey}))

\* collect() as it is written, and who is reached on the way.
RECURSIVE CollectBelow(_, _), Below(_, _)
CollectBelow(is, n) ==
  FlattenSeq([p \in DOMAIN is[n].kids |->
                LET k == is[n].kids[p] IN
                IF is[k].tag \in HostTags THEN <<k>> ELSE CollectBelow(is, k)])
Below(is, n) == {n} \cup UNION {Below(is, is[n].kids[p]) : p \in DOMAIN is[n].kids}

\* Trees of five instances, the children of each in one order or the other.
Shapes ==
  {[i \in 1..5 |->
      LET below == SelectSeq([j \in 1..5 |-> j], LAMBDA j : j > 1 /\ parent[j] = i) IN
      [tag |-> IF i = Root THEN RootTag ELSE IF i \in hosts THEN Label ELSE Rows,
       kids |-> IF i \in hosts THEN << >> ELSE IF i \in turned THEN Reverse(below) ELSE below]] :
     parent \in [2..5 -> 1..4], hosts \in SUBSET (2..5), turned \in SUBSET (1..3)}
ASSUME WalkAssumption ==
  \A is \in {s \in Shapes : \A i \in 1..5 : \A p \in DOMAIN s[i].kids : s[i].kids[p] > i} :
    Collect(is) = CollectBelow(is, Root) /\ InTree(is) = Below(is, Root)
=============================================================================
