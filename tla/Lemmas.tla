------------------------------- MODULE Lemmas -------------------------------
(***************************************************************************)
(* What the proofs about more than one component rest on: induction and    *)
(* recursion on the numbers, as facts about sets, and what the operators   *)
(* of UiOrder do to a container.                                           *)
(***************************************************************************)
EXTENDS UiOrder, WellFoundedInduction, TLAPS

-----------------------------------------------------------------------------
(* Numbers.                                                                *)

\* A set that holds 0 and with each number the next holds them all.
LEMMA NatSetInduction ==
  ASSUME NEW S, 0 \in S, \A n \in Nat : n \in S => n + 1 \in S
  PROVE  Nat \subseteq S
<1> DEFINE T == Nat \ S
           R == {ss \in Nat \X Nat : ss[1] < ss[2]}
<1> SUFFICES ASSUME T # {} PROVE FALSE
  OBVIOUS
<1>1. IsWellFoundedOn(R, Nat)
  BY NatLessThanWellFounded DEF OpToRel
<1>2. \A x, y \in Nat : <<x, y>> \in R <=> x < y
  OBVIOUS
<1>3. PICK x \in T : \A y \in T : ~(<<y, x>> \in R)
  <2>1. T \subseteq Nat /\ T # {}
    OBVIOUS
  <2> HIDE DEF R, T
  <2> QED BY <1>1, <2>1, WFMin, Zenon
<1> HIDE DEF R, T
<1>4. x \in Nat /\ x \notin S
  BY DEF T
<1>5. x - 1 \in Nat /\ x - 1 < x /\ (x - 1) + 1 = x
  BY <1>4
<1>6. x - 1 \in T
  BY <1>4, <1>5 DEF T
<1> QED BY <1>2, <1>3, <1>4, <1>5, <1>6

\* A function on the numbers with this first value and this step to the next.
Recursive(T, base, step) ==
  \E g \in [Nat -> T] : g[0] = base /\ \A n \in Nat : g[n + 1] = step[<<n, g[n]>>]

\* A first value and a step to the next define a function on the numbers.
LEMMA NatRecursion ==
  ASSUME NEW T, NEW base \in T, NEW step, \A n \in Nat, t \in T : step[<<n, t>>] \in T
  PROVE  Recursive(T, base, step)
<1> DEFINE Steps(f, m) == f[0] = base /\ \A n \in 0..m-1 : f[n + 1] = step[<<n, f[n]>>]
<1>1. \A m \in Nat : \E f \in [0..m -> T] : Steps(f, m)
  <2> DEFINE S == {m \in Nat : \E f \in [0..m -> T] : Steps(f, m)}
  <2>1. 0 \in S
    <3> DEFINE f == [i \in 0..0 |-> base]
    <3>1. f \in [0..0 -> T] /\ Steps(f, 0)
      OBVIOUS
    <3> QED BY <3>1
  <2>2. ASSUME NEW m \in Nat, m \in S PROVE m + 1 \in S
    <3>1. PICK f \in [0..m -> T] : Steps(f, m)
      BY <2>2
    <3>2. f[m] \in T /\ step[<<m, f[m]>>] \in T
      OBVIOUS
    <3> DEFINE h == [i \in 0..(m + 1) |-> IF i = m + 1 THEN step[<<m, f[m]>>] ELSE f[i]]
    <3>3. h \in [0..(m + 1) -> T]
      <4>1. \A i \in 0..(m + 1) : i = m + 1 \/ i \in 0..m
        OBVIOUS
      <4> QED BY <3>2, <4>1
    <3>4. h[m + 1] = step[<<m, f[m]>>] /\ \A i \in 0..m : h[i] = f[i]
      <4>1. m + 1 \in 0..(m + 1) /\ \A i \in 0..m : i \in 0..(m + 1) /\ i # m + 1
        OBVIOUS
      <4> QED BY <4>1
    <3> HIDE DEF h
    <3>5. h[0] = base
      BY <3>1, <3>4
    <3>6. ASSUME NEW n \in 0..(m + 1) - 1 PROVE h[n + 1] = step[<<n, h[n]>>]
      <4>1. CASE n = m
        BY <3>4, <4>1
      <4>2. CASE n # m
        <5>1. n \in 0..m-1 /\ n + 1 \in 0..m /\ n \in 0..m
          BY <4>2
        <5> QED BY <3>1, <3>4, <5>1
      <4> QED BY <4>1, <4>2
    <3> QED BY <3>3, <3>5, <3>6
  <2> HIDE DEF S
  <2>3. Nat \subseteq S
    BY <2>1, <2>2, NatSetInduction
  <2> QED BY <2>3 DEF S
<1>2. ASSUME NEW m \in Nat, NEW f, NEW h, Steps(f, m), Steps(h, m + 1)
      PROVE  f[m] = h[m]
  <2> DEFINE S == {i \in Nat : i <= m => f[i] = h[i]}
  <2>1. 0 \in S
    BY <1>2
  <2>2. ASSUME NEW i \in Nat, i \in S PROVE i + 1 \in S
    <3> SUFFICES ASSUME i + 1 <= m PROVE f[i + 1] = h[i + 1]
      OBVIOUS
    <3>1. i \in 0..m-1 /\ i \in 0..(m + 1) - 1 /\ i <= m
      OBVIOUS
    <3>2. f[i + 1] = step[<<i, f[i]>>] /\ h[i + 1] = step[<<i, h[i]>>]
      BY <1>2, <3>1
    <3>3. f[i] = h[i]
      BY <2>2, <3>1
    <3> QED BY <3>2, <3>3
  <2> HIDE DEF S
  <2>3. Nat \subseteq S
    BY <2>1, <2>2, NatSetInduction
  <2> QED BY <2>3 DEF S
<1> DEFINE part(m) == CHOOSE f \in [0..m -> T] : Steps(f, m)
           g == [n \in Nat |-> part(n)[n]]
<1>3. \A m \in Nat : part(m) \in [0..m -> T] /\ Steps(part(m), m)
  BY <1>1
<1> HIDE DEF part
<1>4. \A n \in Nat : g[n] = part(n)[n] /\ g[n] \in T
  BY <1>3
<1>5. g \in [Nat -> T] /\ g[0] = base
  BY <1>3, <1>4
<1>6. ASSUME NEW n \in Nat PROVE g[n + 1] = step[<<n, g[n]>>]
  <2>1. Steps(part(n), n) /\ Steps(part(n + 1), n + 1) /\ n + 1 \in Nat
    BY <1>3
  <2>2. part(n)[n] = part(n + 1)[n]
    BY <1>2, <2>1
  <2>3. n \in 0..(n + 1) - 1
    OBVIOUS
  <2>4. part(n + 1)[n + 1] = step[<<n, part(n + 1)[n]>>]
    BY <2>1, <2>3
  <2> HIDE DEF g
  <2> QED BY <1>4, <2>1, <2>2, <2>4
<1> HIDE DEF g
<1> QED BY <1>5, <1>6 DEF Recursive

-----------------------------------------------------------------------------
(* The order of the widgets in a container.                                *)

\* The orders the widgets of a container can be in.
Arrangements(row) ==
  {b \in [DOMAIN row -> Range(row)] :
     /\ \A p, q \in DOMAIN row : b[p] = b[q] => p = q
     /\ \A w \in Range(row) : Touchable(b, w)}

LEMMA PlaceFacts ==
  ASSUME NEW row, NEW w, Touchable(row, w)
  PROVE  PlaceOf(row, w) \in DOMAIN row /\ row[PlaceOf(row, w)] = w
BY DEF Touchable, PlaceOf

\* Moving a widget to a place puts it there, leaves what is before both places
\* as it is, and changes the order of no two others.
LEMMA MoveFacts ==
  ASSUME NEW S, NEW row \in Seq(S), NEW b \in Arrangements(row), NEW w \in Range(row), NEW i \in Nat \ {0}
  PROVE  /\ MoveTo(b, w, i) \in Arrangements(row)
         /\ i \in DOMAIN row => MoveTo(b, w, i)[i] = w
         /\ \A q \in DOMAIN row : q < i /\ q < PlaceOf(b, w) => MoveTo(b, w, i)[q] = b[q]
         /\ \A x, y \in DOMAIN row : x < y /\ MoveTo(b, w, i)[x] # w /\ MoveTo(b, w, i)[y] # w =>
              \E r, s \in DOMAIN row : r < s /\ b[r] = MoveTo(b, w, i)[x] /\ b[s] = MoveTo(b, w, i)[y]
<1>1. /\ b \in [DOMAIN row -> Range(row)] /\ DOMAIN b = DOMAIN row
      /\ \A p, q \in DOMAIN row : b[p] = b[q] => p = q
      /\ \A v \in Range(row) : Touchable(b, v)
  BY DEF Arrangements
<1>2. PICK len \in Nat : DOMAIN row = 1..len
  OBVIOUS
<1>3. PICK p \in 1..len : p = PlaceOf(b, w) /\ b[p] = w
  BY <1>1, <1>2, PlaceFacts
<1>4. CASE i \notin DOMAIN row
  <2>1. MoveTo(b, w, i) = b
    BY <1>1, <1>4 DEF MoveTo
  <2> QED BY <1>4, <2>1
<1>5. CASE i \in DOMAIN row
  <2> DEFINE from(q) == IF q = i THEN p
                        ELSE IF i < q /\ q <= p THEN q - 1
                        ELSE IF p <= q /\ q < i THEN q + 1 ELSE q
  <2>0. i \in 1..len
    BY <1>2, <1>5
  <2>1. \A q \in 1..len : from(q) \in 1..len
    BY <2>0
  <2>2. PICK m : m = MoveTo(b, w, i)
    OBVIOUS
  <2>3. m = [q \in 1..len |-> IF q = i THEN w ELSE IF i < q /\ q <= p THEN b[q - 1]
                              ELSE IF p <= q /\ q < i THEN b[q + 1] ELSE b[q]]
    BY <1>1, <1>2, <1>3, <1>5, <2>2 DEF MoveTo
  <2>4. DOMAIN m = 1..len /\ \A q \in 1..len : m[q] = b[from(q)]
    BY <1>3, <2>3
  <2>5. \A q, r \in 1..len : from(q) = from(r) => q = r
    BY <2>0
  <2>6. \A r \in 1..len : \E q \in 1..len : from(q) = r
    <3> TAKE r \in 1..len
    <3> DEFINE to == IF r = p THEN i ELSE IF i <= r /\ r < p THEN r + 1
                     ELSE IF p < r /\ r <= i THEN r - 1 ELSE r
    <3>1. to \in 1..len /\ from(to) = r
      BY <2>0
    <3> QED BY <3>1
  <2>7. \A x, y \in 1..len : x < y /\ x # i /\ y # i => from(x) < from(y)
    BY <2>0
  <2>8. \A q \in 1..len : q < i /\ q < p => from(q) = q
    BY <2>0
  <2>9. from(i) = p
    OBVIOUS
  <2> HIDE DEF from
  <2>10. m \in [1..len -> Range(row)]
    <3>1. \A q \in 1..len : m[q] \in Range(row)
      BY <1>1, <1>2, <2>1, <2>4
    <3>2. m = [q \in 1..len |-> m[q]]
      BY <2>3
    <3> QED BY <3>1, <3>2
  <2>11. \A x, y \in 1..len : m[x] = m[y] => x = y
    BY <1>1, <1>2, <2>1, <2>4, <2>5
  <2>12. \A v \in Range(row) : Touchable(m, v)
    <3> TAKE v \in Range(row)
    <3>1. PICK r \in 1..len : b[r] = v
      BY <1>1, <1>2 DEF Touchable
    <3>2. PICK q \in 1..len : from(q) = r
      BY <2>6
    <3>3. m[q] = v
      BY <2>4, <3>1, <3>2
    <3> QED BY <2>4, <3>3 DEF Touchable
  <2>13. m \in Arrangements(row)
    BY <1>2, <2>10, <2>11, <2>12 DEF Arrangements
  <2>14. m[i] = w
    BY <1>3, <2>0, <2>4, <2>9
  <2>15. \A q \in 1..len : q < i /\ q < p => m[q] = b[q]
    BY <2>4, <2>8
  <2>16. \A x, y \in 1..len : x < y /\ m[x] # w /\ m[y] # w =>
           \E r, s \in 1..len : r < s /\ b[r] = m[x] /\ b[s] = m[y]
    <3> TAKE x, y \in 1..len
    <3> HAVE x < y /\ m[x] # w /\ m[y] # w
    <3>1. x # i /\ y # i
      BY <2>14
    <3>2. from(x) < from(y) /\ from(x) \in 1..len /\ from(y) \in 1..len
      BY <2>1, <2>7, <3>1
    <3> QED BY <2>4, <3>2
  <2> QED BY <1>2, <1>3, <2>2, <2>13, <2>14, <2>15, <2>16
<1> QED BY <1>4, <1>5

\* What reorder() has done after so many widgets, as a function on the numbers.
PlacedIs(g, row, widgets) ==
  /\ g \in [Nat -> Arrangements(row)]
  /\ g[0] = row
  /\ \A n \in Nat : g[n + 1] = IF n + 1 \in Asked(row, widgets)
                               THEN MoveTo(g[n], widgets[n + 1], n + 1) ELSE g[n]
  /\ g[Len(widgets)] = Ordered(row, widgets)

LEMMA PlacedExists ==
  ASSUME NEW S, NEW row \in Seq(S), IsInjective(row), NEW widgets \in Seq(S)
  PROVE  \E g : PlacedIs(g, row, widgets)
<1> DEFINE T == Arrangements(row)
           asked == Asked(row, widgets)
           step == [x \in Nat \X T |-> IF x[1] + 1 \in asked
                                       THEN MoveTo(x[2], widgets[x[1] + 1], x[1] + 1) ELSE x[2]]
<1>1. row \in T
  BY DEF Arrangements, IsInjective, Range, Touchable
<1>2. \A n \in asked : n \in Nat \ {0} /\ widgets[n] \in Range(row)
  BY DEF Asked, Touchable, Range
<1>3. \A n \in Nat, t \in T : step[<<n, t>>] = IF n + 1 \in asked
                                              THEN MoveTo(t, widgets[n + 1], n + 1) ELSE t
  OBVIOUS
<1> HIDE DEF step, T, asked
<1>4. \A n \in Nat, t \in T : step[<<n, t>>] \in T
  <2> TAKE n \in Nat, t \in T
  <2>1. CASE n + 1 \in asked
    <3>1. MoveTo(t, widgets[n + 1], n + 1) \in T
      BY <1>2, <2>1, MoveFacts DEF T
    <3> QED BY <1>3, <2>1, <3>1
  <2>2. CASE n + 1 \notin asked
    BY <1>3, <2>2
  <2> QED BY <2>1, <2>2
<1>5. PICK g \in [Nat -> T] : g[0] = row /\ \A n \in Nat : g[n + 1] = step[<<n, g[n]>>]
  <2>1. Recursive(T, row, step)
    BY <1>1, <1>4, NatRecursion
  <2> QED BY <2>1 DEF Recursive
<1>6. \A n \in Nat : g[n + 1] = IF n + 1 \in asked THEN MoveTo(g[n], widgets[n + 1], n + 1) ELSE g[n]
  BY <1>3, <1>5
<1> DEFINE Step(f, n) == IF n = 0 THEN row
                         ELSE IF n \in asked THEN MoveTo(f[n - 1], widgets[n], n) ELSE f[n - 1]
           D == 0..Len(widgets)
           placed == CHOOSE f : f = [n \in D |-> Step(f, n)]
<1>7. Ordered(row, widgets) = placed[Len(widgets)]
  BY DEF Ordered, asked
<1>8. \E f : f = [n \in D |-> Step(f, n)]
  <2> DEFINE h == [n \in D |-> g[n]]
  <2>1. \A n \in D : h[n] = g[n]
    OBVIOUS
  <2>2. \A n \in D : n # 0 => n - 1 \in D /\ n - 1 \in Nat /\ (n - 1) + 1 = n
    OBVIOUS
  <2>3. \A n \in D : g[n] = Step(h, n)
    <3> TAKE n \in D
    <3>1. CASE n = 0
      BY <1>5, <3>1
    <3>2. CASE n # 0
      <4>1. n - 1 \in D /\ n - 1 \in Nat /\ (n - 1) + 1 = n
        BY <2>2, <3>2
      <4>2. h[n - 1] = g[n - 1]
        BY <2>1, <4>1
      <4>3. g[n] = IF n \in asked THEN MoveTo(g[n - 1], widgets[n], n) ELSE g[n - 1]
        BY <1>6, <4>1
      <4> HIDE DEF h
      <4> QED BY <3>2, <4>2, <4>3
    <3> QED BY <3>1, <3>2
  <2>4. h = [n \in D |-> Step(h, n)]
    BY <2>3
  <2> QED BY <2>4
<1>9. placed = [n \in D |-> Step(placed, n)]
  BY <1>8
<1> HIDE DEF placed
<1>10. \A n \in D : placed[n] = Step(placed, n)
  BY <1>9
<1>11. \A n \in D : placed[n] = g[n]
  <2> DEFINE U == {n \in Nat : n \in D => placed[n] = g[n]}
  <2>1. 0 \in U
    BY <1>5, <1>10
  <2>2. ASSUME NEW n \in Nat, n \in U PROVE n + 1 \in U
    <3> SUFFICES ASSUME n + 1 \in D PROVE placed[n + 1] = g[n + 1]
      OBVIOUS
    <3>1. n \in D /\ n + 1 # 0 /\ (n + 1) - 1 = n
      OBVIOUS
    <3>2. placed[n] = g[n]
      BY <2>2, <3>1
    <3>3. placed[n + 1] = IF n + 1 \in asked THEN MoveTo(placed[n], widgets[n + 1], n + 1) ELSE placed[n]
      <4>1. placed[n + 1] = Step(placed, n + 1)
        BY <1>10
      <4> QED BY <3>1, <4>1
    <3>4. g[n + 1] = IF n + 1 \in asked THEN MoveTo(g[n], widgets[n + 1], n + 1) ELSE g[n]
      BY <1>6
    <3> QED BY ONLY <3>2, <3>3, <3>4
  <2> HIDE DEF U
  <2>3. Nat \subseteq U
    BY <2>1, <2>2, NatSetInduction
  <2> QED BY <2>3 DEF U
<1>12. g[Len(widgets)] = Ordered(row, widgets)
  BY <1>7, <1>11
<1> QED BY <1>5, <1>6, <1>12 DEF PlacedIs, T, asked

\* Those of these containers' widgets that are not asked for, in the order they
\* were in.
RestInOrder(b, row, widgets) ==
  \A x, y \in DOMAIN row :
    x < y /\ b[x] \notin Range(widgets) /\ b[y] \notin Range(widgets) =>
      \E r, s \in DOMAIN row : r < s /\ row[r] = b[x] /\ row[s] = b[y]

\* Whatever order the widgets of a container are in, reorder() loses none and
\* adds none; it leaves each widget it got to in the place the tree gives it, and
\* those the tree does not name in the order they were in.  No two widgets are
\* ever in each other's way: what is placed later comes from behind.
THEOREM ReorderPlaces ==
  ASSUME NEW S, NEW row \in Seq(S), IsInjective(row), NEW widgets \in Seq(S), IsInjective(widgets)
  PROVE  /\ Ordered(row, widgets) \in Arrangements(row)
         /\ \A n \in Asked(row, widgets) : n \in DOMAIN row /\ Ordered(row, widgets)[n] = widgets[n]
         /\ RestInOrder(Ordered(row, widgets), row, widgets)
<1>1. PICK g : PlacedIs(g, row, widgets)
  BY PlacedExists
<1>2. /\ g \in [Nat -> Arrangements(row)] /\ g[0] = row
      /\ \A n \in Nat : g[n + 1] = IF n + 1 \in Asked(row, widgets)
                                   THEN MoveTo(g[n], widgets[n + 1], n + 1) ELSE g[n]
      /\ g[Len(widgets)] = Ordered(row, widgets)
  BY <1>1 DEF PlacedIs
<1>3. PICK len \in Nat : DOMAIN row = 1..len
  OBVIOUS
<1>4. \A n \in Asked(row, widgets) : /\ n \in Nat \ {0} /\ n \in DOMAIN widgets
                                     /\ widgets[n] \in Range(row) /\ widgets[n] \in Range(widgets)
                                     /\ \A m \in 1..n : m \in Asked(row, widgets)
  BY DEF Asked, Touchable, Range
<1> DEFINE InPlace(n) == \A m \in Asked(row, widgets) :
                           m <= n => m \in 1..len /\ g[n][m] = widgets[m]
           InOrder(n) == RestInOrder(g[n], row, widgets)
           T == {n \in Nat : InPlace(n) /\ InOrder(n)}
<1>5. 0 \in T
  <2>1. InPlace(0)
    BY <1>4
  <2>2. InOrder(0)
    BY <1>2 DEF RestInOrder
  <2> QED BY <2>1, <2>2
<1>6. ASSUME NEW n \in Nat, n \in T PROVE n + 1 \in T
  <2>1. InPlace(n) /\ InOrder(n)
    BY <1>6
  <2>2. CASE n + 1 \notin Asked(row, widgets)
    <3>1. g[n + 1] = g[n]
      BY <1>2, <2>2
    <3>2. \A m \in Asked(row, widgets) : m <= n + 1 => m <= n
      BY <1>4, <2>2
    <3> QED BY <2>1, <3>1, <3>2
  <2>3. CASE n + 1 \in Asked(row, widgets)
    <3>1. PICK w : w = widgets[n + 1]
      OBVIOUS
    <3>2. w \in Range(row) /\ w \in Range(widgets) /\ n + 1 \in DOMAIN widgets /\ n + 1 \in Nat \ {0}
      BY <1>4, <2>3, <3>1
    <3>3. PICK b \in Arrangements(row) : b = g[n]
      BY <1>2
    <3>4. PICK c : c = MoveTo(b, w, n + 1)
      OBVIOUS
    <3>5. g[n + 1] = c
      BY <1>2, <2>3, <3>1, <3>3, <3>4
    <3>6. /\ n + 1 \in DOMAIN row => c[n + 1] = w
          /\ \A q \in DOMAIN row : q < n + 1 /\ q < PlaceOf(b, w) => c[q] = b[q]
          /\ \A x, y \in DOMAIN row : x < y /\ c[x] # w /\ c[y] # w =>
               \E r, s \in DOMAIN row : r < s /\ b[r] = c[x] /\ b[s] = c[y]
      BY <3>2, <3>4, MoveFacts
    <3>7. PICK p \in 1..len : p = PlaceOf(b, w) /\ b[p] = w
      <4>1. Touchable(b, w) /\ DOMAIN b = DOMAIN row
        BY <3>2 DEF Arrangements
      <4> QED BY <1>3, <4>1, PlaceFacts
    \* The widgets placed so far are others, so that this one is behind them.
    <3>8. \A m \in 1..n : m \in 1..len /\ b[m] = widgets[m] /\ m \in DOMAIN widgets
      BY <1>4, <2>1, <2>3, <3>3
    <3>9. p > n
      BY <3>1, <3>2, <3>7, <3>8 DEF IsInjective
    <3>10. n + 1 \in 1..len
      BY <3>7, <3>9
    <3>11. InPlace(n + 1)
      <4> SUFFICES ASSUME NEW m \in Asked(row, widgets), m <= n + 1
                   PROVE  m \in 1..len /\ g[n + 1][m] = widgets[m]
        OBVIOUS
      <4>1. CASE m = n + 1
        BY <1>3, <3>1, <3>5, <3>6, <3>10, <4>1
      <4>2. CASE m # n + 1
        <5>1. m \in 1..n
          BY <1>4, <4>2
        <5>2. m \in DOMAIN row /\ m < n + 1 /\ m < PlaceOf(b, w)
          BY <1>3, <3>7, <3>8, <3>9, <5>1
        <5> QED BY <1>3, <3>5, <3>6, <3>8, <5>1, <5>2
      <4> QED BY <4>1, <4>2
    <3>12. RestInOrder(c, row, widgets)
      <4> SUFFICES ASSUME NEW x \in DOMAIN row, NEW y \in DOMAIN row,
                          x < y, c[x] \notin Range(widgets), c[y] \notin Range(widgets)
                   PROVE  \E r, s \in DOMAIN row : r < s /\ row[r] = c[x] /\ row[s] = c[y]
        BY DEF RestInOrder
      <4>1. c[x] # w /\ c[y] # w
        BY <3>2
      <4>2. PICK r \in DOMAIN row, s \in DOMAIN row : r < s /\ b[r] = c[x] /\ b[s] = c[y]
        BY <3>6, <4>1
      <4> QED BY <2>1, <3>3, <4>2 DEF RestInOrder
    <3> QED BY <3>5, <3>11, <3>12
  <2> QED BY <2>2, <2>3
<1> HIDE DEF T
<1>7. Nat \subseteq T
  BY <1>5, <1>6, NatSetInduction
<1>8. Len(widgets) \in T
  BY <1>7
<1>9. \A n \in Asked(row, widgets) : n \in 1..len /\ Ordered(row, widgets)[n] = widgets[n]
  <2>1. \A n \in Asked(row, widgets) : n <= Len(widgets)
    BY <1>4
  <2> QED BY <1>2, <1>8, <2>1 DEF T
<1>10. RestInOrder(Ordered(row, widgets), row, widgets)
  BY <1>2, <1>8 DEF T
<1>11. Ordered(row, widgets) \in Arrangements(row)
  <2>1. Len(widgets) \in Nat
    OBVIOUS
  <2> QED BY <1>2, <2>1
<1> QED BY <1>3, <1>9, <1>10, <1>11

\* Where the tree names every widget there is, they end up as it names them.
LEMMA ReorderAll ==
  ASSUME NEW S, NEW row \in Seq(S), IsInjective(row), NEW widgets \in Seq(S), IsInjective(widgets),
         Range(row) = Range(widgets)
  PROVE  Ordered(row, widgets) = widgets
<1>1. PICK len \in Nat, many \in Nat : DOMAIN row = 1..len /\ DOMAIN widgets = 1..many
  OBVIOUS
<1>2. PICK b \in Arrangements(row) : b = Ordered(row, widgets)
  BY ReorderPlaces
<1>3. Asked(row, widgets) = 1..many
  <2>1. \A m \in 1..many : widgets[m] \in Range(row)
    BY <1>1 DEF Range
  <2>2. \A m \in 1..many : Touchable(row, widgets[m])
    BY <2>1 DEF Range, Touchable
  <2>3. \A n \in 1..many : \A m \in 1..n : m \in 1..many
    OBVIOUS
  <2> QED BY <1>1, <2>2, <2>3 DEF Asked
<1>4. \A n \in 1..many : n \in 1..len /\ b[n] = widgets[n]
  BY <1>1, <1>2, <1>3, ReorderPlaces
<1>5. /\ b \in [1..len -> Range(widgets)] /\ \A p, q \in 1..len : b[p] = b[q] => p = q
  BY <1>1 DEF Arrangements
<1>6. \A q \in 1..len : q \in 1..many
  <2> TAKE q \in 1..len
  <2>1. PICK m \in 1..many : b[q] = widgets[m]
    BY <1>1, <1>5 DEF Range
  <2>2. q = m
    BY <1>4, <1>5, <2>1
  <2> QED BY <2>2
<1>7. 1..len = 1..many
  BY <1>4, <1>6
<1>8. DOMAIN b = DOMAIN widgets /\ \A n \in DOMAIN widgets : b[n] = widgets[n]
  BY <1>1, <1>4, <1>5, <1>7
<1>9. widgets = [n \in DOMAIN widgets |-> widgets[n]] /\ b = [n \in DOMAIN b |-> b[n]]
  BY <1>5
<1> QED BY <1>2, <1>8, <1>9

\* .delete() leaves the other widgets, in the order they were in.
LEMMA WithoutFacts ==
  ASSUME NEW S, NEW row \in Seq(S), IsInjective(row), NEW w, Touchable(row, w)
  PROVE  /\ Without(row, w) \in Seq(S) /\ IsInjective(Without(row, w))
         /\ Len(Without(row, w)) = Len(row) - 1
         /\ \A v : Touchable(Without(row, w), v) <=> v # w /\ Touchable(row, v)
<1>1. PICK p \in DOMAIN row : p = PlaceOf(row, w) /\ row[p] = w
  BY PlaceFacts
<1>2. PICK len \in Nat : len = Len(row) /\ DOMAIN row = 1..len /\ p \in 1..len
  OBVIOUS
<1>3. PICK before \in Seq(S) : /\ before = SubSeq(row, 1, p - 1) /\ Len(before) = p - 1
                              /\ \A q \in 1..(p - 1) : before[q] = row[q]
  <2>1. /\ SubSeq(row, 1, p - 1) \in Seq(S) /\ Len(SubSeq(row, 1, p - 1)) = p - 1
        /\ \A q \in 1..(p - 1) : SubSeq(row, 1, p - 1)[q] = row[q]
    BY <1>2
  <2> QED BY <2>1, Zenon
<1>4. PICK behind \in Seq(S) : /\ behind = SubSeq(row, p + 1, len) /\ Len(behind) = len - p
                              /\ \A q \in 1..(len - p) : behind[q] = row[p + q]
  <2>1. /\ SubSeq(row, p + 1, len) \in Seq(S) /\ Len(SubSeq(row, p + 1, len)) = len - p
        /\ \A q \in 1..(len - p) : SubSeq(row, p + 1, len)[q] = row[p + q]
    BY <1>2
  <2> QED BY <2>1, Zenon
<1>5. PICK c : c = before \o behind
  OBVIOUS
<1>6. Without(row, w) = c
  BY <1>1, <1>2, <1>3, <1>4, <1>5 DEF Without, RemoveAt
<1>7. /\ c \in Seq(S) /\ Len(c) = len - 1 /\ DOMAIN c = 1..(len - 1)
      /\ \A q \in 1..(len - 1) : c[q] = row[IF q < p THEN q ELSE q + 1]
  <2>1. c \in Seq(S) /\ Len(c) = (p - 1) + (len - p)
    <3>1. c \in Seq(S) /\ Len(c) = Len(before) + Len(behind)
      BY <1>5
    <3> QED BY <1>3, <1>4, <3>1
  <2>2. Len(c) = len - 1 /\ DOMAIN c = 1..(len - 1)
    BY <2>1
  <2>3. ASSUME NEW q \in 1..(len - 1), q < p PROVE c[q] = row[q]
    BY <1>3, <1>4, <1>5, <2>3
  <2>4. ASSUME NEW q \in 1..(len - 1), ~(q < p) PROVE c[q] = row[q + 1]
    <3>1. q - (p - 1) \in 1..(len - p) /\ p + (q - (p - 1)) = q + 1
      BY <2>4
    <3>2. c[q] = behind[q - (p - 1)]
      <4>1. c[q] = behind[q - Len(before)]
        <5>1. q \in (Len(before) + 1)..(Len(before) + Len(behind))
          BY <1>2, <1>3, <1>4, <2>4
        <5> QED BY <1>5, <5>1
      <4> QED BY <1>3, <4>1
    <3> QED BY <1>4, <3>1, <3>2
  <2> QED BY <2>1, <2>2, <2>3, <2>4
<1>8. IsInjective(c)
  <2> SUFFICES ASSUME NEW q \in 1..(len - 1), NEW r \in 1..(len - 1), c[q] = c[r] PROVE q = r
    BY <1>7 DEF IsInjective
  <2> DEFINE from(x) == IF x < p THEN x ELSE x + 1
  <2>1. from(q) \in 1..len /\ from(r) \in 1..len /\ (from(q) = from(r) => q = r)
    BY <1>2
  <2>2. row[from(q)] = row[from(r)]
    BY <1>7
  <2> HIDE DEF from
  <2> QED BY <1>2, <2>1, <2>2 DEF IsInjective
<1>9. ASSUME NEW v PROVE Touchable(c, v) <=> v # w /\ Touchable(row, v)
  <2>1. ASSUME Touchable(c, v) PROVE v # w /\ Touchable(row, v)
    <3>1. PICK q \in 1..(len - 1) : c[q] = v
      BY <1>7, <2>1 DEF Touchable
    <3>2. PICK r \in 1..len : r # p /\ row[r] = v
      BY <1>7, <3>1
    <3> QED BY <1>1, <1>2, <3>2 DEF Touchable, IsInjective
  <2>2. ASSUME v # w, Touchable(row, v) PROVE Touchable(c, v)
    <3>1. PICK r \in 1..len : row[r] = v /\ r # p
      BY <1>1, <1>2, <2>2 DEF Touchable
    <3>2. \E q \in 1..(len - 1) : (IF q < p THEN q ELSE q + 1) = r
      <4>1. CASE r < p
        BY <1>2, <3>1, <4>1
      <4>2. CASE r > p
        <5>1. r - 1 \in 1..(len - 1) /\ ~(r - 1 < p) /\ (r - 1) + 1 = r
          BY <1>2, <3>1, <4>2
        <5> QED BY <5>1
      <4> QED BY <1>2, <3>1, <4>1, <4>2
    <3>3. PICK q \in 1..(len - 1) : (IF q < p THEN q ELSE q + 1) = r
      BY <3>2
    <3>4. c[q] = v
      BY <1>7, <3>1, <3>3
    <3> QED BY <1>7, <3>3, <3>4 DEF Touchable
  <2> QED BY <2>1, <2>2
<1> QED BY <1>2, <1>6, <1>7, <1>8, <1>9

\* What is made comes last.
LEMMA AppendFacts ==
  ASSUME NEW S, NEW row \in Seq(S), IsInjective(row), NEW w \in S, ~Touchable(row, w)
  PROVE  /\ Append(row, w) \in Seq(S) /\ IsInjective(Append(row, w))
         /\ \A v : Touchable(Append(row, w), v) <=> v = w \/ Touchable(row, v)
<1>1. /\ Append(row, w) \in Seq(S) /\ DOMAIN Append(row, w) = DOMAIN row \cup {Len(row) + 1}
      /\ Append(row, w)[Len(row) + 1] = w
      /\ \A p \in DOMAIN row : Append(row, w)[p] = row[p]
  OBVIOUS
<1> QED BY <1>1 DEF IsInjective, Touchable
=============================================================================
