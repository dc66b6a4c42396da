------------------------- MODULE UiReconcilerProofs -------------------------
(***************************************************************************)
(* Proofs about UiReconciler, for any elements to any depth, any number of *)
(* children and any number of renders: the widgets are the declared ones   *)
(* in declared order, no instance is lost or used after its end, a key     *)
(* keeps its instance, and where children are matched by key a component   *)
(* that throws costs the others nothing.                                   *)
(***************************************************************************)
EXTENDS UiReconciler, Lemmas

-----------------------------------------------------------------------------
(* The inductive invariant, in parts.                                      *)

\* A row of children of n: younger than n, made as its children, each once.
ChildrenOf(is, n, row) ==
  /\ row \in Seq(DOMAIN is) /\ IsInjective(row)
  /\ \A p \in DOMAIN row : row[p] > n /\ is[row[p]].under = n

\* The instances are a tree below the root, the youngest at its ends.
Tree(is) ==
  /\ is # << >> /\ is[Root].tag = RootTag
  /\ \A i \in DOMAIN is :
       /\ ChildrenOf(is, i, is[i].kids)
       /\ is[i].tag \in HostTags \/ ~is[i].mounted => is[i].kids = << >>
       /\ i # Root => is[i].tag \in Tags /\ is[i].under \in 1..i-1

\* Instances have their place by the elements they were last asked for.
Matches(is, row, elems) ==
  /\ Len(row) <= Len(elems)
  /\ \A p \in DOMAIN row :
       Compatible(is[row[p]], elems[p]) /\ (is[row[p]].tag \in HostTags \/ is[row[p]].mounted)
Placed(is) ==
  \A i \in DOMAIN is : DOMAIN is[i].kids = DOMAIN is[i].asked /\ Matches(is, is[i].kids, is[i].asked)
TreeInv == Tree(inst) /\ Placed(inst)

\* The container holds the widgets that are not unmounted, each once.
BoxInv == IsInjective(box) /\ ToSet(box) = {i \in DOMAIN inst \ gone : IsHost(i)}

\* What a diff has got so far, and what it will still come to.
MountFrame(is, f) ==
  f.mode = "mount" =>
    is[f.owner].kids = << >> /\ \A n \in DOMAIN is : f.owner \notin ToSet(is[n].kids)
PositionFrame(is, f) ==
  LET old == is[f.owner].kids IN
  f.mode = "position" =>
    /\ \A p \in DOMAIN f.next : f.next[p] \in ToSet(old) => p \in DOMAIN old /\ f.next[p] = old[p]
    /\ \A p \in f.dropped \cap (Len(f.next)+1..Len(f.elems)) : ~Compatible(is[old[p]], f.elems[p])
    /\ \A p \in DOMAIN old : is[old[p]].key = NoKey
OnlyOne(is, old, p, e) ==
  Compatible(is[old[p]], e) /\ \A q \in DOMAIN old : Compatible(is[old[q]], e) => q = p
KeyFrame(is, f) ==
  LET old == is[f.owner].kids IN
  f.mode = "key" =>
    /\ f.dropped # {} => Len(f.next) = Len(f.elems)
    /\ \A p \in DOMAIN old, j \in DOMAIN f.next :
         f.elems[j].key # NoKey /\ OnlyOne(is, old, p, f.elems[j]) => old[p] \in ToSet(f.next)
FrameInv(is, f) ==
  LET old == is[f.owner].kids IN
  /\ f.owner \in DOMAIN is /\ is[f.owner].tag \notin HostTags
  /\ ChildrenOf(is, f.owner, f.next) /\ Matches(is, f.next, f.elems)
  /\ f.dropped \subseteq DOMAIN old /\ \A p \in f.dropped : old[p] \notin ToSet(f.next)
  /\ ~f.structural => f.dropped = {} /\ ToSet(f.next) \subseteq ToSet(old)
  /\ MountFrame(is, f) /\ PositionFrame(is, f) /\ KeyFrame(is, f)

\* Each diff is of something younger than its caller's.
Frames(is, frames) ==
  /\ \A k \in DOMAIN frames : FrameInv(is, frames[k])
  /\ \A j, k \in DOMAIN frames : j < k => frames[j].owner < frames[k].owner
StackInv ==
  /\ Frames(inst, stack)
  /\ Root \notin gone \cup ToSet(doomed)
  /\ doomed # << >> => stack # << >> /\ Top.dropped # {}

\* What is matched by key is unmounted after all has been rendered.
KeyedInv ==
  keyed =>
    /\ threw # "deleted"
    /\ \A k \in DOMAIN stack :
         LET f == stack[k] IN
         /\ Careful(f.mode, f.elems)
         /\ f.dropped # {} =>
              /\ k = Len(stack)
              /\ Len(f.next) = Len(f.elems) \/ \A p \in DOMAIN f.elems : f.elems[p].tag \in HostTags

\* Somebody is unmounting the i-th instance as a child of its parent.
Dropped(i) ==
  \E k \in DOMAIN stack : \E p \in stack[k].dropped :
    stack[k].owner = inst[i].under /\ inst[stack[k].owner].kids[p] = i

\* What is unmounted is on its way out of the tree, from the top down, and no
\* diff has a use for it.
GoneFrames ==
  \A k \in DOMAIN stack :
    /\ stack[k].owner \notin gone
    /\ ToSet(stack[k].next) \cap (gone \cup ToSet(doomed)) = {}
    /\ \A p \in stack[k].dropped : inst[stack[k].owner].kids[p] \in gone \cup ToSet(doomed)
GoneDoomed ==
  /\ IsInjective(doomed) /\ ToSet(doomed) \cap gone = {}
  /\ \A d \in ToSet(doomed) :
       d > Top.owner /\ (inst[d].under \in gone \/ (inst[d].under = Top.owner /\ Dropped(d)))
GoneKids == \A n \in DOMAIN inst \ gone : \A i \in ToSet(inst[n].kids) \cap gone : Dropped(i)
GoneInv == Sound => GoneFrames /\ GoneDoomed /\ GoneKids

\* As long as nothing has thrown, every instance is its parent's child, or about
\* to be, and outlives it only while unmount() is at work.
AccountInv ==
  ~failed => \A i \in DOMAIN inst \ (gone \cup {Root}) :
    /\ \/ i \in ToSet(inst[inst[i].under].kids)
       \/ \E k \in DOMAIN stack : stack[k].owner = inst[i].under /\ i \in ToSet(stack[k].next)
    /\ inst[i].under \notin gone \/ i \in ToSet(doomed)

\* While nothing is being unmounted, the widgets of the tree come first, in order.
NoneDropped == \A k \in DOMAIN stack : stack[k].dropped = {}
PrefixInv == Sound /\ NoneDropped => IsPrefix(Collect(inst), box)

ShapeInv == TypeOK /\ TreeInv /\ BoxInv /\ StackInv
DiffInv == ShapeInv /\ KeyedInv /\ GoneInv /\ AccountInv /\ PrefixInv

-----------------------------------------------------------------------------
(* Rows.                                                                   *)

\* Two ways to say who is in a row.
LEMMA InRow == ASSUME NEW row, NEW x PROVE x \in ToSet(row) <=> Touchable(row, x)
BY DEF ToSet, Touchable

\* A row with what is between its first a and its last z places replaced.
ReplacedAt(c, row, a, z, kids) ==
  /\ Len(row) = (a + 1) + z /\ Len(c) = (a + Len(kids)) + z
  /\ \A u \in 1..a : c[u] = row[u]
  /\ \A u \in 1..Len(c), q \in 1..Len(kids) : u = a + q => c[u] = kids[q]
  /\ \A u \in 1..Len(c), v \in 1..Len(row), r \in 1..z :
       u = (a + Len(kids)) + r /\ v = (a + 1) + r => c[u] = row[v]

LEMMA ReplacedShape ==
  ASSUME NEW S, NEW row \in Seq(S), NEW k, Touchable(row, k), NEW kids \in Seq(S)
  PROVE  /\ Replaced(row, k, kids) \in Seq(S)
         /\ \E a, z \in Nat : /\ a + 1 \in DOMAIN row /\ row[a + 1] = k
                              /\ ReplacedAt(Replaced(row, k, kids), row, a, z, kids)
<1>1. PICK a \in Nat, z \in Nat : /\ a + 1 = PlaceOf(row, k) /\ row[a + 1] = k
                                  /\ Len(row) = (a + 1) + z /\ a + 1 \in DOMAIN row
  <2>1. PICK p \in 1..Len(row) : p = PlaceOf(row, k) /\ row[p] = k
    BY PlaceFacts
  <2>2. p - 1 \in Nat /\ Len(row) - p \in Nat /\ (p - 1) + 1 = p /\ p + (Len(row) - p) = Len(row)
    OBVIOUS
  <2>3. PICK a \in Nat, z \in Nat : a = p - 1 /\ z = Len(row) - p
    BY <2>2
  <2>4. a + 1 = p /\ (a + 1) + z = Len(row) /\ p \in DOMAIN row
    BY <2>3
  <2> QED BY <2>1, <2>4
<1> DEFINE before == SubSeq(row, 1, (a + 1) - 1)
           behind == SubSeq(row, (a + 1) + 1, Len(row))
<1>2. before \in Seq(S) /\ Len(before) = a /\ \A u \in 1..a : before[u] = row[u]
  BY <1>1
<1>3. /\ behind \in Seq(S) /\ Len(behind) = z
      /\ \A v \in 1..Len(row), r \in 1..z : v = (a + 1) + r => behind[r] = row[v]
  BY <1>1
<1>4. Replaced(row, k, kids) = (before \o kids) \o behind
  BY <1>1 DEF Replaced
<1> HIDE DEF before, behind
<1>5. PICK many \in Nat : many = Len(kids) /\ DOMAIN kids = 1..many
  OBVIOUS
<1>6. PICK b \in Seq(S), d \in Seq(S) : b = before /\ d = behind
  BY <1>2, <1>3
<1>7. PICK first \in Seq(S) :
        /\ first = b \o kids /\ Len(first) = a + many
        /\ \A u \in 1..a : first[u] = b[u]
        /\ \A u \in 1..(a + many), q \in 1..many : u = a + q => first[u] = kids[q]
  <2>1. b \o kids \in Seq(S) /\ Len(b \o kids) = Len(b) + Len(kids)
    OBVIOUS
  <2>2. PICK f \in Seq(S) : f = b \o kids /\ Len(f) = a + many
    BY <1>2, <1>5, <1>6, <2>1
  <2>3. ASSUME NEW u \in 1..a PROVE f[u] = b[u]
    BY <1>2, <1>5, <1>6, <2>2
  <2>4. ASSUME NEW u \in 1..(a + many), NEW q \in 1..many, u = a + q PROVE f[u] = kids[q]
    <3>1. u \in (a + 1)..(a + many) /\ u - a = q
      BY <2>4
    <3> QED BY <1>2, <1>5, <1>6, <2>2, <3>1
  <2> QED BY <2>2, <2>3, <2>4
<1>8. PICK c \in Seq(S) :
        /\ c = first \o d /\ Len(c) = (a + many) + z
        /\ \A u \in 1..(a + many) : c[u] = first[u]
        /\ \A u \in 1..((a + many) + z), q \in 1..z : u = (a + many) + q => c[u] = d[q]
  <2>0. PICK m \in Nat : m = a + many
    OBVIOUS
  <2>1. first \o d \in Seq(S) /\ Len(first \o d) = Len(first) + Len(d)
    OBVIOUS
  <2>2. PICK f \in Seq(S) : f = first \o d /\ Len(f) = m + z
    BY <1>3, <1>6, <1>7, <2>0, <2>1
  <2>3. ASSUME NEW u \in 1..m PROVE f[u] = first[u]
    BY <1>3, <1>6, <1>7, <2>0, <2>2
  <2>4. ASSUME NEW u \in 1..(m + z), NEW q \in 1..z, u = m + q PROVE f[u] = d[q]
    <3>1. u \in (m + 1)..(m + z) /\ u - m = q
      BY <2>4
    <3>2. Len(first) = m /\ Len(d) = z
      BY <1>3, <1>6, <1>7, <2>0
    <3>3. u \in (Len(first) + 1)..(Len(first) + Len(d)) /\ u - Len(first) = q
      BY <3>1, <3>2
    <3> QED BY <2>2, <3>3
  <2> QED BY <2>0, <2>2, <2>3, <2>4
<1>9. c \in Seq(S) /\ Len(c) = (a + many) + z
  BY <1>8
<1>10. ASSUME NEW u \in 1..(a + many) PROVE c[u] = first[u]
  BY <1>8
<1>11. ASSUME NEW u \in 1..a PROVE c[u] = row[u]
  <2>1. first[u] = b[u] /\ u \in 1..(a + many)
    BY <1>7
  <2> QED BY <1>2, <1>6, <1>10, <2>1
<1>12. ASSUME NEW u \in 1..Len(c), NEW q \in 1..many, u = a + q PROVE c[u] = kids[q]
  <2>1. u \in 1..(a + many)
    BY <1>12
  <2> QED BY <1>7, <1>10, <1>12, <2>1
<1>13. ASSUME NEW u \in 1..Len(c), NEW v \in 1..Len(row), NEW r \in 1..z,
              u = (a + many) + r, v = (a + 1) + r
       PROVE  c[u] = row[v]
  BY <1>3, <1>6, <1>8, <1>13
<1>14. ReplacedAt(c, row, a, z, kids)
  BY <1>1, <1>5, <1>9, <1>11, <1>12, <1>13 DEF ReplacedAt
<1>15. Replaced(row, k, kids) = c
  BY <1>4, <1>6, <1>7, <1>8
<1> QED BY <1>1, <1>9, <1>14, <1>15

\* Who is in the row then, each once if the children were not in it before.
LEMMA ReplacedFacts ==
  ASSUME NEW S, NEW row \in Seq(S), NEW k, Touchable(row, k), NEW kids \in Seq(S),
         IsInjective(row), IsInjective(kids), ToSet(row) \cap ToSet(kids) = {}
  PROVE  /\ Replaced(row, k, kids) \in Seq(S) /\ IsInjective(Replaced(row, k, kids))
         /\ ToSet(Replaced(row, k, kids)) = (ToSet(row) \ {k}) \cup ToSet(kids)
<1>1. PICK c : c = Replaced(row, k, kids)
  OBVIOUS
<1>2. PICK len \in Nat, many \in Nat : /\ len = Len(row) /\ DOMAIN row = 1..len
                                       /\ many = Len(kids) /\ DOMAIN kids = 1..many
  OBVIOUS
<1>3. PICK a \in Nat, z \in Nat : row[a + 1] = k /\ c \in Seq(S) /\ ReplacedAt(c, row, a, z, kids)
  BY <1>1, ReplacedShape
<1>4. len = (a + 1) + z /\ DOMAIN c = 1..((a + many) + z) /\ Len(c) = (a + many) + z
  BY <1>2, <1>3 DEF ReplacedAt
<1> DEFINE NewAt(u, x) == x \in 1..many /\ u = a + x /\ c[u] = kids[x]
           OldAt(u, x) == /\ x \in 1..len /\ c[u] = row[x]
                          /\ \/ u = x /\ x <= a
                             \/ x > a + 1 /\ u + 1 = x + many
<1>5. ASSUME NEW u \in DOMAIN c PROVE \E x : NewAt(u, x) \/ OldAt(u, x)
  <2>0. u \in 1..((a + many) + z)
    BY <1>4
  <2>1. CASE u <= a
    <3>1. u \in 1..a /\ u \in 1..((a + 1) + z)
      BY <2>0, <2>1
    <3>2. OldAt(u, u)
      BY <1>3, <1>4, <2>1, <3>1 DEF ReplacedAt
    <3> QED BY <3>2
  <2>2. CASE a < u /\ u <= a + many
    <3>1. PICK x \in 1..many : u = a + x
      <4>1. u - a \in 1..many /\ u = a + (u - a)
        BY <2>0, <2>2
      <4> QED BY <4>1
    <3>2. NewAt(u, x)
      BY <1>2, <1>3, <1>4, <2>0, <3>1 DEF ReplacedAt
    <3> QED BY <3>2
  <2>3. CASE u > a + many
    <3>1. PICK r \in 1..z : u = (a + many) + r
      <4>1. u - (a + many) \in 1..z /\ u = (a + many) + (u - (a + many))
        BY <2>0, <2>3
      <4> QED BY <4>1
    <3>2. PICK v \in 1..((a + 1) + z) : v = (a + 1) + r
      OBVIOUS
    <3>3. v > a + 1 /\ u + 1 = v + many
      BY <3>1, <3>2
    <3>4. c[u] = row[v]
      BY <1>2, <1>3, <1>4, <2>0, <3>1, <3>2 DEF ReplacedAt
    <3>5. OldAt(u, v)
      BY <1>4, <3>2, <3>3, <3>4
    <3> QED BY <3>5
  <2> QED BY <2>0, <2>1, <2>2, <2>3
<1>6. IsInjective(c)
  <2> SUFFICES ASSUME NEW q \in DOMAIN c, NEW r \in DOMAIN c, c[q] = c[r] PROVE q = r
    BY DEF IsInjective
  <2>1. PICK x : NewAt(q, x) \/ OldAt(q, x)
    BY <1>5
  <2>2. PICK y : NewAt(r, y) \/ OldAt(r, y)
    BY <1>5
  <2>3. \A v \in 1..len, w \in 1..many : row[v] # kids[w]
    BY <1>2 DEF ToSet
  <2>4. CASE NewAt(q, x) /\ NewAt(r, y)
    BY <1>2, <2>4 DEF IsInjective
  <2>5. CASE OldAt(q, x) /\ OldAt(r, y)
    <3>1. x = y
      BY <1>2, <2>5 DEF IsInjective
    <3> QED BY <2>5, <3>1
  <2> QED BY <2>1, <2>2, <2>3, <2>4, <2>5
<1>7. ASSUME NEW x PROVE x \in ToSet(c) <=> x \in (ToSet(row) \ {k}) \cup ToSet(kids)
  <2>1. ASSUME x \in ToSet(c) PROVE x \in (ToSet(row) \ {k}) \cup ToSet(kids)
    <3>1. PICK q \in DOMAIN c : c[q] = x
      BY <2>1 DEF ToSet
    <3>2. PICK y : NewAt(q, y) \/ OldAt(q, y)
      BY <1>5
    <3>3. CASE NewAt(q, y)
      BY <1>2, <3>1, <3>3 DEF ToSet
    <3>4. CASE OldAt(q, y)
      <4>1. y # a + 1 /\ y \in 1..len /\ a + 1 \in 1..len /\ x = row[y]
        BY <1>4, <3>1, <3>4
      <4> QED BY <1>2, <1>3, <4>1 DEF ToSet, IsInjective
    <3> QED BY <3>2, <3>3, <3>4
  <2>2. ASSUME x \in ToSet(kids) PROVE x \in ToSet(c)
    <3>1. PICK q \in 1..many : kids[q] = x
      BY <1>2, <2>2 DEF ToSet
    <3>2. PICK u \in 1..((a + many) + z) : u = a + q
      OBVIOUS
    <3>3. u \in DOMAIN c /\ c[u] = x
      BY <1>2, <1>3, <1>4, <3>1, <3>2 DEF ReplacedAt
    <3> QED BY <3>3 DEF ToSet
  <2>3. ASSUME x \in ToSet(row), x # k PROVE x \in ToSet(c)
    <3>1. PICK q \in 1..((a + 1) + z) : row[q] = x /\ q # a + 1
      BY <1>2, <1>3, <1>4, <2>3 DEF ToSet
    <3>2. CASE q <= a
      <4>1. q \in 1..a /\ q \in 1..((a + many) + z)
        BY <3>2
      <4>2. q \in DOMAIN c /\ c[q] = x
        BY <1>3, <1>4, <3>1, <4>1 DEF ReplacedAt
      <4> QED BY <4>2 DEF ToSet
    <3>3. CASE q > a + 1
      <4>1. PICK r \in 1..z : q = (a + 1) + r
        <5>1. q - (a + 1) \in 1..z /\ q = (a + 1) + (q - (a + 1))
          BY <3>3
        <5> QED BY <5>1
      <4>2. PICK u \in 1..((a + many) + z) : u = (a + many) + r
        OBVIOUS
      <4>3. u \in DOMAIN c /\ c[u] = x
        BY <1>2, <1>3, <1>4, <3>1, <4>1, <4>2 DEF ReplacedAt
      <4> QED BY <4>3 DEF ToSet
    <3> QED BY <3>1, <3>2, <3>3
  <2> QED BY <2>1, <2>2, <2>3
<1> QED BY <1>1, <1>3, <1>6, <1>7

-----------------------------------------------------------------------------
(* The walk of the tree.                                                   *)

\* One row of the walk after another.
Row(is, k) == Unfolded(is)[k]
After(is, k, last) ==
  IF is[k].tag \notin HostTags /\ Touchable(last, k) THEN Replaced(last, k, is[k].kids) ELSE last

\* The rows are what their definition says.
LEMMA RowIs ==
  ASSUME NEW is \in Seq(Instance), Tree(is)
  PROVE  /\ Row(is, 0) = <<Root>>
         /\ \A k \in 1..Len(is) : Row(is, k) = After(is, k, Row(is, k - 1))
<1> DEFINE T == Seq(DOMAIN is)
           base == <<Root>>
           N == Len(is)
           step == [x \in Nat \X T |-> IF x[1] + 1 \in 1..N THEN After(is, x[1] + 1, x[2]) ELSE x[2]]
<1>1. N \in Nat /\ DOMAIN is = 1..N /\ Root \in DOMAIN is
  BY DEF Tree, Root
<1>2. base \in T
  BY <1>1
<1>3. ASSUME NEW k \in 1..N, NEW t \in T PROVE After(is, k, t) \in T
  <2>1. CASE is[k].tag \notin HostTags /\ Touchable(t, k)
    <3>1. is[k].kids \in T
      BY <1>1 DEF Tree, ChildrenOf
    <3>2. Replaced(t, k, is[k].kids) \in T
      BY <2>1, <3>1, ReplacedShape
    <3> QED BY <2>1, <3>2 DEF After
  <2>2. CASE ~(is[k].tag \notin HostTags /\ Touchable(t, k))
    BY <2>2 DEF After
  <2> QED BY <2>1, <2>2
<1>4. \A n \in Nat, t \in T : step[<<n, t>>] = IF n + 1 \in 1..N THEN After(is, n + 1, t) ELSE t
  OBVIOUS
<1> HIDE DEF step, T, base
<1>5. \A n \in Nat, t \in T : step[<<n, t>>] \in T
  <2> TAKE n \in Nat, t \in T
  <2>1. CASE n + 1 \in 1..N
    <3>1. After(is, n + 1, t) \in T
      BY <1>3, <2>1
    <3> QED BY <1>4, <2>1, <3>1
  <2>2. CASE n + 1 \notin 1..N
    BY <1>4, <2>2
  <2> QED BY <2>1, <2>2
<1>6. PICK g \in [Nat -> T] : g[0] = base /\ \A n \in Nat : g[n + 1] = step[<<n, g[n]>>]
  <2>1. Recursive(T, base, step)
    BY <1>2, <1>5, NatRecursion
  <2> QED BY <2>1 DEF Recursive
<1> DEFINE D == 0..N
           Step(f, k) == IF k = 0 THEN base ELSE After(is, k, f[k - 1])
           rows == CHOOSE f : f = [k \in D |-> Step(f, k)]
<1>7. ASSUME NEW n \in Nat, n + 1 \in D PROVE g[n + 1] = After(is, n + 1, g[n])
  <2>1. n + 1 \in 1..N
    BY <1>1, <1>7
  <2> QED BY <1>4, <1>6, <2>1
<1>8. Unfolded(is) = rows
  BY DEF Unfolded, After, base
<1>9. \E f : f = [k \in D |-> Step(f, k)]
  <2> DEFINE h == [k \in D |-> g[k]]
  <2>1. \A k \in D : h[k] = g[k]
    OBVIOUS
  <2>2. \A k \in D : k # 0 => k - 1 \in D /\ k - 1 \in Nat /\ (k - 1) + 1 = k
    BY <1>1
  <2>3. \A k \in D : g[k] = Step(h, k)
    <3> TAKE k \in D
    <3>1. CASE k = 0
      BY <1>6, <3>1
    <3>2. CASE k # 0
      <4>1. k - 1 \in D /\ k - 1 \in Nat /\ (k - 1) + 1 = k
        BY <2>2, <3>2
      <4>2. h[k - 1] = g[k - 1]
        BY <2>1, <4>1
      <4>3. g[k] = After(is, k, g[k - 1])
        BY <1>7, <4>1
      <4> HIDE DEF h
      <4> QED BY <3>2, <4>2, <4>3
    <3> QED BY <3>1, <3>2
  <2>4. h = [k \in D |-> Step(h, k)]
    BY <2>3
  <2> QED BY <2>4
<1>10. rows = [k \in D |-> Step(rows, k)]
  BY <1>9
<1> HIDE DEF rows
<1>11. \A k \in D : rows[k] = Step(rows, k)
  BY <1>10
<1>12. rows[0] = base /\ \A k \in 1..N : rows[k] = After(is, k, rows[k - 1])
  <2>1. 0 \in D /\ \A k \in 1..N : k \in D /\ k # 0
    BY <1>1
  <2> QED BY <1>11, <2>1
<1> QED BY <1>8, <1>12 DEF Row, base

\* One has come into the first k rows in its parent's place.
CameIn(is, m, k) ==
  /\ is[m].under \in 1..k /\ m \in ToSet(is[is[m].under].kids)
  /\ is[m].under \in ToSet(Row(is, is[m].under - 1))

\* Every row has instances of the tree that come after it, and widgets.
RowInv(is, k) ==
  /\ Row(is, k) \in Seq(DOMAIN is) /\ IsInjective(Row(is, k))
  /\ \A m \in ToSet(Row(is, k)) :
       /\ m > k \/ is[m].tag \in HostTags
       /\ m = Root \/ CameIn(is, m, k)

\* A row and the next.
LEMMA NextRow ==
  ASSUME NEW is \in Seq(Instance), Tree(is), NEW k \in 1..Len(is), RowInv(is, k - 1)
  PROVE  /\ RowInv(is, k)
         /\ ToSet(Row(is, k)) = IF is[k].tag \notin HostTags /\ k \in ToSet(Row(is, k - 1))
                                THEN (ToSet(Row(is, k - 1)) \ {k}) \cup ToSet(is[k].kids)
                                ELSE ToSet(Row(is, k - 1))
<1>1. PICK last \in Seq(DOMAIN is) : last = Row(is, k - 1)
  BY DEF RowInv
<1>2. /\ IsInjective(last)
      /\ \A m \in ToSet(last) : /\ m > k - 1 \/ is[m].tag \in HostTags
                                /\ m = Root \/ CameIn(is, m, k - 1)
  BY <1>1 DEF RowInv
<1>3. PICK kids \in Seq(DOMAIN is) : /\ kids = is[k].kids /\ IsInjective(kids)
                                     /\ \A p \in DOMAIN kids : kids[p] > k /\ is[kids[p]].under = k
  BY DEF Tree, ChildrenOf
<1>4. \A m \in ToSet(kids) : m \in DOMAIN is /\ m > k /\ is[m].under = k
  BY <1>3 DEF ToSet
<1>5. \A m \in ToSet(last) : m \in DOMAIN is
  BY DEF ToSet
<1>6. DOMAIN is = 1..Len(is) /\ Len(is) \in Nat
  OBVIOUS
<1>7. Row(is, k) = After(is, k, last)
  BY <1>1, RowIs
<1>8. CASE is[k].tag \notin HostTags /\ k \in ToSet(last)
  <2>1. ToSet(last) \cap ToSet(kids) = {}
    BY <1>2, <1>4, <1>6 DEF Root, CameIn
  <2>2. PICK c : c = Replaced(last, k, kids)
    OBVIOUS
  <2>3. c \in Seq(DOMAIN is) /\ IsInjective(c) /\ ToSet(c) = (ToSet(last) \ {k}) \cup ToSet(kids)
    <3>1. Touchable(last, k)
      BY <1>8, InRow
    <3> QED BY <1>2, <1>3, <2>1, <2>2, <3>1, ReplacedFacts
  <2>4. Row(is, k) = c
    BY <1>3, <1>7, <1>8, <2>2, InRow DEF After
  <2>5. ASSUME NEW m \in ToSet(c)
        PROVE  /\ m > k \/ is[m].tag \in HostTags
               /\ m = Root \/ CameIn(is, m, k)
    <3>1. CASE m \in ToSet(kids)
      <4>1. is[m].under = k /\ m > k /\ m \in ToSet(is[k].kids)
        BY <1>3, <1>4, <3>1
      <4>2. k \in 1..k /\ k \in ToSet(Row(is, k - 1))
        BY <1>1, <1>6, <1>8
      <4> QED BY <4>1, <4>2 DEF CameIn
    <3>2. CASE m \in ToSet(last) /\ m # k
      <4>1. m \in Nat
        BY <1>5, <1>6, <3>2
      <4>2. m > k \/ is[m].tag \in HostTags
        BY <1>2, <1>6, <3>2, <4>1
      <4>3. \A n : n \in 1..k-1 => n \in 1..k
        BY <1>6
      <4> QED BY <1>2, <3>2, <4>2, <4>3 DEF CameIn
    <3> QED BY <2>3, <2>5, <3>1, <3>2
  <2>6. RowInv(is, k)
    BY <2>3, <2>4, <2>5 DEF RowInv
  <2> QED BY <1>1, <1>3, <1>8, <2>3, <2>4, <2>6
<1>9. CASE ~(is[k].tag \notin HostTags /\ k \in ToSet(last))
  <2>1. Row(is, k) = last
    BY <1>7, <1>9, InRow DEF After
  <2>2. ASSUME NEW m \in ToSet(last)
        PROVE  /\ m > k \/ is[m].tag \in HostTags
               /\ m = Root \/ CameIn(is, m, k)
    <3>1. m \in Nat
      BY <1>5, <1>6
    <3>2. m = k => is[m].tag \in HostTags
      BY <1>9
    <3>3. m > k \/ is[m].tag \in HostTags
      BY <1>2, <1>6, <3>1, <3>2
    <3>4. \A n : n \in 1..k-1 => n \in 1..k
      BY <1>6
    <3> QED BY <1>2, <3>3, <3>4 DEF CameIn
  <2>3. RowInv(is, k)
    BY <1>2, <2>1, <2>2 DEF RowInv
  <2> QED BY <1>1, <1>9, <2>1, <2>3
<1> QED BY <1>8, <1>9

LEMMA Rows ==
  ASSUME NEW is \in Seq(Instance), Tree(is)
  PROVE  \A k \in 0..Len(is) : RowInv(is, k)
<1> DEFINE U == {k \in Nat : k <= Len(is) => RowInv(is, k)}
<1>1. 0 \in U
  <2>1. Row(is, 0) = <<Root>> /\ Root \in DOMAIN is
    BY RowIs DEF Tree, Root
  <2>2. /\ <<Root>> \in Seq(DOMAIN is) /\ DOMAIN <<Root>> = {1} /\ <<Root>>[1] = Root
    BY <2>1
  <2>3. ToSet(<<Root>>) = {Root} /\ IsInjective(<<Root>>)
    BY <2>2 DEF ToSet, IsInjective
  <2>4. RowInv(is, 0)
    <3>1. \A m \in ToSet(Row(is, 0)) : m = Root /\ m > 0
      BY <2>1, <2>3 DEF Root
    <3> QED BY <2>1, <2>2, <2>3, <3>1 DEF RowInv
  <2> QED BY <2>4
<1>2. ASSUME NEW k \in Nat, k \in U PROVE k + 1 \in U
  <2> SUFFICES ASSUME k + 1 <= Len(is) PROVE RowInv(is, k + 1)
    OBVIOUS
  <2>1. k + 1 \in 1..Len(is) /\ (k + 1) - 1 = k /\ k <= Len(is)
    OBVIOUS
  <2>2. RowInv(is, (k + 1) - 1)
    BY <1>2, <2>1
  <2> HIDE DEF U
  <2> QED BY <2>1, <2>2, NextRow
<1> HIDE DEF U
<1>3. Nat \subseteq U
  BY <1>1, <1>2, NatSetInduction
<1> QED BY <1>3 DEF U

\* Who has come and is a widget, or is not to be replaced yet, is still there.
LEMMA Stays ==
  ASSUME NEW is \in Seq(Instance), Tree(is), NEW k \in 0..Len(is), NEW m \in ToSet(Row(is, k))
  PROVE  \A j \in k..Len(is) : is[m].tag \in HostTags \/ m > j => m \in ToSet(Row(is, j))
<1> DEFINE U == {j \in Nat : j \in k..Len(is) => (is[m].tag \in HostTags \/ m > j => m \in ToSet(Row(is, j)))}
<1>0. m \in Nat
  <2>1. Row(is, k) \in Seq(DOMAIN is)
    BY Rows DEF RowInv
  <2> QED BY <2>1 DEF ToSet
<1>1. 0 \in U
  BY <1>0
<1>2. ASSUME NEW j \in Nat, j \in U PROVE j + 1 \in U
  <2> SUFFICES ASSUME j + 1 \in k..Len(is), is[m].tag \in HostTags \/ m > j + 1
               PROVE  m \in ToSet(Row(is, j + 1))
    OBVIOUS
  <2>1. CASE j + 1 = k
    BY <2>1
  <2>2. CASE j + 1 # k
    <3>1. j \in k..Len(is) /\ j \in 0..Len(is) /\ j + 1 \in 1..Len(is) /\ (j + 1) - 1 = j
      BY <2>2
    <3>2. m \in ToSet(Row(is, j))
      BY <1>0, <1>2, <3>1
    <3>3. RowInv(is, (j + 1) - 1)
      BY <3>1, Rows
    <3>4. ToSet(Row(is, j + 1)) = IF is[j + 1].tag \notin HostTags /\ j + 1 \in ToSet(Row(is, (j + 1) - 1))
                                  THEN (ToSet(Row(is, (j + 1) - 1)) \ {j + 1}) \cup ToSet(is[j + 1].kids)
                                  ELSE ToSet(Row(is, (j + 1) - 1))
      BY <3>1, <3>3, NextRow
    <3> QED BY <1>0, <3>1, <3>2, <3>4
  <2> QED BY <2>1, <2>2
<1> HIDE DEF U
<1>3. Nat \subseteq U
  BY <1>1, <1>2, NatSetInduction
<1> QED BY <1>3 DEF U

\* The walk comes to whoever is below the root, and ends with the widgets.
LEMMA TreeFacts ==
  ASSUME NEW is \in Seq(Instance), Tree(is)
  PROVE  /\ Root \in InTree(is) /\ InTree(is) \subseteq DOMAIN is
         /\ \A n \in InTree(is) : ToSet(is[n].kids) \subseteq InTree(is)
         /\ \A i \in InTree(is) \ {Root} :
              is[i].under \in InTree(is) /\ is[i].under \in 1..i-1 /\ i \in ToSet(is[is[i].under].kids)
         /\ Collect(is) \in Seq(DOMAIN is) /\ IsInjective(Collect(is))
         /\ ToSet(Collect(is)) = {i \in InTree(is) : is[i].tag \in HostTags}
<1> DEFINE N == Len(is)
<1>1. N \in Nat /\ DOMAIN is = 1..N /\ Root \in DOMAIN is
  BY DEF Tree, Root
<1>2. \A i : i \in InTree(is) <=> \E k \in 0..N : i \in ToSet(Row(is, k))
  BY DEF InTree, Row
<1>3. \A k \in 0..N : RowInv(is, k)
  BY Rows
<1>4. Root \in InTree(is)
  <2>1. Row(is, 0) = <<Root>> /\ 0 \in 0..N
    BY <1>1, RowIs
  <2>2. DOMAIN <<Root>> = {1} /\ <<Root>>[1] = Root
    OBVIOUS
  <2> QED BY <1>2, <2>1, <2>2 DEF ToSet
<1>5. InTree(is) \subseteq DOMAIN is
  <2> SUFFICES ASSUME NEW i, NEW k \in 0..N, i \in ToSet(Row(is, k)) PROVE i \in DOMAIN is
    BY <1>2
  <2>1. Row(is, k) \in Seq(DOMAIN is)
    BY <1>3 DEF RowInv
  <2> QED BY <2>1 DEF ToSet
<1>6. ASSUME NEW n \in InTree(is), NEW c \in ToSet(is[n].kids) PROVE c \in InTree(is)
  <2>1. n \in 1..N /\ n \in DOMAIN is
    BY <1>1, <1>5
  <2>2. is[n].tag \notin HostTags
    BY <2>1 DEF Tree, ToSet
  <2>3. PICK k \in 0..N : n \in ToSet(Row(is, k))
    BY <1>2
  <2>4. n > k
    BY <1>3, <2>2, <2>3 DEF RowInv
  <2>5. n - 1 \in k..N /\ n > n - 1 /\ n - 1 \in 0..N
    BY <2>1, <2>4
  <2>6. n \in ToSet(Row(is, n - 1))
    BY <2>3, <2>5, Stays
  <2>7. ToSet(Row(is, n)) = (ToSet(Row(is, n - 1)) \ {n}) \cup ToSet(is[n].kids)
    BY <1>3, <2>1, <2>2, <2>5, <2>6, NextRow
  <2>8. n \in 0..N
    BY <2>1
  <2> QED BY <1>2, <2>7, <2>8
<1>7. ASSUME NEW i \in InTree(is), i # Root
      PROVE  is[i].under \in InTree(is) /\ is[i].under \in 1..i-1 /\ i \in ToSet(is[is[i].under].kids)
  <2>1. PICK k \in 0..N : i \in ToSet(Row(is, k))
    BY <1>2
  <2>2. CameIn(is, i, k)
    BY <1>3, <1>7, <2>1 DEF RowInv
  <2>3. is[i].under \in 1..i-1
    BY <1>5, <1>7 DEF Tree
  <2>4. i \in 1..N
    BY <1>1, <1>5
  <2>5. is[i].under - 1 \in 0..N
    BY <2>3, <2>4
  <2> QED BY <1>2, <2>2, <2>3, <2>5 DEF CameIn
<1>8. Collect(is) = Row(is, N) /\ RowInv(is, N)
  BY <1>1, <1>3 DEF Collect, Row
<1>9. Collect(is) \in Seq(DOMAIN is) /\ IsInjective(Collect(is))
  BY <1>8 DEF RowInv
<1>10. ASSUME NEW i \in ToSet(Collect(is)) PROVE i \in InTree(is) /\ is[i].tag \in HostTags
  <2>1. N \in 0..N
    BY <1>1
  <2>2. i \in InTree(is)
    BY <1>2, <1>8, <2>1
  <2>3. i \in 1..N
    BY <1>1, <1>5, <2>2
  <2>4. ~(i > N)
    BY <1>1, <2>3
  <2> QED BY <1>8, <2>2, <2>4 DEF RowInv
<1>11. ASSUME NEW i \in InTree(is), is[i].tag \in HostTags PROVE i \in ToSet(Collect(is))
  <2>1. PICK k \in 0..N : i \in ToSet(Row(is, k))
    BY <1>2
  <2>2. N \in k..N
    BY <1>1
  <2> QED BY <1>8, <1>11, <2>1, <2>2, Stays
<1> QED BY <1>4, <1>5, <1>6, <1>7, <1>9, <1>10, <1>11

\* What is nowhere in the tree makes no difference to the walk, nor what is made later.
LEMMA SameWalk ==
  ASSUME NEW is \in Seq(Instance), NEW js \in Seq(Instance), Tree(is), Tree(js), Len(is) <= Len(js),
         \A i \in InTree(is) : js[i].kids = is[i].kids /\ js[i].tag = is[i].tag
  PROVE  Collect(js) = Collect(is) /\ InTree(js) = InTree(is)
<1> DEFINE N == Len(is)
           M == Len(js)
           until(k) == IF k <= N THEN k ELSE N
           U == {k \in Nat : k <= M => Row(js, k) = Row(is, until(k))}
<1>1. N \in Nat /\ M \in Nat /\ DOMAIN is = 1..N /\ DOMAIN js = 1..M
  OBVIOUS
<1>0. \A k \in Nat : until(k) = (IF k <= N THEN k ELSE N)
  OBVIOUS
<1>2. \A i : i \in InTree(is) <=> \E k \in 0..N : i \in ToSet(Row(is, k))
  BY DEF InTree, Row
<1>3. \A i : i \in InTree(js) <=> \E k \in 0..M : i \in ToSet(Row(js, k))
  BY DEF InTree, Row
<1> HIDE DEF until
<1>4. 0 \in U
  <2>1. until(0) = 0
    BY <1>0, <1>1
  <2> QED BY <2>1, RowIs
<1>5. ASSUME NEW k \in Nat, k \in U PROVE k + 1 \in U
  <2> SUFFICES ASSUME k + 1 <= M PROVE Row(js, k + 1) = Row(is, until(k + 1))
    OBVIOUS
  <2>1. Row(js, k) = Row(is, until(k)) /\ k + 1 \in 1..M /\ (k + 1) - 1 = k
    BY <1>1, <1>5
  <2>2. Row(js, k + 1) = After(js, k + 1, Row(is, until(k)))
    BY <2>1, RowIs
  <2>3. CASE k + 1 <= N
    <3>1. until(k) = k /\ until(k + 1) = k + 1 /\ k + 1 \in 1..N /\ k \in 0..N
      BY <1>0, <1>1, <2>3
    <3>2. Row(is, k + 1) = After(is, k + 1, Row(is, k))
      BY <2>1, <3>1, RowIs
    <3>3. CASE Touchable(Row(is, k), k + 1)
      <4>1. k + 1 \in InTree(is)
        BY <1>2, <3>1, <3>3, InRow
      <4> QED BY <2>2, <3>1, <3>2, <4>1 DEF After
    <3>4. CASE ~Touchable(Row(is, k), k + 1)
      BY <2>2, <3>1, <3>2, <3>4 DEF After
    <3> QED BY <3>3, <3>4
  <2>4. CASE ~(k + 1 <= N)
    <3>1. until(k) = N /\ until(k + 1) = N /\ k + 1 \notin 1..N /\ N \in 0..N
      BY <1>0, <1>1, <2>4
    <3>2. k + 1 \notin ToSet(Row(is, N))
      BY <1>1, <1>2, <3>1, TreeFacts
    <3>3. ~Touchable(Row(is, N), k + 1)
      BY <3>2, InRow
    <3> QED BY <2>2, <3>1, <3>3 DEF After
  <2> QED BY <2>3, <2>4
<1> HIDE DEF U
<1>6. Nat \subseteq U
  BY <1>4, <1>5, NatSetInduction
<1>7. \A k \in 0..M : Row(js, k) = Row(is, until(k)) /\ until(k) \in 0..N
  BY <1>0, <1>1, <1>6 DEF U
<1>8. Collect(js) = Collect(is)
  <2>1. M \in 0..M /\ until(M) = N
    BY <1>0, <1>1
  <2> QED BY <1>7, <2>1 DEF Collect, Row
<1>9. \A k \in 0..N : k \in 0..M /\ until(k) = k
  BY <1>0, <1>1
<1>10. \A i : i \in InTree(js) <=> i \in InTree(is)
  BY <1>2, <1>3, <1>7, <1>9
<1> QED BY <1>8, <1>10

\* If nothing live has a dead child there is nothing dead in the tree.
LEMMA LiveTree ==
  ASSUME NEW is \in Seq(Instance), Tree(is), NEW dead, Root \notin dead,
         \A n \in DOMAIN is \ dead : ToSet(is[n].kids) \cap dead = {}
  PROVE  InTree(is) \cap dead = {}
<1> DEFINE U == {k \in Nat : \A i \in InTree(is) : i <= k => i \notin dead}
<1>1. \A i \in InTree(is) : i \in Nat /\ i > 0
  <2>1. DOMAIN is = 1..Len(is)
    OBVIOUS
  <2> QED BY <2>1, TreeFacts
<1>2. 0 \in U
  BY <1>1
<1>3. ASSUME NEW k \in Nat, k \in U PROVE k + 1 \in U
  <2> SUFFICES ASSUME NEW i \in InTree(is), i <= k + 1 PROVE i \notin dead
    OBVIOUS
  <2>1. CASE i = Root
    BY <2>1
  <2>2. CASE i # Root
    <3>1. is[i].under \in InTree(is) /\ is[i].under \in 1..i-1 /\ i \in ToSet(is[is[i].under].kids)
      BY <2>2, TreeFacts
    <3>2. is[i].under <= k
      BY <1>1, <3>1
    <3>3. is[i].under \notin dead /\ is[i].under \in DOMAIN is
      BY <1>3, <3>1, <3>2, TreeFacts
    <3> QED BY <3>1, <3>3
  <2> QED BY <2>1, <2>2
<1> HIDE DEF U
<1>4. Nat \subseteq U
  BY <1>2, <1>3, NatSetInduction
<1> QED BY <1>1, <1>4 DEF U

\* If whoever is live is the child of somebody live, all who are live are in the tree.
LEMMA WholeTree ==
  ASSUME NEW is \in Seq(Instance), Tree(is), NEW dead,
         \A i \in DOMAIN is \ (dead \cup {Root}) : is[i].under \notin dead /\ i \in ToSet(is[is[i].under].kids)
  PROVE  DOMAIN is \ dead \subseteq InTree(is)
<1> DEFINE U == {k \in Nat : \A i \in DOMAIN is \ dead : i <= k => i \in InTree(is)}
<1>1. DOMAIN is = 1..Len(is)
  OBVIOUS
<1>2. 0 \in U
  BY <1>1
<1>3. ASSUME NEW k \in Nat, k \in U PROVE k + 1 \in U
  <2> SUFFICES ASSUME NEW i \in DOMAIN is \ dead, i <= k + 1 PROVE i \in InTree(is)
    OBVIOUS
  <2>1. CASE i = Root
    BY <2>1, TreeFacts
  <2>2. CASE i # Root
    <3>1. is[i].under \in 1..i-1 /\ is[i].under \notin dead /\ i \in ToSet(is[is[i].under].kids)
      BY <2>2 DEF Tree
    <3>2. is[i].under \in DOMAIN is \ dead /\ is[i].under <= k
      BY <1>1, <3>1
    <3>3. is[i].under \in InTree(is)
      BY <1>3, <3>2
    <3> QED BY <3>1, <3>3, TreeFacts
  <2> QED BY <2>1, <2>2
<1> HIDE DEF U
<1>4. Nat \subseteq U
  BY <1>2, <1>3, NatSetInduction
<1> QED BY <1>1, <1>4 DEF U

-----------------------------------------------------------------------------
(* Beginnings of a row.                                                    *)

LEMMA PrefixIs ==
  ASSUME NEW S, NEW s \in Seq(S), NEW t \in Seq(S)
  PROVE  IsPrefix(s, t) <=> Len(s) <= Len(t) /\ \A p \in 1..Len(s) : s[p] = t[p]
<1>1. PICK a \in Seq(S) : a = SubSeq(s, 1, Len(s)) /\ Len(a) = Len(s) /\ \A p \in 1..Len(s) : a[p] = s[p]
  OBVIOUS
<1>2. ASSUME Len(s) <= Len(t)
      PROVE  \E b \in Seq(S) : /\ b = SubSeq(t, 1, Len(s)) /\ Len(b) = Len(s)
                               /\ \A p \in 1..Len(s) : b[p] = t[p]
  <2>1. /\ SubSeq(t, 1, Len(s)) \in Seq(S) /\ Len(SubSeq(t, 1, Len(s))) = Len(s)
        /\ \A p \in 1..Len(s) : SubSeq(t, 1, Len(s))[p] = t[p]
    BY <1>2
  <2> QED BY <2>1, Zenon
<1>3. ASSUME IsPrefix(s, t) PROVE Len(s) <= Len(t) /\ \A p \in 1..Len(s) : s[p] = t[p]
  BY <1>1, <1>2, <1>3 DEF IsPrefix
<1>4. ASSUME Len(s) <= Len(t), \A p \in 1..Len(s) : s[p] = t[p] PROVE IsPrefix(s, t)
  <2>1. PICK b \in Seq(S) : /\ b = SubSeq(t, 1, Len(s)) /\ Len(b) = Len(s)
                            /\ \A p \in 1..Len(s) : b[p] = t[p]
    BY <1>2, <1>4
  <2>2. \A p \in 1..Len(s) : a[p] = b[p]
    BY <1>1, <1>4, <2>1
  <2>3. a = b
    BY <1>1, <2>1, <2>2
  <2> QED BY <1>1, <1>4, <2>1, <2>3 DEF IsPrefix
<1> QED BY <1>3, <1>4

LEMMA PrefixAppend ==
  ASSUME NEW S, NEW s \in Seq(S), NEW t \in Seq(S), NEW w \in S, IsPrefix(s, t)
  PROVE  IsPrefix(s, Append(t, w))
<1>1. Len(s) <= Len(t) /\ \A p \in 1..Len(s) : s[p] = t[p]
  BY PrefixIs
<1>2. PICK c \in Seq(S) : c = Append(t, w) /\ Len(c) = Len(t) + 1 /\ \A p \in 1..Len(t) : c[p] = t[p]
  <2>1. /\ Append(t, w) \in Seq(S) /\ Len(Append(t, w)) = Len(t) + 1
        /\ \A p \in 1..Len(t) : Append(t, w)[p] = t[p]
    OBVIOUS
  <2> QED BY <2>1, Zenon
<1>3. Len(s) <= Len(c) /\ \A p \in 1..Len(s) : s[p] = c[p]
  BY <1>1, <1>2
<1> QED BY <1>2, <1>3, PrefixIs

\* A row that begins with all there is to it.
LEMMA PrefixWhole ==
  ASSUME NEW S, NEW s \in Seq(S), NEW t \in Seq(S), IsPrefix(s, t), IsInjective(t), ToSet(t) \subseteq ToSet(s)
  PROVE  t = s
<1>1. Len(s) <= Len(t) /\ \A p \in 1..Len(s) : s[p] = t[p]
  BY PrefixIs
<1>2. ASSUME NEW q \in 1..Len(t) PROVE q \in 1..Len(s)
  <2>1. PICK p \in 1..Len(s) : s[p] = t[q]
    <3>1. t[q] \in ToSet(t)
      BY DEF ToSet
    <3>2. t[q] \in ToSet(s)
      BY <3>1
    <3> QED BY <3>2 DEF ToSet
  <2>2. t[p] = t[q] /\ p \in DOMAIN t /\ q \in DOMAIN t
    BY <1>1, <2>1
  <2> QED BY <2>1, <2>2 DEF IsInjective
<1>3. Len(t) <= Len(s)
  BY <1>2
<1> QED BY <1>1, <1>3

\* If reorder() gets to all of them, the widgets of the tree come first.
LEMMA PrefixOrdered ==
  ASSUME NEW S, NEW row \in Seq(S), IsInjective(row), NEW widgets \in Seq(S), IsInjective(widgets)
  PROVE  /\ Ordered(row, widgets) \in Seq(S) /\ IsInjective(Ordered(row, widgets))
         /\ ToSet(Ordered(row, widgets)) = ToSet(row)
         /\ Asked(row, widgets) = DOMAIN widgets => IsPrefix(widgets, Ordered(row, widgets))
<1>1. PICK b \in Arrangements(row) : b = Ordered(row, widgets)
  BY ReorderPlaces
<1>2. /\ b \in [DOMAIN row -> Range(row)] /\ \A p, q \in DOMAIN row : b[p] = b[q] => p = q
      /\ \A w \in Range(row) : Touchable(b, w)
  BY DEF Arrangements
<1>3. b \in Seq(S) /\ Len(b) = Len(row) /\ DOMAIN b = DOMAIN row
  <2>1. Range(row) \subseteq S
    BY DEF Range
  <2>2. b \in [1..Len(row) -> S]
    BY <1>2, <2>1
  <2> QED BY <2>2
<1>4. ToSet(b) = ToSet(row)
  <2>1. ToSet(row) = Range(row)
    BY DEF ToSet, Range
  <2>2. \A w \in ToSet(b) : w \in Range(row)
    BY <1>2 DEF ToSet
  <2>3. \A w \in Range(row) : w \in ToSet(b)
    BY <1>2, InRow
  <2> QED BY <2>1, <2>2, <2>3
<1>5. IsInjective(b)
  BY <1>2, <1>3 DEF IsInjective
<1>6. ASSUME Asked(row, widgets) = DOMAIN widgets PROVE IsPrefix(widgets, b)
  <2>1. \A n \in 1..Len(widgets) : n \in 1..Len(row) /\ b[n] = widgets[n]
    BY <1>1, <1>6, ReorderPlaces
  <2>2. Len(widgets) <= Len(b)
    BY <1>3, <2>1
  <2> QED BY <1>3, <2>1, <2>2, PrefixIs
<1> QED BY <1>1, <1>3, <1>4, <1>5, <1>6

-----------------------------------------------------------------------------
(* What is made and what is rendered leaves what is said of rows as it is. *)

\* The instances as they were made, those that have rendered, and maybe younger ones.
Grown(js, is) ==
  /\ DOMAIN is \subseteq DOMAIN js
  /\ \A i \in DOMAIN is : /\ js[i].tag = is[i].tag /\ js[i].key = is[i].key /\ js[i].under = is[i].under
                          /\ is[i].mounted => js[i].mounted

LEMMA GrownRow ==
  ASSUME NEW is, NEW js, Grown(js, is), NEW n, NEW row, NEW elems, ChildrenOf(is, n, row)
  PROVE  ChildrenOf(js, n, row) /\ (Matches(is, row, elems) => Matches(js, row, elems))
<1>1. row \in Seq(DOMAIN is) /\ \A p \in DOMAIN row : row[p] \in DOMAIN is
  BY DEF ChildrenOf
<1>2. row \in Seq(DOMAIN js)
  <2>1. DOMAIN is \subseteq DOMAIN js
    BY DEF Grown
  <2>2. \A p \in 1..Len(row) : row[p] \in DOMAIN js
    BY <1>1, <2>1
  <2> QED BY <1>1, <2>2
<1>3. ChildrenOf(js, n, row)
  BY <1>1, <1>2 DEF ChildrenOf, Grown
<1>4. ASSUME Matches(is, row, elems) PROVE Matches(js, row, elems)
  BY <1>1, <1>4 DEF Matches, Compatible, Grown
<1> QED BY <1>3, <1>4

LEMMA GrownFrame ==
  ASSUME NEW is, NEW js, Grown(js, is), NEW f, FrameInv(is, f), ChildrenOf(is, f.owner, is[f.owner].kids),
         js[f.owner].kids = is[f.owner].kids,
         f.mode = "mount" => \A n \in DOMAIN js : f.owner \notin ToSet(js[n].kids)
  PROVE  FrameInv(js, f)
<1>1. PICK old : old = is[f.owner].kids /\ old = js[f.owner].kids
  OBVIOUS
<1>2. f.owner \in DOMAIN js /\ js[f.owner].tag \notin HostTags
  BY DEF FrameInv, Grown
<1>3. ChildrenOf(js, f.owner, f.next) /\ Matches(js, f.next, f.elems)
  BY GrownRow DEF FrameInv
<1>4. \A p \in DOMAIN old : old[p] \in DOMAIN is
  BY <1>1 DEF ChildrenOf
<1>5. \A p \in DOMAIN old : \A e : Compatible(js[old[p]], e) <=> Compatible(is[old[p]], e)
  BY <1>4 DEF Compatible, Grown
<1>6. f.dropped \subseteq DOMAIN old
  BY <1>1 DEF FrameInv
<1>7. MountFrame(js, f)
  BY <1>1 DEF FrameInv, MountFrame
<1>8. PositionFrame(js, f)
  <2>1. \A p \in DOMAIN old : js[old[p]].key = is[old[p]].key
    BY <1>4 DEF Grown
  <2>2. PositionFrame(is, f)
    BY DEF FrameInv
  <2> QED BY <1>1, <1>5, <1>6, <2>1, <2>2 DEF PositionFrame
<1>9. KeyFrame(js, f)
  <2>1. KeyFrame(is, f)
    BY DEF FrameInv
  <2>2. \A p \in DOMAIN old : \A e : OnlyOne(js, old, p, e) <=> OnlyOne(is, old, p, e)
    BY <1>5 DEF OnlyOne
  <2> QED BY <1>1, <2>1, <2>2 DEF KeyFrame
<1> QED BY <1>1, <1>2, <1>3, <1>7, <1>8, <1>9 DEF FrameInv

\* A diff gone on with the next element.
With(f, i, new) == [f EXCEPT !.next = Append(@, i), !.structural = @ \/ new]

\* That instance may be what it goes on with.
Fits(is, f, i, new) ==
  LET old == is[f.owner].kids
      place == Len(f.next) + 1 IN
  /\ place <= Len(f.elems)
  /\ i \in DOMAIN is /\ i > f.owner /\ is[i].under = f.owner /\ i \notin ToSet(f.next)
  /\ Compatible(is[i], f.elems[place]) /\ (is[i].tag \in HostTags \/ is[i].mounted)
  /\ \A p \in f.dropped : old[p] # i
  /\ ~new => i \in ToSet(old)
  /\ f.mode = "position" /\ i \in ToSet(old) => place \in DOMAIN old /\ i = old[place]
  /\ f.mode = "key" /\ f.elems[place].key # NoKey =>
       \A p \in DOMAIN old : OnlyOne(is, old, p, f.elems[place]) => old[p] = i \/ old[p] \in ToSet(f.next)

LEMMA WithIs ==
  ASSUME NEW f \in FrameType, NEW i \in Nat, NEW new \in BOOLEAN
  PROVE  /\ With(f, i, new) \in FrameType
         /\ With(f, i, new).owner = f.owner /\ With(f, i, new).elems = f.elems /\ With(f, i, new).mode = f.mode
         /\ With(f, i, new).dropped = f.dropped /\ With(f, i, new).next = Append(f.next, i)
         /\ ~With(f, i, new).structural => ~f.structural /\ ~new
<1>1. Append(f.next, i) \in Seq(Nat) /\ (f.structural \/ new) \in BOOLEAN
  BY DEF FrameType
<1>2. With(f, i, new) = [f EXCEPT !.next = Append(f.next, i), !.structural = (f.structural \/ new)]
  BY DEF With
<1>3. With(f, i, new) \in FrameType
  BY <1>1, <1>2 DEF FrameType
<1>4. /\ With(f, i, new).owner = f.owner /\ With(f, i, new).elems = f.elems /\ With(f, i, new).mode = f.mode
      /\ With(f, i, new).dropped = f.dropped /\ With(f, i, new).next = Append(f.next, i)
  BY DEF With, FrameType
<1>5. With(f, i, new).structural = (f.structural \/ new)
  BY DEF With, FrameType
<1> QED BY <1>3, <1>4, <1>5

LEMMA TookFrame ==
  ASSUME NEW is, NEW f \in FrameType, FrameInv(is, f), NEW i \in Nat, NEW new \in BOOLEAN,
         Fits(is, f, i, new)
  PROVE  FrameInv(is, With(f, i, new))
<1>0. PICK old, place :
        /\ old = is[f.owner].kids /\ place = Len(f.next) + 1 /\ place <= Len(f.elems)
        /\ i \in DOMAIN is /\ i > f.owner /\ is[i].under = f.owner /\ i \notin ToSet(f.next)
        /\ Compatible(is[i], f.elems[place]) /\ (is[i].tag \in HostTags \/ is[i].mounted)
        /\ \A p \in f.dropped : old[p] # i
        /\ ~new => i \in ToSet(old)
        /\ f.mode = "position" /\ i \in ToSet(old) => place \in DOMAIN old /\ i = old[place]
        /\ f.mode = "key" /\ f.elems[place].key # NoKey =>
             \A p \in DOMAIN old : OnlyOne(is, old, p, f.elems[place]) => old[p] = i \/ old[p] \in ToSet(f.next)
  BY DEF Fits
<1> DEFINE g == With(f, i, new)
<1> USE <1>0
<1>1. /\ f.next \in Seq(Nat) /\ f.elems \in Seq(Elements) /\ f.structural \in BOOLEAN
      /\ f.next \in Seq(DOMAIN is)
  BY DEF FrameType, FrameInv, ChildrenOf
<1>2. PICK next : next = Append(f.next, i)
  OBVIOUS
<1>3. /\ next \in Seq(DOMAIN is) /\ Len(next) = place /\ next[place] = i
      /\ DOMAIN next = 1..place /\ place \in Nat \ {0}
      /\ \A p \in DOMAIN f.next : next[p] = f.next[p]
      /\ DOMAIN f.next = 1..(place - 1)
  BY <1>1, <1>2
<1>4. \A p \in DOMAIN next : p = place \/ p \in DOMAIN f.next
  BY <1>3
<1>5. /\ g.owner = f.owner /\ g.elems = f.elems /\ g.mode = f.mode /\ g.dropped = f.dropped
      /\ g.next = next /\ (~g.structural => ~f.structural /\ ~new)
  BY <1>0, <1>2, WithIs
<1> HIDE DEF g
<1>6. ToSet(next) = ToSet(f.next) \cup {i}
  <2>1. place \in DOMAIN next /\ \A p \in DOMAIN f.next : p \in DOMAIN next
    BY <1>3
  <2> QED BY <1>3, <1>4, <2>1 DEF ToSet
<1>7. ChildrenOf(is, g.owner, g.next)
  <2>1. IsInjective(next)
    BY <1>3, <1>4 DEF FrameInv, ChildrenOf, IsInjective, ToSet
  <2>2. \A p \in DOMAIN next : next[p] > f.owner /\ is[next[p]].under = f.owner
    BY <1>3, <1>4 DEF FrameInv, ChildrenOf
  <2> QED BY <1>3, <1>5, <2>1, <2>2 DEF ChildrenOf
<1>8. Matches(is, g.next, g.elems)
  <2>1. \A p \in DOMAIN next :
          Compatible(is[next[p]], f.elems[p]) /\ (is[next[p]].tag \in HostTags \/ is[next[p]].mounted)
    BY <1>3, <1>4 DEF FrameInv, Matches
  <2> QED BY <1>3, <1>5, <2>1 DEF Matches
<1>9. /\ g.dropped \subseteq DOMAIN old /\ \A p \in g.dropped : old[p] \notin ToSet(g.next)
      /\ ~g.structural => g.dropped = {} /\ ToSet(g.next) \subseteq ToSet(old)
  <2>1. f.dropped \subseteq DOMAIN old /\ \A p \in f.dropped : old[p] \notin ToSet(f.next)
    BY DEF FrameInv
  <2>2. ~f.structural => f.dropped = {} /\ ToSet(f.next) \subseteq ToSet(old)
    BY DEF FrameInv
  <2>3. ASSUME ~g.structural PROVE g.dropped = {} /\ ToSet(g.next) \subseteq ToSet(old)
    <3>1. ~f.structural /\ ~new
      BY <1>5, <2>3, Zenon
    <3> QED BY <1>5, <1>6, <2>2, <3>1
  <2>4. g.dropped \subseteq DOMAIN old /\ \A p \in g.dropped : old[p] \notin ToSet(g.next)
    <3>1. g.dropped = f.dropped /\ g.next = next
      BY <1>5
    <3>2. \A p \in f.dropped : old[p] \notin ToSet(next)
      BY <1>6, <2>1
    <3> QED BY <2>1, <3>1, <3>2, Zenon
  <2> QED BY <2>3, <2>4
<1>10. MountFrame(is, g)
  BY <1>5 DEF FrameInv, MountFrame
<1>11. PositionFrame(is, g)
  <2> SUFFICES ASSUME f.mode = "position" PROVE PositionFrame(is, g)
    BY <1>5 DEF PositionFrame
  <2>1. /\ \A p \in DOMAIN f.next : f.next[p] \in ToSet(old) => p \in DOMAIN old /\ f.next[p] = old[p]
        /\ \A p \in f.dropped \cap (Len(f.next)+1..Len(f.elems)) : ~Compatible(is[old[p]], f.elems[p])
        /\ \A p \in DOMAIN old : is[old[p]].key = NoKey
    BY DEF FrameInv, PositionFrame
  <2>2. \A p \in DOMAIN next : next[p] \in ToSet(old) => p \in DOMAIN old /\ next[p] = old[p]
    BY <1>3, <1>4, <2>1
  <2>3. \A p \in f.dropped \cap (Len(next)+1..Len(f.elems)) : ~Compatible(is[old[p]], f.elems[p])
    <3>1. \A p \in Len(next)+1..Len(f.elems) : p \in Len(f.next)+1..Len(f.elems)
      BY <1>1, <1>3
    <3> QED BY <2>1, <3>1
  <2> QED BY <1>5, <2>1, <2>2, <2>3 DEF PositionFrame
<1>12. KeyFrame(is, g)
  <2> SUFFICES ASSUME f.mode = "key" PROVE KeyFrame(is, g)
    BY <1>5 DEF KeyFrame
  <2>1. /\ f.dropped # {} => Len(f.next) = Len(f.elems)
        /\ \A p \in DOMAIN old, j \in DOMAIN f.next :
             f.elems[j].key # NoKey /\ OnlyOne(is, old, p, f.elems[j]) => old[p] \in ToSet(f.next)
    BY DEF FrameInv, KeyFrame
  <2>2. f.dropped = {}
    BY <1>1, <2>1
  <2>3. ASSUME NEW p \in DOMAIN old, NEW j \in DOMAIN next,
               f.elems[j].key # NoKey, OnlyOne(is, old, p, f.elems[j])
        PROVE  old[p] \in ToSet(next)
    <3>1. CASE j = place
      BY <1>6, <2>3, <3>1
    <3>2. CASE j \in DOMAIN f.next
      BY <1>6, <2>1, <2>3, <3>2
    <3> QED BY <1>4, <3>1, <3>2
  <2> QED BY <1>5, <2>2, <2>3 DEF KeyFrame
<1>13. g.owner \in DOMAIN is /\ is[g.owner].tag \notin HostTags
  BY <1>5 DEF FrameInv
<1>14. is[g.owner].kids = old
  BY <1>5
<1>15. FrameInv(is, g)
  BY <1>7, <1>8, <1>9, <1>10, <1>11, <1>12, <1>13, <1>14 DEF FrameInv
<1> QED BY <1>15 DEF g

\* A diff that has just begun.
LEMMA NewFrame ==
  ASSUME NEW is, NEW n \in DOMAIN is, NEW elems \in Seq(Elements), NEW mode,
         is[n].tag \notin HostTags,
         mode = "mount" => is[n].kids = << >> /\ \A m \in DOMAIN is : n \notin ToSet(is[m].kids),
         mode = "position" => \A p \in DOMAIN is[n].kids : is[is[n].kids[p]].key = NoKey
  PROVE  FrameInv(is, Frame(n, elems, mode))
<1>1. PICK f : f = Frame(n, elems, mode)
  OBVIOUS
<1>2. /\ f.owner = n /\ f.elems = elems /\ f.mode = mode /\ f.next = << >>
      /\ f.dropped = {} /\ f.structural = FALSE
  BY <1>1 DEF Frame
<1>3. << >> \in Seq(DOMAIN is) /\ DOMAIN << >> = {} /\ Len(<< >>) = 0 /\ Len(elems) \in Nat
  OBVIOUS
<1>4. ToSet(<< >>) = {} /\ IsInjective(<< >>)
  BY <1>3 DEF ToSet, IsInjective
<1>5. ChildrenOf(is, n, << >>) /\ Matches(is, << >>, elems)
  BY <1>3, <1>4 DEF ChildrenOf, Matches
<1>6. MountFrame(is, f) /\ PositionFrame(is, f) /\ KeyFrame(is, f)
  BY <1>2, <1>3 DEF MountFrame, PositionFrame, KeyFrame
<1> QED BY <1>1, <1>2, <1>4, <1>5, <1>6 DEF FrameInv

-----------------------------------------------------------------------------
(* Stacks of diffs.                                                        *)

\* The diff on top has gone on.
LEMMA TopFrames ==
  ASSUME NEW is, NEW st \in Seq(FrameType), st # << >>, Frames(is, st),
         NEW g \in FrameType, FrameInv(is, g), g.owner = st[Len(st)].owner, NEW to,
         to = [st EXCEPT ![Len(st)] = g]
  PROVE  /\ to \in Seq(FrameType) /\ Len(to) = Len(st) /\ to # << >> /\ to[Len(to)] = g
         /\ \A k \in DOMAIN st : k \in DOMAIN to /\ (k # Len(st) => to[k] = st[k])
         /\ Frames(is, to)
<1>1. /\ to \in Seq(FrameType) /\ Len(to) = Len(st) /\ DOMAIN to = DOMAIN st
      /\ Len(st) \in DOMAIN st /\ to[Len(st)] = g
      /\ \A k \in DOMAIN st : k # Len(st) => to[k] = st[k]
  OBVIOUS
<1>2. \A k \in DOMAIN st : to[k].owner = st[k].owner /\ FrameInv(is, to[k])
  BY <1>1 DEF Frames
<1> QED BY <1>1, <1>2 DEF Frames

\* Another diff has begun.
Pushed(is, st, g, to) ==
  /\ to \in Seq(FrameType) /\ Len(to) = Len(st) + 1 /\ to # << >> /\ to[Len(to)] = g
  /\ \A k \in DOMAIN st : k \in DOMAIN to /\ to[k] = st[k]
  /\ Frames(is, to)
LEMMA PushFrames ==
  ASSUME NEW is, NEW st \in Seq(FrameType), Frames(is, st), NEW g \in FrameType, FrameInv(is, g),
         \A k \in DOMAIN st : st[k].owner < g.owner
  PROVE  Pushed(is, st, g, Append(st, g))
<1>0. PICK to : to = Append(st, g)
  OBVIOUS
<1>1. /\ to \in Seq(FrameType) /\ Len(to) = Len(st) + 1
      /\ to[Len(st) + 1] = g /\ DOMAIN to = 1..(Len(st) + 1) /\ DOMAIN st = 1..Len(st)
      /\ \A k \in DOMAIN st : k \in DOMAIN to /\ to[k] = st[k]
  BY <1>0
<1>2. \A k \in DOMAIN to : k = Len(st) + 1 \/ k \in DOMAIN st
  BY <1>1
<1>3. \A k \in DOMAIN to : FrameInv(is, to[k])
  BY <1>1, <1>2 DEF Frames
<1>4. \A j, k \in DOMAIN to : j < k => to[j].owner < to[k].owner
  <2> SUFFICES ASSUME NEW j \in DOMAIN to, NEW k \in DOMAIN to, j < k PROVE to[j].owner < to[k].owner
    OBVIOUS
  <2>1. j \in DOMAIN st
    BY <1>1
  <2>2. CASE k = Len(st) + 1
    BY <1>1, <2>1, <2>2
  <2>3. CASE k \in DOMAIN st
    BY <1>1, <2>1, <2>3 DEF Frames
  <2> QED BY <1>2, <2>2, <2>3
<1> QED BY <1>0, <1>1, <1>3, <1>4 DEF Frames, Pushed

\* Something has been made or has rendered.
LEMMA GrownFrames ==
  ASSUME NEW is, Tree(is), NEW js, Grown(js, is), NEW st, Frames(is, st),
         \A n \in DOMAIN is : js[n].kids = is[n].kids, \A n \in DOMAIN js \ DOMAIN is : js[n].kids = << >>
  PROVE  Frames(js, st)
<1>1. ASSUME NEW k \in DOMAIN st PROVE FrameInv(js, st[k])
  <2>1. PICK f : f = st[k]
    OBVIOUS
  <2>2. FrameInv(is, f) /\ f.owner \in DOMAIN is
    BY <2>1 DEF Frames, FrameInv
  <2>3. ChildrenOf(is, f.owner, is[f.owner].kids) /\ js[f.owner].kids = is[f.owner].kids
    BY <2>2 DEF Tree
  <2>4. ASSUME f.mode = "mount", NEW n \in DOMAIN js PROVE f.owner \notin ToSet(js[n].kids)
    <3>1. ToSet(<< >>) = {}
      BY DEF ToSet
    <3>2. n \in DOMAIN is => f.owner \notin ToSet(is[n].kids)
      BY <2>2, <2>4 DEF FrameInv, MountFrame
    <3> QED BY <3>1, <3>2
  <2> QED BY <2>1, <2>2, <2>3, <2>4, GrownFrame
<1> QED BY <1>1 DEF Frames

-----------------------------------------------------------------------------
(* The diff on top.                                                        *)

LEMMA TopFacts ==
  ASSUME ShapeInv, stack # << >>
  PROVE  /\ Len(stack) \in DOMAIN stack /\ Top = stack[Len(stack)] /\ Top \in FrameType /\ FrameInv(inst, Top)
         /\ Top.owner \in DOMAIN inst /\ ~IsHost(Top.owner) /\ inst \in Seq(Instance)
         /\ Old \in Seq(DOMAIN inst) /\ IsInjective(Old)
         /\ \A p \in DOMAIN Old : /\ Old[p] \in DOMAIN inst /\ Old[p] > Top.owner /\ inst[Old[p]].under = Top.owner
                                  /\ IsHost(Old[p]) \/ inst[Old[p]].mounted
         /\ Top.next \in Seq(DOMAIN inst) /\ Top.elems \in Seq(Elements) /\ Len(Top.next) <= Len(Top.elems)
         /\ \A p \in DOMAIN Top.next : Top.next[p] > Top.owner /\ inst[Top.next[p]].under = Top.owner
         /\ \A k \in DOMAIN stack : k # Len(stack) => stack[k].owner < Top.owner
<1>1. inst \in Seq(Instance) /\ stack \in Seq(FrameType)
  BY DEF ShapeInv, TypeOK
<1>2. Len(stack) \in DOMAIN stack /\ Top = stack[Len(stack)] /\ Top \in FrameType
  BY <1>1 DEF Top
<1>3. FrameInv(inst, Top)
  BY <1>2 DEF ShapeInv, StackInv, Frames
<1>4. Top.owner \in DOMAIN inst /\ ~IsHost(Top.owner)
  BY <1>3 DEF FrameInv, IsHost
<1>5. ChildrenOf(inst, Top.owner, Old) /\ Matches(inst, Old, inst[Top.owner].asked)
  BY <1>4 DEF ShapeInv, TreeInv, Tree, Placed, Old
<1>6. \A p \in DOMAIN Old : /\ Old[p] \in DOMAIN inst /\ Old[p] > Top.owner /\ inst[Old[p]].under = Top.owner
                            /\ IsHost(Old[p]) \/ inst[Old[p]].mounted
  BY <1>5 DEF ChildrenOf, Matches, IsHost
<1>7. Old \in Seq(DOMAIN inst) /\ IsInjective(Old)
  BY <1>5 DEF ChildrenOf
<1>8. /\ Top.next \in Seq(DOMAIN inst) /\ Len(Top.next) <= Len(Top.elems)
      /\ \A p \in DOMAIN Top.next : Top.next[p] > Top.owner /\ inst[Top.next[p]].under = Top.owner
  BY <1>3 DEF FrameInv, ChildrenOf, Matches
<1>9. Top.elems \in Seq(Elements)
  BY <1>2 DEF FrameType
<1>10. \A k \in DOMAIN stack : k # Len(stack) => stack[k].owner < Top.owner
  <2>1. \A k \in DOMAIN stack : k # Len(stack) => k < Len(stack)
    BY <1>1
  <2> QED BY <1>2, <2>1 DEF ShapeInv, StackInv, Frames
<1> QED BY <1>1, <1>2, <1>3, <1>4, <1>6, <1>7, <1>8, <1>9, <1>10

\* The next element.
LEMMA WantedFacts ==
  ASSUME ShapeInv, Matching
  PROVE  /\ stack # << >> /\ doomed = << >> /\ Place \in Nat \ {0} /\ Place <= Len(Top.elems)
         /\ Wanted \in Elements /\ Wanted = Top.elems[Place] /\ Len(Top.next) < Len(Top.elems)
         /\ Wanted.tag \in Tags /\ Wanted.key \in Keys \cup {NoKey} /\ Wanted.kids \in Seq(Elements)
         /\ Wanted.tag \in HostTags => Wanted.kids = << >> /\ ~Wanted.throws
<1>1. stack # << >> /\ doomed = << >> /\ Place <= Len(Top.elems)
  BY DEF Matching, Diffing
<1>2. Top.next \in Seq(DOMAIN inst) /\ Top.elems \in Seq(Elements)
  BY <1>1, TopFacts
<1>3. Place \in Nat \ {0} /\ Len(Top.next) < Len(Top.elems)
  BY <1>1, <1>2 DEF Place
<1>4. Wanted \in Elements /\ Wanted = Top.elems[Place]
  BY <1>1, <1>2, <1>3 DEF Wanted
<1> QED BY <1>1, <1>3, <1>4, ReconcilerAssumption DEF ReconcilerAssumption, IsElement

\* Who may be taken: one of the children, for its tag and key, and not two of them.
LEMMA TakenFacts ==
  ASSUME ShapeInv, Matching, NEW i \in Taken
  PROVE  /\ i \notin Reused /\ Compatible(inst[i], Wanted)
         /\ \E p \in DOMAIN Old \ Top.dropped : i = Old[p] /\ (Top.mode # "key" => p = Place)
<1>1. i \in Candidates /\ i \notin Reused /\ Compatible(inst[i], Wanted)
  BY DEF Taken
<1>2. PICK p \in DOMAIN Old : i = Old[p] /\ (Top.mode # "key" => p = Place)
  BY <1>1 DEF Candidates
<1>3. p \notin Top.dropped
  <2>1. FrameInv(inst, Top) /\ stack # << >> /\ Top \in FrameType
    BY WantedFacts, TopFacts
  <2>2. CASE Top.mode = "key"
    <3>1. Top.dropped = {}
      BY <2>1, <2>2, WantedFacts, TopFacts DEF FrameInv, KeyFrame
    <3> QED BY <3>1
  <2>3. CASE Top.mode = "position"
    <3>1. p = Place /\ Place \in Len(Top.next)+1..Len(Top.elems)
      BY <1>2, <2>3, WantedFacts, TopFacts DEF Place
    <3> QED BY <1>1, <1>2, <2>1, <2>3, <3>1, WantedFacts DEF FrameInv, PositionFrame, Old
  <2>4. CASE Top.mode = "mount"
    <3>1. DOMAIN Old = {}
      BY <2>1, <2>4 DEF FrameInv, MountFrame, Old
    <3> QED BY <3>1
  <2> QED BY <2>1, <2>2, <2>3, <2>4 DEF FrameType
<1> QED BY <1>1, <1>2, <1>3

\* By key there is one candidate where one child only has the tag and key.
LEMMA OnlyCandidate ==
  ASSUME ShapeInv, Matching, Top.mode = "key", Wanted.key # NoKey,
         NEW p \in DOMAIN Old, OnlyOne(inst, Old, p, Wanted)
  PROVE  Candidates = {Old[p]}
<1>1. Compatible(inst[Old[p]], Wanted) /\ \A q \in DOMAIN Old : Compatible(inst[Old[q]], Wanted) => q = p
  BY DEF OnlyOne
<1>2. /\ Compatible(inst[Old[p]], Wanted)
      /\ \A q \in DOMAIN Old : q > p => ~Compatible(inst[Old[q]], Wanted)
  <2>1. p \in Nat
    BY WantedFacts, TopFacts
  <2> QED BY <1>1, <2>1
<1> QED BY <1>1, <1>2 DEF Candidates

\* The diff on top with one instance more.
Advanced(to, i) ==
  /\ to \in Seq(FrameType) /\ to # << >> /\ DOMAIN to = DOMAIN stack /\ Len(to) = Len(stack)
  /\ \A k \in DOMAIN stack :
       /\ to[k].owner = stack[k].owner /\ to[k].elems = stack[k].elems /\ to[k].mode = stack[k].mode
       /\ to[k].dropped = stack[k].dropped
       /\ to[k].next = IF k = Len(stack) THEN Append(Top.next, i) ELSE stack[k].next

LEMMA TookFacts ==
  ASSUME ShapeInv, stack # << >>, NEW js, Frames(js, stack), NEW i \in Nat, NEW new \in BOOLEAN,
         FrameInv(js, With(Top, i, new)), NEW to, to = Took(i, new)
  PROVE  Advanced(to, i) /\ Frames(js, to)
<1>1. stack \in Seq(FrameType) /\ Top \in FrameType /\ Len(stack) \in DOMAIN stack /\ Top = stack[Len(stack)]
  BY TopFacts DEF ShapeInv, TypeOK
<1> DEFINE g == With(Top, i, new)
<1>2. /\ g.owner = Top.owner /\ g.elems = Top.elems /\ g.mode = Top.mode /\ g.dropped = Top.dropped
      /\ g.next = Append(Top.next, i) /\ g \in FrameType
  <2>1. PICK f \in FrameType : f = Top
    BY <1>1
  <2>2. /\ With(f, i, new) \in FrameType
        /\ With(f, i, new).owner = f.owner /\ With(f, i, new).elems = f.elems /\ With(f, i, new).mode = f.mode
        /\ With(f, i, new).dropped = f.dropped /\ With(f, i, new).next = Append(f.next, i)
    BY WithIs
  <2> QED BY <2>1, <2>2
<1>4. to = [stack EXCEPT ![Len(stack)] = g]
  BY <1>1 DEF Took, With
<1> HIDE DEF g
<1>3. FrameInv(js, g) /\ g.owner = stack[Len(stack)].owner
  BY <1>1, <1>2 DEF g
<1>5. /\ to \in Seq(FrameType) /\ Len(to) = Len(stack) /\ to # << >> /\ to[Len(to)] = g
      /\ \A k \in DOMAIN stack : k \in DOMAIN to /\ (k # Len(stack) => to[k] = stack[k])
      /\ Frames(js, to)
  BY <1>1, <1>2, <1>3, <1>4, TopFrames
<1>6. DOMAIN to = DOMAIN stack
  BY <1>1, <1>5
<1>7. ASSUME NEW k \in DOMAIN stack
      PROVE  /\ to[k].owner = stack[k].owner /\ to[k].elems = stack[k].elems /\ to[k].mode = stack[k].mode
             /\ to[k].dropped = stack[k].dropped
             /\ to[k].next = IF k = Len(stack) THEN Append(Top.next, i) ELSE stack[k].next
  <2>1. CASE k = Len(stack)
    BY <1>1, <1>2, <1>5, <2>1
  <2>2. CASE k # Len(stack)
    BY <1>5, <2>2
  <2> QED BY <2>1, <2>2
<1> QED BY <1>5, <1>6, <1>7 DEF Advanced

\* The diff on top takes one of the children.
LEMMA PatchFrame ==
  ASSUME ShapeInv, Matching, NEW i \in Taken
  PROVE  FrameInv(inst, With(Top, i, FALSE)) /\ i \in DOMAIN inst /\ i > Top.owner /\ inst[i].under = Top.owner
<1>1. /\ stack # << >> /\ Place \in Nat \ {0} /\ Place <= Len(Top.elems) /\ Wanted = Top.elems[Place]
      /\ Place = Len(Top.next) + 1
  BY WantedFacts DEF Place
<1>2. PICK p \in DOMAIN Old \ Top.dropped : i = Old[p] /\ (Top.mode # "key" => p = Place)
  BY TakenFacts
<1>3. i \notin ToSet(Top.next) /\ Compatible(inst[i], Wanted)
  BY TakenFacts DEF Reused
<1>4. /\ Top \in FrameType /\ FrameInv(inst, Top) /\ inst \in Seq(Instance) /\ IsInjective(Old)
      /\ i \in DOMAIN inst /\ i > Top.owner /\ inst[i].under = Top.owner
      /\ inst[i].tag \in HostTags \/ inst[i].mounted
  BY <1>1, <1>2, TopFacts DEF IsHost
<1>5. PICK old : old = inst[Top.owner].kids /\ old = Old
  BY DEF Old
<1>6. \A q \in Top.dropped : old[q] # i
  <2>1. Top.dropped \subseteq DOMAIN old
    BY <1>4, <1>5 DEF FrameInv
  <2> QED BY <1>2, <1>4, <1>5, <2>1 DEF IsInjective
<1>7. i \in ToSet(old)
  BY <1>2, <1>5 DEF ToSet
<1>8. Top.mode = "position" => Place \in DOMAIN old /\ i = old[Place]
  BY <1>2, <1>5
<1>9. ASSUME Top.mode = "key", Top.elems[Place].key # NoKey, NEW q \in DOMAIN old,
             OnlyOne(inst, old, q, Top.elems[Place])
      PROVE  old[q] = i
  <2>1. Candidates = {Old[q]}
    BY <1>1, <1>5, <1>9, OnlyCandidate
  <2> QED BY <1>5, <2>1 DEF Taken
<1>10. Fits(inst, Top, i, FALSE)
  BY <1>1, <1>3, <1>4, <1>5, <1>6, <1>7, <1>8, <1>9 DEF Fits
<1>11. FrameInv(inst, With(Top, i, FALSE))
  <2>1. i \in Nat
    BY <1>4
  <2> QED BY <1>4, <1>10, <2>1, TookFrame
<1> QED BY <1>4, <1>11

\* What is made belongs to the diff on top, and to nobody else.
LEMMA MadeFacts ==
  ASSUME ShapeInv, stack # << >>, NEW made \in Instance, made.kids = << >>, made.asked = << >>,
         made.under = Top.owner, made.tag \in Tags, NEW js, js = Append(inst, made)
  PROVE  /\ js \in Seq(Instance) /\ Newest \in Nat \ {0} /\ DOMAIN js = DOMAIN inst \cup {Newest} /\ Len(js) = Newest
         /\ Newest \notin DOMAIN inst /\ \A i \in DOMAIN inst : i < Newest
         /\ js[Newest] = made /\ \A i \in DOMAIN inst : js[i] = inst[i]
         /\ Grown(js, inst) /\ Tree(js) /\ Placed(js) /\ Frames(js, stack)
         /\ \A n \in DOMAIN js : Newest \notin ToSet(js[n].kids)
         /\ Collect(js) = Collect(inst)
<1>1. inst \in Seq(Instance) /\ Tree(inst) /\ Placed(inst) /\ Frames(inst, stack)
  BY DEF ShapeInv, TypeOK, TreeInv, StackInv
<1>2. /\ js \in Seq(Instance) /\ Newest \in Nat \ {0} /\ DOMAIN js = DOMAIN inst \cup {Newest} /\ Len(js) = Newest
      /\ Newest \notin DOMAIN inst /\ (\A i \in DOMAIN inst : i < Newest)
      /\ js[Newest] = made /\ \A i \in DOMAIN inst : js[i] = inst[i]
  BY <1>1 DEF Newest
<1>3. Grown(js, inst)
  BY <1>2 DEF Grown
<1>4. /\ DOMAIN << >> = {} /\ Len(<< >>) = 0 /\ ToSet(<< >>) = {} /\ IsInjective(<< >>)
      /\ << >> \in Seq(DOMAIN js)
  BY DEF ToSet, IsInjective
<1>5. ASSUME NEW i \in DOMAIN inst
      PROVE  /\ ChildrenOf(inst, i, inst[i].kids) /\ ChildrenOf(js, i, js[i].kids)
             /\ DOMAIN js[i].kids = DOMAIN js[i].asked /\ Matches(js, js[i].kids, js[i].asked)
  <2>1. /\ ChildrenOf(inst, i, inst[i].kids) /\ DOMAIN inst[i].kids = DOMAIN inst[i].asked
        /\ Matches(inst, inst[i].kids, inst[i].asked)
    BY <1>1 DEF Tree, Placed
  <2>2. ChildrenOf(js, i, inst[i].kids) /\ Matches(js, inst[i].kids, inst[i].asked)
    BY <1>3, <2>1, GrownRow
  <2> QED BY <1>2, <2>1, <2>2
<1>6. ChildrenOf(js, Newest, made.kids) /\ Matches(js, made.kids, made.asked)
  BY <1>4 DEF ChildrenOf, Matches
<1>7. Top.owner \in DOMAIN inst
  BY TopFacts
<1>8. Tree(js)
  <2>1. js # << >> /\ Root \in DOMAIN inst /\ js[Root].tag = RootTag
    BY <1>1, <1>2 DEF Tree, Root
  <2>2. ASSUME NEW i \in DOMAIN js
        PROVE  /\ ChildrenOf(js, i, js[i].kids)
               /\ js[i].tag \in HostTags \/ ~js[i].mounted => js[i].kids = << >>
               /\ i # Root => js[i].tag \in Tags /\ js[i].under \in 1..i-1
    <3>1. CASE i \in DOMAIN inst
      BY <1>1, <1>2, <1>5, <3>1 DEF Tree
    <3>2. CASE i = Newest
      <4>1. made.under \in 1..Newest-1
        BY <1>1, <1>2, <1>7
      <4> QED BY <1>2, <1>6, <3>2, <4>1
    <3> QED BY <1>2, <3>1, <3>2
  <2> QED BY <2>1, <2>2 DEF Tree
<1>9. Placed(js)
  <2>1. ASSUME NEW i \in DOMAIN js
        PROVE  DOMAIN js[i].kids = DOMAIN js[i].asked /\ Matches(js, js[i].kids, js[i].asked)
    BY <1>2, <1>5, <1>6
  <2> QED BY <2>1 DEF Placed
<1>10. Frames(js, stack)
  BY <1>1, <1>2, <1>3, GrownFrames
<1>11. \A n \in DOMAIN js : Newest \notin ToSet(js[n].kids)
  <2>1. ASSUME NEW n \in DOMAIN inst PROVE Newest \notin ToSet(inst[n].kids)
    BY <1>2, <1>5 DEF ChildrenOf, ToSet
  <2> QED BY <1>2, <1>4, <2>1
<1>12. Collect(js) = Collect(inst)
  <2>1. \A i \in InTree(inst) : js[i] = inst[i]
    BY <1>1, <1>2, TreeFacts
  <2>2. Len(inst) <= Len(js)
    BY <1>1, <1>2 DEF Newest
  <2> QED BY <1>1, <1>2, <1>8, <2>1, <2>2, SameWalk
<1> QED BY <1>2, <1>3, <1>8, <1>9, <1>10, <1>11, <1>12

\* The diff on top takes what has been made.
LEMMA MountFrameFacts ==
  ASSUME ShapeInv, Matching, Taken = {}, NEW made \in Instance, made.kids = << >>, made.asked = << >>,
         made.under = Top.owner, made.tag = Wanted.tag, made.key = Wanted.key,
         made.tag \in HostTags \/ made.mounted, NEW js, js = Append(inst, made)
  PROVE  FrameInv(js, With(Top, Newest, TRUE))
<1>1. /\ stack # << >> /\ Place \in Nat \ {0} /\ Place <= Len(Top.elems) /\ Wanted = Top.elems[Place]
      /\ Place = Len(Top.next) + 1 /\ Wanted.tag \in Tags
  BY WantedFacts DEF Place
<1>0. made.tag \in Tags
  BY <1>1
<1>2. /\ js \in Seq(Instance) /\ Newest \in DOMAIN js /\ Newest \notin DOMAIN inst
      /\ (\A i \in DOMAIN inst : i < Newest) /\ js[Newest] = made /\ (\A i \in DOMAIN inst : js[i] = inst[i])
      /\ Frames(js, stack) /\ \A n \in DOMAIN js : Newest \notin ToSet(js[n].kids)
  <2>1. /\ js \in Seq(Instance) /\ Newest \in Nat \ {0} /\ DOMAIN js = DOMAIN inst \cup {Newest} /\ Len(js) = Newest
        /\ Newest \notin DOMAIN inst /\ \A i \in DOMAIN inst : i < Newest
        /\ js[Newest] = made /\ \A i \in DOMAIN inst : js[i] = inst[i]
        /\ Grown(js, inst) /\ Tree(js) /\ Placed(js) /\ Frames(js, stack)
        /\ \A n \in DOMAIN js : Newest \notin ToSet(js[n].kids)
    BY <1>0, <1>1, MadeFacts
  <2> QED BY <2>1
<1>3. /\ Top \in FrameType /\ Top.owner \in DOMAIN inst /\ Len(stack) \in DOMAIN stack /\ Top = stack[Len(stack)]
      /\ Top.next \in Seq(DOMAIN inst) /\ \A p \in DOMAIN Old : Old[p] \in DOMAIN inst
  BY <1>1, TopFacts
<1>4. FrameInv(js, Top)
  BY <1>2, <1>3 DEF Frames
<1>5. PICK old : old = js[Top.owner].kids /\ old = Old
  BY <1>2, <1>3 DEF Old
<1>6. Newest \notin ToSet(old) /\ Newest \notin ToSet(Top.next)
  <2>1. Newest \notin ToSet(Top.next)
    BY <1>2, <1>3 DEF ToSet
  <2>2. Newest \notin ToSet(old)
    BY <1>2, <1>3, <1>5 DEF ToSet
  <2> QED BY <2>1, <2>2
<1>7. \A q \in Top.dropped : old[q] # Newest
  <2>1. Top.dropped \subseteq DOMAIN old
    BY <1>4, <1>5 DEF FrameInv
  <2> QED BY <1>6, <2>1 DEF ToSet
<1>8. Compatible(js[Newest], Top.elems[Place])
  BY <1>1, <1>2 DEF Compatible
<1>9. ASSUME Top.mode = "key", Top.elems[Place].key # NoKey, NEW q \in DOMAIN old,
             OnlyOne(js, old, q, Top.elems[Place])
      PROVE  old[q] \in ToSet(Top.next)
  <2>1. OnlyOne(inst, Old, q, Wanted)
    <3>1. \A x \in DOMAIN Old : js[Old[x]] = inst[Old[x]]
      BY <1>2, <1>3
    <3>2. old = Old /\ Top.elems[Place] = Wanted
      BY <1>1, <1>5
    <3> QED BY <1>9, <3>1, <3>2 DEF OnlyOne
  <2>2. Candidates = {Old[q]}
    BY <1>1, <1>5, <1>9, <2>1, OnlyCandidate
  <2>3. Compatible(inst[Old[q]], Wanted)
    BY <2>1 DEF OnlyOne
  <2> QED BY <1>5, <2>2, <2>3 DEF Taken, Reused
<1>10. Newest > Top.owner /\ js[Newest].under = Top.owner
  BY <1>2, <1>3 DEF Newest
<1>11. Fits(js, Top, Newest, TRUE)
  <2>1. Top.mode = "position" => Newest \notin ToSet(old)
    BY <1>6
  <2>2. js[Newest].tag \in HostTags \/ js[Newest].mounted
    BY <1>2
  <2>3. Len(Top.next) + 1 = Place
    BY <1>1
  <2> HIDE DEF Place
  <2> QED BY <1>1, <1>2, <1>5, <1>6, <1>7, <1>8, <1>9, <1>10, <2>1, <2>2, <2>3 DEF Fits
<1>12. Newest \in Nat
  BY <1>2
<1> QED BY <1>3, <1>4, <1>11, <1>12, TookFrame

-----------------------------------------------------------------------------
(* A diff that goes on with the next element, whether it takes an instance *)
(* or makes one, and whether or not that one's own diff begins with it.    *)

GoesOn(i) ==
  /\ Matching /\ i \in Nat /\ i \notin gone
  /\ Grown(inst', inst) /\ \A n \in DOMAIN inst : inst'[n].kids = inst[n].kids
  /\ \A n \in DOMAIN inst' \ DOMAIN inst : n = i /\ inst'[n].kids = << >> /\ inst'[n].under = Top.owner
  /\ UNCHANGED <<gone, doomed, threw, failed>> /\ (keyed' => keyed)
  /\ DOMAIN stack \subseteq DOMAIN stack' /\ (Len(stack') # Len(stack) => Wanted.tag \in CompTags)
  /\ \A k \in DOMAIN stack :
       /\ stack'[k].owner = stack[k].owner /\ stack'[k].elems = stack[k].elems /\ stack'[k].mode = stack[k].mode
       /\ stack'[k].dropped = stack[k].dropped
       /\ stack'[k].next = IF k = Len(stack) THEN Append(Top.next, i) ELSE stack[k].next
  /\ \A k \in DOMAIN stack' \ DOMAIN stack :
       /\ stack'[k].owner = i /\ stack'[k].next = << >> /\ stack'[k].dropped = {}
       /\ keyed' => Careful(stack'[k].mode, stack'[k].elems)

\* Who is in a row with one more.
LEMMA AppendSet ==
  ASSUME NEW S, NEW row \in Seq(S), NEW x
  PROVE  ToSet(Append(row, x)) = ToSet(row) \cup {x}
<1>1. PICK len \in Nat : len = Len(row) /\ DOMAIN row = 1..len
  OBVIOUS
<1>2. PICK c : /\ c = Append(row, x) /\ DOMAIN c = 1..(len + 1) /\ c[len + 1] = x
               /\ \A p \in 1..len : c[p] = row[p]
  <2>1. PICK T : T = S \cup {x}
    OBVIOUS
  <2>2. x \in T /\ row \in Seq(T)
    BY <1>1, <2>1
  <2>3. /\ DOMAIN Append(row, x) = 1..(Len(row) + 1) /\ Append(row, x)[Len(row) + 1] = x
        /\ \A p \in 1..Len(row) : Append(row, x)[p] = row[p]
    BY <2>2
  <2> QED BY <1>1, <2>3, Zenon
<1>3. len + 1 \in DOMAIN c /\ \A p \in DOMAIN c : p = len + 1 \/ p \in 1..len
  BY <1>2
<1> QED BY <1>1, <1>2, <1>3 DEF ToSet

LEMMA GoesOnKeyed ==
  ASSUME ShapeInv, KeyedInv, NEW i, GoesOn(i)
  PROVE  KeyedInv'
<1> SUFFICES ASSUME keyed' PROVE threw' # "deleted" /\ \A k \in DOMAIN stack' :
      /\ Careful(stack'[k].mode, stack'[k].elems)
      /\ stack'[k].dropped # {} =>
           /\ k = Len(stack')
           /\ \/ Len(stack'[k].next) = Len(stack'[k].elems)
              \/ \A p \in DOMAIN stack'[k].elems : stack'[k].elems[p].tag \in HostTags
  BY DEF KeyedInv
<1>1. keyed /\ threw' # "deleted"
  BY DEF GoesOn, KeyedInv
<1>2. ASSUME NEW k \in DOMAIN stack', k \in DOMAIN stack
      PROVE  /\ Careful(stack'[k].mode, stack'[k].elems)
             /\ stack'[k].dropped # {} =>
                  /\ k = Len(stack')
                  /\ \A p \in DOMAIN stack'[k].elems : stack'[k].elems[p].tag \in HostTags
  <2>1. /\ Careful(stack[k].mode, stack[k].elems)
        /\ stack[k].dropped # {} =>
             /\ k = Len(stack)
             /\ \/ Len(stack[k].next) = Len(stack[k].elems)
                \/ \A p \in DOMAIN stack[k].elems : stack[k].elems[p].tag \in HostTags
    BY <1>1, <1>2 DEF KeyedInv
  <2>2. /\ stack'[k].elems = stack[k].elems /\ stack'[k].mode = stack[k].mode
        /\ stack'[k].dropped = stack[k].dropped
    BY <1>2 DEF GoesOn
  <2>3. ASSUME stack[k].dropped # {}
        PROVE  k = Len(stack') /\ \A p \in DOMAIN stack[k].elems : stack[k].elems[p].tag \in HostTags
    <3>1. k = Len(stack) /\ stack[k] = Top
      BY <2>1, <2>3 DEF Top
    <3>2. Len(Top.next) < Len(Top.elems) /\ Len(Top.next) \in Nat /\ Len(Top.elems) \in Nat
      BY WantedFacts, TopFacts DEF GoesOn
    <3>3. \A p \in DOMAIN stack[k].elems : stack[k].elems[p].tag \in HostTags
      BY <2>1, <2>3, <3>1, <3>2
    <3>4. Place \in DOMAIN Top.elems /\ Wanted = Top.elems[Place]
      BY WantedFacts, TopFacts DEF GoesOn
    <3>5. Wanted.tag \notin CompTags
      BY <3>1, <3>3, <3>4, ReconcilerAssumption DEF ReconcilerAssumption
    <3> QED BY <3>1, <3>3, <3>5 DEF GoesOn
  <2> QED BY <2>1, <2>2, <2>3
<1>3. ASSUME NEW k \in DOMAIN stack', k \notin DOMAIN stack
      PROVE  Careful(stack'[k].mode, stack'[k].elems) /\ stack'[k].dropped = {}
  BY <1>3 DEF GoesOn
<1> QED BY <1>1, <1>2, <1>3

\* The diffs drop what they dropped before.
LEMMA GoesOnDropped ==
  ASSUME ShapeInv, NEW i, GoesOn(i), NEW n \in DOMAIN inst
  PROVE  Dropped(n)' <=> Dropped(n)
<1>1. \A k \in DOMAIN stack : stack[k].owner \in DOMAIN inst
  BY DEF ShapeInv, StackInv, Frames, FrameInv
<1>2. inst'[n].under = inst[n].under
  BY DEF GoesOn, Grown
<1>3. ASSUME NEW k \in DOMAIN stack
      PROVE  /\ k \in DOMAIN stack' /\ stack'[k].owner = stack[k].owner /\ stack'[k].dropped = stack[k].dropped
             /\ inst'[stack'[k].owner].kids = inst[stack[k].owner].kids
  BY <1>1 DEF GoesOn
<1>4. \A k \in DOMAIN stack' \ DOMAIN stack : stack'[k].dropped = {}
  BY DEF GoesOn
<1>5. ASSUME Dropped(n) PROVE Dropped(n)'
  BY <1>2, <1>3, <1>5 DEF Dropped
<1>6. ASSUME Dropped(n)' PROVE Dropped(n)
  <2>1. PICK k \in DOMAIN stack' : \E p \in stack'[k].dropped :
          stack'[k].owner = inst'[n].under /\ inst'[stack'[k].owner].kids[p] = n
    BY <1>6 DEF Dropped
  <2>2. k \in DOMAIN stack
    BY <1>4, <2>1
  <2> QED BY <1>2, <1>3, <2>1, <2>2 DEF Dropped
<1> QED BY <1>5, <1>6

LEMMA GoesOnGone ==
  ASSUME ShapeInv, GoneInv, NEW i, GoesOn(i)
  PROVE  GoneInv'
<1> SUFFICES ASSUME Sound' PROVE GoneFrames' /\ GoneDoomed' /\ GoneKids'
  BY DEF GoneInv
<1>1. Sound
  BY DEF Sound, GoesOn
<1>2. GoneFrames /\ GoneDoomed /\ GoneKids
  BY <1>1 DEF GoneInv
<1>3. doomed = << >> /\ doomed' = << >> /\ gone' = gone /\ i \notin gone
  BY DEF GoesOn, Matching, Diffing
<1>4. ToSet(<< >>) = {}
  BY DEF ToSet
<1>5. \A k \in DOMAIN stack : stack[k].owner \in DOMAIN inst
  BY DEF ShapeInv, StackInv, Frames, FrameInv
<1>6. ASSUME NEW k \in DOMAIN stack', k \in DOMAIN stack
      PROVE  /\ stack'[k].owner \notin gone'
             /\ ToSet(stack'[k].next) \cap gone' = {}
             /\ \A p \in stack'[k].dropped : inst'[stack'[k].owner].kids[p] \in gone'
  <2>1. /\ stack[k].owner \notin gone /\ ToSet(stack[k].next) \cap gone = {}
        /\ \A p \in stack[k].dropped : inst[stack[k].owner].kids[p] \in gone
    BY <1>2, <1>3, <1>4, <1>6 DEF GoneFrames
  <2>2. /\ stack'[k].owner = stack[k].owner /\ stack'[k].dropped = stack[k].dropped
        /\ inst'[stack[k].owner].kids = inst[stack[k].owner].kids
        /\ stack'[k].next = IF k = Len(stack) THEN Append(Top.next, i) ELSE stack[k].next
    BY <1>5, <1>6 DEF GoesOn
  <2>3. ToSet(stack'[k].next) \subseteq ToSet(stack[k].next) \cup {i}
    <3>1. CASE k = Len(stack)
      <4>1. Top.next \in Seq(DOMAIN inst) /\ stack[k] = Top
        BY <3>1, WantedFacts, TopFacts DEF GoesOn
      <4>2. ToSet(Append(Top.next, i)) = ToSet(Top.next) \cup {i}
        BY <4>1, AppendSet
      <4> QED BY <2>2, <3>1, <4>1, <4>2
    <3>2. CASE k # Len(stack)
      BY <2>2, <3>2
    <3> QED BY <3>1, <3>2
  <2> QED BY <1>3, <2>1, <2>2, <2>3
<1>7. ASSUME NEW k \in DOMAIN stack', k \notin DOMAIN stack
      PROVE  stack'[k].owner \notin gone' /\ stack'[k].next = << >> /\ stack'[k].dropped = {}
  BY <1>3, <1>7 DEF GoesOn
<1>8. GoneFrames'
  BY <1>3, <1>4, <1>6, <1>7 DEF GoneFrames
<1>9. GoneDoomed'
  BY <1>2, <1>3, <1>4 DEF GoneDoomed
<1>10. GoneKids'
  <2> SUFFICES ASSUME NEW n \in DOMAIN inst' \ gone', NEW m \in ToSet(inst'[n].kids) \cap gone' PROVE Dropped(m)'
    BY DEF GoneKids
  <2>1. n \in DOMAIN inst /\ m \in DOMAIN inst
    <3>1. n \notin DOMAIN inst => inst'[n].kids = << >>
      BY DEF GoesOn
    <3>2. gone \subseteq DOMAIN inst
      BY DEF ShapeInv, TypeOK
    <3> QED BY <1>3, <1>4, <3>1, <3>2
  <2>2. inst'[n].kids = inst[n].kids
    BY <2>1 DEF GoesOn
  <2>3. Dropped(m)
    BY <1>2, <1>3, <2>1, <2>2 DEF GoneKids
  <2> QED BY <2>1, <2>3, GoesOnDropped
<1> QED BY <1>8, <1>9, <1>10

LEMMA GoesOnAccount ==
  ASSUME ShapeInv, GoneInv, AccountInv, NEW i, GoesOn(i)
  PROVE  AccountInv'
<1> SUFFICES ASSUME ~failed', NEW j \in DOMAIN inst' \ (gone' \cup {Root})
             PROVE  /\ \/ j \in ToSet(inst'[inst'[j].under].kids)
                       \/ \E k \in DOMAIN stack' : stack'[k].owner = inst'[j].under /\ j \in ToSet(stack'[k].next)
                    /\ inst'[j].under \notin gone' \/ j \in ToSet(doomed')
  BY DEF AccountInv
<1>1. ~failed /\ gone' = gone /\ doomed' = doomed /\ Matching
  BY DEF GoesOn
<1>2. /\ Len(stack) \in DOMAIN stack /\ Top = stack[Len(stack)] /\ Top.next \in Seq(DOMAIN inst)
      /\ inst \in Seq(Instance)
  BY <1>1, WantedFacts, TopFacts
<1>3. ToSet(Append(Top.next, i)) = ToSet(Top.next) \cup {i}
  BY <1>2, AppendSet
<1>4. /\ Len(stack) \in DOMAIN stack' /\ stack'[Len(stack)].next = Append(Top.next, i)
      /\ stack'[Len(stack)].owner = Top.owner
  BY <1>2 DEF GoesOn
<1>5. CASE j \in DOMAIN inst
  <2>1. inst[j].under \in DOMAIN inst
    BY <1>2, <1>5 DEF ShapeInv, TreeInv, Tree
  <2>2. inst'[j].under = inst[j].under /\ inst'[inst[j].under].kids = inst[inst[j].under].kids
    BY <1>5, <2>1 DEF GoesOn, Grown
  <2>3. /\ \/ j \in ToSet(inst[inst[j].under].kids)
           \/ \E k \in DOMAIN stack : stack[k].owner = inst[j].under /\ j \in ToSet(stack[k].next)
        /\ inst[j].under \notin gone \/ j \in ToSet(doomed)
    BY <1>1, <1>5 DEF AccountInv
  <2>4. ASSUME NEW k \in DOMAIN stack, stack[k].owner = inst[j].under, j \in ToSet(stack[k].next)
        PROVE  k \in DOMAIN stack' /\ stack'[k].owner = inst'[j].under /\ j \in ToSet(stack'[k].next)
    <3>1. /\ k \in DOMAIN stack' /\ stack'[k].owner = stack[k].owner
          /\ stack'[k].next = IF k = Len(stack) THEN Append(Top.next, i) ELSE stack[k].next
      BY DEF GoesOn
    <3> QED BY <1>2, <1>3, <2>2, <2>4, <3>1
  <2> QED BY <1>1, <2>2, <2>3, <2>4
<1>6. CASE j \notin DOMAIN inst
  <2>1. j = i /\ inst'[j].under = Top.owner
    BY <1>6 DEF GoesOn
  <2>2. Top.owner \notin gone
    BY <1>1, <1>2 DEF GoneInv, Sound, GoneFrames
  <2> QED BY <1>1, <1>3, <1>4, <2>1, <2>2
<1> QED BY <1>5, <1>6

-----------------------------------------------------------------------------
(* The actions.                                                            *)

\* The shape of what an action does not touch.
LEMMA SameShape ==
  ASSUME ShapeInv, UNCHANGED <<inst, gone, box, doomed, threw, renders, failed>>,
         stack' \in Seq(FrameType), Frames(inst, stack'), doomed = << >>, keyed' \in BOOLEAN
  PROVE  ShapeInv'
<1>1. TypeOK'
  BY DEF ShapeInv, TypeOK, IsHost
<1>2. TreeInv' /\ BoxInv'
  BY DEF ShapeInv, TreeInv, BoxInv, IsHost
<1>3. StackInv'
  BY DEF ShapeInv, StackInv
<1> QED BY <1>1, <1>2, <1>3 DEF ShapeInv

\* A child of the diff on top that it has not dropped is not unmounted.
LEMMA ChildAlive ==
  ASSUME ShapeInv, GoneInv, Sound, stack # << >>, NEW p \in DOMAIN Old \ Top.dropped
  PROVE  Old[p] \notin gone
<1> SUFFICES ASSUME Old[p] \in gone PROVE FALSE
  OBVIOUS
<1>1. PICK i : i = Old[p]
  OBVIOUS
<1>2. /\ Len(stack) \in DOMAIN stack /\ Top = stack[Len(stack)] /\ Top.owner \in DOMAIN inst /\ IsInjective(Old)
      /\ inst[i].under = Top.owner
      /\ \A k \in DOMAIN stack : k # Len(stack) => stack[k].owner < Top.owner
  BY <1>1, TopFacts
<1>3. i \in ToSet(Old) /\ Top.owner \notin gone
  BY <1>1, <1>2 DEF ToSet, GoneInv, GoneFrames
<1>4. Dropped(i)
  BY <1>1, <1>2, <1>3 DEF GoneInv, GoneKids, Old
<1>5. PICK k \in DOMAIN stack : \E q \in stack[k].dropped :
        stack[k].owner = Top.owner /\ inst[stack[k].owner].kids[q] = i
  BY <1>2, <1>4 DEF Dropped
<1>6. k = Len(stack)
  <2>1. Top.owner \in Nat
    BY <1>2 DEF ShapeInv, TypeOK
  <2> QED BY <1>2, <1>5, <2>1
<1>7. PICK q \in Top.dropped : Old[q] = i
  BY <1>2, <1>5, <1>6 DEF Old
<1>8. Top.dropped \subseteq DOMAIN Old
  BY TopFacts DEF FrameInv, Old
<1> QED BY <1>1, <1>2, <1>7, <1>8 DEF IsInjective

\* A child that may be taken is not unmounted.
LEMMA TakenAlive ==
  ASSUME ShapeInv, GoneInv, Sound, Matching, NEW i \in Taken
  PROVE  i \notin gone
<1>1. PICK p \in DOMAIN Old \ Top.dropped : i = Old[p]
  BY TakenFacts
<1> QED BY <1>1, WantedFacts, ChildAlive

\* Once a half-replaced child may be left, nothing more is said.
LEMMA Unsound == ~Sound' => KeyedInv' /\ GoneInv' /\ AccountInv' /\ PrefixInv'
BY DEF Sound, KeyedInv, GoneInv, AccountInv, PrefixInv

\* What follows when the diff goes on, and the walk of the tree with it.
LEMMA GoesOnRest ==
  ASSUME DiffInv, NEW i, Sound => GoesOn(i), Sound' => Sound, Collect(inst') = Collect(inst),
         IsPrefix(Collect(inst), box) => IsPrefix(Collect(inst), box')
  PROVE  KeyedInv' /\ GoneInv' /\ AccountInv' /\ PrefixInv'
<1>1. CASE Sound
  <2>1. KeyedInv' /\ GoneInv' /\ AccountInv'
    BY <1>1, GoesOnKeyed, GoesOnGone, GoesOnAccount DEF DiffInv
  <2>2. NoneDropped' => NoneDropped
    BY <1>1 DEF NoneDropped, GoesOn
  <2>3. PrefixInv'
    BY <2>2 DEF DiffInv, PrefixInv
  <2> QED BY <2>1, <2>3
<1>2. CASE ~Sound
  BY <1>2, Unsound
<1> QED BY <1>1, <1>2

LEMMA PatchHostDiff ==
  ASSUME DiffInv, PatchHost
  PROVE  DiffInv'
<1>1. PICK i \in Taken : stack' = Took(i, FALSE)
  BY DEF PatchHost
<1>2. ShapeInv /\ Matching /\ Wanted.tag \in HostTags /\ stack # << >> /\ doomed = << >>
  BY WantedFacts DEF PatchHost, DiffInv
<1>3. FrameInv(inst, With(Top, i, FALSE)) /\ i \in DOMAIN inst /\ inst \in Seq(Instance) /\ Frames(inst, stack)
  BY <1>2, PatchFrame, TopFacts DEF ShapeInv, StackInv
<1>4. i \in Nat
  BY <1>3
<1>5. Advanced(stack', i) /\ Frames(inst, stack')
  <2>0. PICK to : to = stack'
    OBVIOUS
  <2>1. PICK new \in BOOLEAN : new = FALSE
    OBVIOUS
  <2>2. to = Took(i, new) /\ FrameInv(inst, With(Top, i, new))
    BY <1>1, <1>3, <2>0, <2>1
  <2>3. Advanced(to, i) /\ Frames(inst, to)
    BY <1>2, <1>3, <1>4, <2>2, TookFacts
  <2> QED BY <2>0, <2>1, <2>3
<1>6. ShapeInv'
  BY <1>2, <1>5, SameShape DEF PatchHost, ShapeInv, TypeOK, Advanced
<1>7. ASSUME Sound PROVE GoesOn(i)
  <2>1. i \notin gone
    BY <1>2, <1>7, TakenAlive DEF DiffInv
  <2>2. Grown(inst', inst)
    BY DEF Grown, PatchHost
  <2> QED BY <1>2, <1>4, <1>5, <2>1, <2>2 DEF GoesOn, PatchHost, Advanced
<1> QED BY <1>6, <1>7, GoesOnRest DEF PatchHost, DiffInv, Sound

\* A component's diff begins.
LEMMA CalledFrame ==
  ASSUME ShapeInv, NEW n \in DOMAIN inst, ~IsHost(n), NEW elems \in Seq(Elements),
         NEW mode, mode = Mode(inst[n], elems)
  PROVE  /\ FrameInv(inst, Frame(n, elems, mode)) /\ Frame(n, elems, mode) \in FrameType
         /\ inst[n].mounted => mode # "mount"
<1>1. inst \in Seq(Instance) /\ n \in Nat
  BY DEF ShapeInv, TypeOK
<1>2. mode \in {"mount", "position", "key"} /\ (inst[n].mounted <=> mode # "mount")
  BY DEF Mode
<1>3. Frame(n, elems, mode) \in FrameType
  <2>1. << >> \in Seq(Nat) /\ {} \in SUBSET Nat
    OBVIOUS
  <2> QED BY <1>1, <1>2, <2>1 DEF Frame, FrameType
<1>4. ASSUME mode = "mount"
      PROVE  inst[n].kids = << >> /\ \A m \in DOMAIN inst : n \notin ToSet(inst[m].kids)
  <2>1. ~inst[n].mounted /\ inst[n].kids = << >>
    BY <1>2, <1>4 DEF ShapeInv, TreeInv, Tree
  <2>2. \A m \in DOMAIN inst : \A p \in DOMAIN inst[m].kids :
          inst[inst[m].kids[p]].tag \in HostTags \/ inst[inst[m].kids[p]].mounted
    BY DEF ShapeInv, TreeInv, Placed, Matches
  <2> QED BY <2>1, <2>2 DEF ToSet, IsHost
<1>5. ASSUME mode = "position"
      PROVE  \A p \in DOMAIN inst[n].kids : inst[inst[n].kids[p]].key = NoKey
  BY <1>5 DEF Mode
<1> QED BY <1>2, <1>3, <1>4, <1>5, NewFrame DEF IsHost

\* What may begin on top of the diff that has gone on.
OnTop(is, mid, g, to) ==
  /\ to \in Seq(FrameType) /\ Len(to) = Len(stack) + 1 /\ Frames(is, to)
  /\ DOMAIN stack \subseteq DOMAIN to /\ \A k \in DOMAIN to \ DOMAIN stack : to[k] = g
  /\ \A k \in DOMAIN stack : to[k] = mid[k]
LEMMA PushedFacts ==
  ASSUME ShapeInv, stack # << >>, NEW is, NEW mid, NEW i \in Nat, Advanced(mid, i), Frames(is, mid),
         i > Top.owner, NEW g \in FrameType, FrameInv(is, g), g.owner = i
  PROVE  OnTop(is, mid, g, Append(mid, g))
<1>0. PICK to : to = Append(mid, g)
  OBVIOUS
<1>1. mid \in Seq(FrameType) /\ DOMAIN mid = DOMAIN stack /\ Len(mid) = Len(stack)
  BY DEF Advanced
<1>2. \A k \in DOMAIN mid : mid[k].owner < g.owner
  <2>1. \A k \in DOMAIN stack : k # Len(stack) => stack[k].owner < Top.owner
    BY TopFacts
  <2>2. Top = stack[Len(stack)] /\ Top.owner \in Nat /\ stack \in Seq(FrameType)
    BY TopFacts DEF ShapeInv, TypeOK
  <2>3. \A k \in DOMAIN stack : stack[k].owner \in Nat
    <3>1. \A k \in DOMAIN stack : stack[k] \in FrameType
      BY <2>2
    <3> QED BY <3>1 DEF FrameType
  <2> QED BY <1>1, <2>1, <2>2, <2>3 DEF Advanced
<1>3. /\ to \in Seq(FrameType) /\ Len(to) = Len(mid) + 1 /\ to # << >> /\ to[Len(to)] = g
      /\ \A k \in DOMAIN mid : k \in DOMAIN to /\ to[k] = mid[k]
      /\ Frames(is, to)
  <2>1. Pushed(is, mid, g, Append(mid, g))
    BY <1>1, <1>2, PushFrames
  <2> QED BY <1>0, <2>1 DEF Pushed
<1>4. \A k \in DOMAIN to \ DOMAIN mid : k = Len(to)
  BY <1>1, <1>3
<1> QED BY <1>0, <1>1, <1>3, <1>4 DEF OnTop

LEMMA PatchComponentDiff ==
  ASSUME DiffInv, PatchComponent
  PROVE  DiffInv'
<1>1. PICK i \in Taken : Calls(Took(i, FALSE), inst, i, Wanted.kids)
  BY DEF PatchComponent
<1>2. /\ ShapeInv /\ Matching /\ Wanted.tag \in CompTags /\ stack # << >> /\ doomed = << >>
      /\ Wanted.kids \in Seq(Elements) /\ Wanted.tag \notin HostTags
  BY WantedFacts, ReconcilerAssumption DEF PatchComponent, DiffInv, ReconcilerAssumption
<1>3. /\ FrameInv(inst, With(Top, i, FALSE)) /\ i \in DOMAIN inst /\ i > Top.owner
      /\ inst \in Seq(Instance) /\ Frames(inst, stack)
  BY <1>2, PatchFrame, TopFacts DEF ShapeInv, StackInv
<1>4. i \in Nat /\ ~IsHost(i)
  <2>1. Compatible(inst[i], Wanted)
    BY <1>2, TakenFacts
  <2> QED BY <1>2, <1>3, <2>1 DEF Compatible, IsHost
<1>5. PICK mid : mid = Took(i, FALSE) /\ Advanced(mid, i) /\ Frames(inst, mid)
  <2>0. PICK to : to = Took(i, FALSE)
    OBVIOUS
  <2>1. PICK new \in BOOLEAN : new = FALSE
    OBVIOUS
  <2>2. to = Took(i, new) /\ FrameInv(inst, With(Top, i, new))
    BY <1>3, <2>0, <2>1
  <2>3. Advanced(to, i) /\ Frames(inst, to)
    BY <1>2, <1>3, <1>4, <2>2, TookFacts
  <2> QED BY <2>0, <2>1, <2>3
<1>6. PICK mode : mode = Mode(inst[i], Wanted.kids)
  OBVIOUS
<1>7. PICK g : g = Frame(i, Wanted.kids, mode)
  OBVIOUS
<1>8. /\ g \in FrameType /\ FrameInv(inst, g) /\ g.owner = i /\ g.next = << >> /\ g.dropped = {}
      /\ g.mode = mode /\ g.elems = Wanted.kids
  <2>1. g \in FrameType /\ FrameInv(inst, g)
    BY <1>2, <1>3, <1>4, <1>6, <1>7, CalledFrame
  <2> QED BY <1>7, <2>1 DEF Frame
<1>9. stack' = Append(mid, g) /\ keyed' = (keyed /\ Careful(mode, Wanted.kids))
  BY <1>1, <1>5, <1>6, <1>7 DEF Calls
<1>10. OnTop(inst, mid, g, stack')
  <2>1. OnTop(inst, mid, g, Append(mid, g))
    BY <1>2, <1>3, <1>4, <1>5, <1>8, PushedFacts
  <2> QED BY <1>9, <2>1
<1>11. ShapeInv'
  <2>1. keyed' \in BOOLEAN
    BY <1>2, <1>9 DEF ShapeInv, TypeOK, Careful
  <2> QED BY <1>2, <1>10, <2>1, SameShape DEF PatchComponent, OnTop
<1>12. ASSUME Sound PROVE GoesOn(i)
  <2>1. i \notin gone
    BY <1>2, <1>12, TakenAlive DEF DiffInv
  <2>2. Grown(inst', inst) /\ inst' = inst
    BY DEF Grown, PatchComponent
  <2>3. \A k \in DOMAIN stack' \ DOMAIN stack :
       /\ stack'[k].owner = i /\ stack'[k].next = << >> /\ stack'[k].dropped = {}
       /\ keyed' => Careful(stack'[k].mode, stack'[k].elems)
    BY <1>8, <1>9, <1>10 DEF OnTop
  <2>4. \A k \in DOMAIN stack :
          /\ stack'[k].owner = stack[k].owner /\ stack'[k].elems = stack[k].elems /\ stack'[k].mode = stack[k].mode
          /\ stack'[k].dropped = stack[k].dropped
          /\ stack'[k].next = IF k = Len(stack) THEN Append(Top.next, i) ELSE stack[k].next
    BY <1>5, <1>10 DEF Advanced, OnTop
  <2>5. keyed' => keyed
    BY <1>9
  <2> QED BY <1>2, <1>4, <1>10, <2>1, <2>2, <2>3, <2>4, <2>5 DEF GoesOn, PatchComponent, OnTop
<1>13. Sound' => Sound
  BY <1>9 DEF Sound, PatchComponent
<1> QED BY <1>11, <1>12, <1>13, GoesOnRest DEF PatchComponent, DiffInv

\* The container, if what is made is a widget that is attached to it, or is none.
BoxIs(b, js) ==
  /\ b \in Seq(DOMAIN js) /\ (\A p \in DOMAIN b : js[b[p]].tag \in HostTags) /\ IsInjective(b)
  /\ ToSet(b) = {i \in DOMAIN js \ gone : js[i].tag \in HostTags}
LEMMA MountBox ==
  ASSUME ShapeInv, NEW js \in Seq(Instance), DOMAIN js = DOMAIN inst \cup {Newest},
         \A i \in DOMAIN inst : js[i] = inst[i], Newest \notin DOMAIN inst,
         NEW b, IF js[Newest].tag \in HostTags THEN b = Append(box, Newest) ELSE b = box
  PROVE  BoxIs(b, js)
<1>1. /\ box \in Seq(DOMAIN inst) /\ IsInjective(box)
      /\ ToSet(box) = {i \in DOMAIN inst \ gone : inst[i].tag \in HostTags}
      /\ gone \subseteq DOMAIN inst
  BY DEF ShapeInv, BoxInv, TypeOK, IsHost
<1>2. PICK S : S = DOMAIN js
  OBVIOUS
<1>3. \A p \in 1..Len(box) : box[p] \in S /\ box[p] \in ToSet(box)
  BY <1>1, <1>2 DEF ToSet
<1>4. box \in Seq(S) /\ Newest \in S
  BY <1>1, <1>2, <1>3
<1>5. ~Touchable(box, Newest)
  BY <1>1, InRow
<1>6. CASE js[Newest].tag \in HostTags
  <2>1. /\ Append(box, Newest) \in Seq(S) /\ IsInjective(Append(box, Newest))
        /\ \A v : Touchable(Append(box, Newest), v) <=> v = Newest \/ Touchable(box, v)
    BY <1>1, <1>4, <1>5, AppendFacts
  <2>2. b = Append(box, Newest)
    BY <1>6
  <2>3. \A v : v \in ToSet(b) <=> v = Newest \/ v \in ToSet(box)
    BY <2>1, <2>2, InRow
  <2>4. ToSet(b) = {i \in DOMAIN js \ gone : js[i].tag \in HostTags}
    BY <1>1, <1>6, <2>3
  <2>5. \A p \in DOMAIN b : b[p] \in ToSet(b)
    BY <2>1, <2>2 DEF ToSet
  <2> QED BY <1>2, <2>1, <2>2, <2>4, <2>5 DEF BoxIs
<1>7. CASE js[Newest].tag \notin HostTags
  <2>1. b = box
    BY <1>7
  <2>2. ToSet(b) = {i \in DOMAIN js \ gone : js[i].tag \in HostTags}
    BY <1>1, <1>7, <2>1
  <2>3. \A p \in DOMAIN b : b[p] \in ToSet(b)
    BY <2>1 DEF ToSet
  <2> QED BY <1>1, <1>2, <1>4, <2>1, <2>2, <2>3 DEF BoxIs
<1> QED BY <1>6, <1>7

\* What an action leaves of the shape when it makes an instance.
LEMMA MountShape ==
  ASSUME ShapeInv, doomed = << >>, UNCHANGED <<gone, doomed, renders>>, keyed' \in BOOLEAN,
         failed' \in BOOLEAN, threw' \in {"nothing", "component", "deleted"},
         inst' \in Seq(Instance), DOMAIN inst' = DOMAIN inst \cup {Newest},
         \A i \in DOMAIN inst : inst'[i] = inst[i], Newest \notin DOMAIN inst,
         Tree(inst'), Placed(inst'), stack' \in Seq(FrameType), Frames(inst', stack'),
         IF inst'[Newest].tag \in HostTags THEN box' = Append(box, Newest) ELSE box' = box
  PROVE  ShapeInv'
<1>1. PICK js, b : js = inst' /\ b = box'
  OBVIOUS
<1>2. BoxIs(b, js)
  <2>1. /\ js \in Seq(Instance) /\ DOMAIN js = DOMAIN inst \cup {Newest} /\ Newest \notin DOMAIN inst
        /\ \A i \in DOMAIN inst : js[i] = inst[i]
        /\ IF js[Newest].tag \in HostTags THEN b = Append(box, Newest) ELSE b = box
    BY <1>1
  <2> QED BY <2>1, MountBox
<1>3. << >> \in Seq(DOMAIN inst') /\ gone' \subseteq DOMAIN inst'
  BY DEF ShapeInv, TypeOK
<1>4. TypeOK'
  BY <1>1, <1>2, <1>3 DEF ShapeInv, TypeOK, IsHost, BoxIs
<1>5. TreeInv' /\ BoxInv'
  BY <1>1, <1>2 DEF TreeInv, BoxInv, IsHost, BoxIs
<1>6. StackInv'
  BY DEF ShapeInv, StackInv
<1> QED BY <1>4, <1>5, <1>6 DEF ShapeInv

\* What is made is an instance.
MadeAs(made, mounted) ==
  /\ made \in Instance /\ made.kids = << >> /\ made.asked = << >> /\ made.under = Top.owner
  /\ made.tag = Wanted.tag /\ made.key = Wanted.key /\ made.mounted = mounted
LEMMA MountedIs ==
  ASSUME NEW tag, NEW key, NEW n, NEW none, NEW a, NEW b, NEW made,
         made = [tag |-> tag, key |-> key, under |-> n, kids |-> none, asked |-> none, mounted |-> a]
  PROVE  [made EXCEPT !.mounted = b]
           = [tag |-> tag, key |-> key, under |-> n, kids |-> none, asked |-> none, mounted |-> b]
OBVIOUS

LEMMA MakingFacts ==
  ASSUME ShapeInv, Matching
  PROVE  MadeAs(Making, FALSE) /\ MadeAs([Making EXCEPT !.mounted = TRUE], TRUE)
<1>1. PICK tag, key, n : tag = Wanted.tag /\ key = Wanted.key /\ n = Top.owner
  OBVIOUS
<1>2. tag \in Tags \cup {RootTag} /\ key \in Keys \cup {NoKey} /\ n \in Nat /\ << >> \in Seq(Nat) /\ << >> \in Seq(Elements)
  BY <1>1, WantedFacts, TopFacts
<1>3. Making = [tag |-> tag, key |-> key, under |-> n, kids |-> << >>, asked |-> << >>, mounted |-> FALSE]
  BY <1>1 DEF Making, Made
<1>4. [Making EXCEPT !.mounted = TRUE]
        = [tag |-> tag, key |-> key, under |-> n, kids |-> << >>, asked |-> << >>, mounted |-> TRUE]
  <2>1. PICK none, a, b : none = << >> /\ a = FALSE /\ b = TRUE
    OBVIOUS
  <2>2. Making = [tag |-> tag, key |-> key, under |-> n, kids |-> none, asked |-> none, mounted |-> a]
    BY <1>3, <2>1
  <2>3. [Making EXCEPT !.mounted = b]
          = [tag |-> tag, key |-> key, under |-> n, kids |-> none, asked |-> none, mounted |-> b]
    BY <2>2, MountedIs
  <2> QED BY <2>1, <2>3, Zenon
<1>5. MadeAs(Making, FALSE)
  BY <1>1, <1>2, <1>3 DEF MadeAs, Instance
<1>6. MadeAs([Making EXCEPT !.mounted = TRUE], TRUE)
  BY <1>1, <1>2, <1>4 DEF MadeAs, Instance
<1> QED BY <1>5, <1>6

\* Everything about making an instance that does not depend on what becomes of it.
MadeInv(js, made) ==
  /\ js \in Seq(Instance) /\ Newest \in Nat \ {0} /\ DOMAIN js = DOMAIN inst \cup {Newest} /\ Newest \notin DOMAIN inst
  /\ js[Newest] = made /\ (\A i \in DOMAIN inst : js[i] = inst[i] /\ i < Newest)
  /\ Grown(js, inst) /\ Tree(js) /\ Placed(js) /\ Frames(js, stack)
  /\ (\A n \in DOMAIN js : Newest \notin ToSet(js[n].kids))
  /\ Collect(js) = Collect(inst)
LEMMA MountFacts ==
  ASSUME ShapeInv, Matching, Taken = {}, NEW made \in Instance, made.kids = << >>, made.asked = << >>,
         made.under = Top.owner, made.tag = Wanted.tag, made.key = Wanted.key, made.tag \in Tags
  PROVE  /\ MadeInv(Append(inst, made), made)
         /\ made.tag \in HostTags \/ made.mounted => FrameInv(Append(inst, made), With(Top, Newest, TRUE))
<1>1. PICK js : js = Append(inst, made)
  OBVIOUS
<1>2. stack # << >>
  BY WantedFacts
<1>3. MadeInv(js, made)
  <2>1. /\ js \in Seq(Instance) /\ Newest \in Nat \ {0} /\ DOMAIN js = DOMAIN inst \cup {Newest} /\ Len(js) = Newest
        /\ Newest \notin DOMAIN inst /\ \A i \in DOMAIN inst : i < Newest
        /\ js[Newest] = made /\ \A i \in DOMAIN inst : js[i] = inst[i]
        /\ Grown(js, inst) /\ Tree(js) /\ Placed(js) /\ Frames(js, stack)
        /\ \A n \in DOMAIN js : Newest \notin ToSet(js[n].kids)
        /\ Collect(js) = Collect(inst)
    BY <1>1, <1>2, MadeFacts
  <2> QED BY <2>1 DEF MadeInv
<1>4. made.tag \in HostTags \/ made.mounted => FrameInv(js, With(Top, Newest, TRUE))
  BY <1>1, MountFrameFacts
<1> QED BY <1>1, <1>3, <1>4

LEMMA MountHostDiff ==
  ASSUME DiffInv, MountHost
  PROVE  DiffInv'
<1>1. PICK made, js : made = Making /\ js = Append(inst, made)
  OBVIOUS
<1>2. /\ ShapeInv /\ Matching /\ Taken = {} /\ Wanted.tag \in HostTags /\ stack # << >> /\ doomed = << >>
      /\ Wanted.tag \in Tags /\ Wanted.tag \notin CompTags
  BY WantedFacts, ReconcilerAssumption DEF MountHost, Mount, DiffInv, ReconcilerAssumption
<1>3. MadeAs(made, FALSE) /\ inst' = js
  BY <1>1, <1>2, MakingFacts DEF MountHost, Mount
<1>4. MadeInv(js, made) /\ FrameInv(js, With(Top, Newest, TRUE))
  <2>1. /\ made \in Instance /\ made.kids = << >> /\ made.asked = << >> /\ made.under = Top.owner
        /\ made.tag = Wanted.tag /\ made.key = Wanted.key /\ made.tag \in HostTags /\ made.tag \in Tags
    BY <1>2, <1>3 DEF MadeAs
  <2> QED BY <1>1, <1>2, <2>1, MountFacts
<1>5. Advanced(stack', Newest) /\ Frames(js, stack')
  <2>0. PICK to : to = stack'
    OBVIOUS
  <2>1. PICK new \in BOOLEAN : new = TRUE
    OBVIOUS
  <2>2. to = Took(Newest, new) /\ FrameInv(js, With(Top, Newest, new)) /\ Newest \in Nat /\ Frames(js, stack)
    BY <1>4, <2>0, <2>1 DEF MountHost, MadeInv
  <2>3. Advanced(to, Newest) /\ Frames(js, to)
    BY <1>2, <2>2, TookFacts
  <2> QED BY <2>0, <2>1, <2>3
<1>6. ShapeInv'
  <2>1. js[Newest].tag \in HostTags
    BY <1>2, <1>3, <1>4 DEF MadeAs, MadeInv
  <2>2. /\ keyed' \in BOOLEAN /\ failed' \in BOOLEAN /\ threw' \in {"nothing", "component", "deleted"}
    BY <1>2 DEF MountHost, ShapeInv, TypeOK
  <2>3. IF inst'[Newest].tag \in HostTags THEN box' = Append(box, Newest) ELSE box' = box
    BY <1>3, <2>1 DEF MountHost
  <2>4. UNCHANGED <<gone, doomed, renders>>
    BY DEF MountHost
  <2> QED BY <1>2, <1>3, <1>4, <1>5, <2>2, <2>3, <2>4, MountShape DEF Advanced, MadeInv
<1>7. GoesOn(Newest)
  <2>1. Newest \notin gone /\ Newest \in Nat
    BY <1>2, <1>4 DEF ShapeInv, TypeOK, MadeInv
  <2>2. \A n \in DOMAIN js \ DOMAIN inst : n = Newest /\ js[n].kids = << >> /\ js[n].under = Top.owner
    BY <1>3, <1>4 DEF MadeInv, MadeAs
  <2> QED BY <1>2, <1>3, <1>4, <1>5, <2>1, <2>2 DEF GoesOn, MountHost, MadeInv, Advanced
<1>8. IsPrefix(Collect(inst), box) => IsPrefix(Collect(inst), box')
  <2>1. PICK S : S = DOMAIN js
    OBVIOUS
  <2>2. Collect(inst) \in Seq(DOMAIN inst) /\ box \in Seq(DOMAIN inst)
    BY <1>2, TreeFacts DEF ShapeInv, TypeOK, TreeInv
  <2>3. \A row \in Seq(DOMAIN inst) : row \in Seq(S)
    <3>1. SUFFICES ASSUME NEW row \in Seq(DOMAIN inst) PROVE row \in Seq(S)
      OBVIOUS
    <3>2. \A p \in 1..Len(row) : row[p] \in S
      BY <1>4, <2>1 DEF MadeInv
    <3> QED BY <3>2
  <2>4. Newest \in S
    BY <1>4, <2>1 DEF MadeInv
  <2> QED BY <2>2, <2>3, <2>4, PrefixAppend DEF MountHost
<1>9. Sound' => Sound
  BY DEF Sound, MountHost
<1> QED BY <1>3, <1>4, <1>6, <1>7, <1>8, <1>9, GoesOnRest DEF DiffInv, MadeInv

LEMMA MountComponentDiff ==
  ASSUME DiffInv, MountComponent
  PROVE  DiffInv'
<1>1. PICK made, js : made = [Making EXCEPT !.mounted = TRUE] /\ js = Append(inst, made)
  OBVIOUS
<1>2. /\ ShapeInv /\ Matching /\ Taken = {} /\ Wanted.tag \in CompTags /\ stack # << >> /\ doomed = << >>
      /\ Wanted.tag \in Tags /\ Wanted.tag \notin HostTags /\ Wanted.kids \in Seq(Elements)
  BY WantedFacts, ReconcilerAssumption DEF MountComponent, Mount, DiffInv, ReconcilerAssumption
<1>3. MadeAs(made, TRUE) /\ inst' = js
  BY <1>1, <1>2, MakingFacts DEF MountComponent, Mount
<1>4. MadeInv(js, made) /\ FrameInv(js, With(Top, Newest, TRUE))
  <2>1. /\ made \in Instance /\ made.kids = << >> /\ made.asked = << >> /\ made.under = Top.owner
        /\ made.tag = Wanted.tag /\ made.key = Wanted.key /\ made.mounted /\ made.tag \in Tags
    BY <1>2, <1>3 DEF MadeAs
  <2> QED BY <1>1, <1>2, <2>1, MountFacts
<1>5. PICK mid : mid = Took(Newest, TRUE) /\ Advanced(mid, Newest) /\ Frames(js, mid)
  <2>0. PICK to : to = Took(Newest, TRUE)
    OBVIOUS
  <2>1. PICK new \in BOOLEAN : new = TRUE
    OBVIOUS
  <2>2. to = Took(Newest, new) /\ FrameInv(js, With(Top, Newest, new)) /\ Newest \in Nat /\ Frames(js, stack)
    BY <1>4, <2>0, <2>1 DEF MadeInv
  <2>3. Advanced(to, Newest) /\ Frames(js, to)
    BY <1>2, <2>2, TookFacts
  <2> QED BY <2>0, <2>1, <2>3
<1>6. PICK g : g = Frame(Newest, Wanted.kids, "mount")
  OBVIOUS
<1>7. /\ g.owner = Newest /\ g.next = << >> /\ g.dropped = {} /\ g.mode = "mount" /\ g.elems = Wanted.kids
      /\ g.structural = FALSE
  BY <1>6 DEF Frame
<1>8. g \in FrameType /\ FrameInv(js, g)
  <2>1. g \in FrameType
    <3>1. << >> \in Seq(Nat) /\ {} \in SUBSET Nat /\ Newest \in Nat
      BY <1>4 DEF MadeInv
    <3> QED BY <1>2, <1>6, <3>1 DEF Frame, FrameType
  <2>2. PICK mode : mode = "mount"
    OBVIOUS
  <2>3. /\ js[Newest].kids = << >> /\ js[Newest].tag \notin HostTags /\ Newest \in DOMAIN js
        /\ \A m \in DOMAIN js : Newest \notin ToSet(js[m].kids)
    BY <1>2, <1>3, <1>4 DEF MadeInv, MadeAs
  <2>4. FrameInv(js, Frame(Newest, Wanted.kids, mode))
    BY <1>2, <2>2, <2>3, NewFrame
  <2> QED BY <1>6, <2>1, <2>2, <2>4
<1>9. OnTop(js, mid, g, stack')
  <2>1. Newest > Top.owner /\ Newest \in Nat
    BY <1>2, <1>4, TopFacts DEF MadeInv
  <2>2. OnTop(js, mid, g, Append(mid, g))
    BY <1>2, <1>5, <1>7, <1>8, <2>1, PushedFacts
  <2> QED BY <1>5, <1>6, <2>2 DEF MountComponent
<1>10. ShapeInv'
  <2>1. js[Newest].tag \notin HostTags
    BY <1>2, <1>3, <1>4 DEF MadeAs, MadeInv
  <2>2. /\ keyed' \in BOOLEAN /\ failed' \in BOOLEAN /\ threw' \in {"nothing", "component", "deleted"}
    BY <1>2 DEF MountComponent, ShapeInv, TypeOK
  <2>3. IF inst'[Newest].tag \in HostTags THEN box' = Append(box, Newest) ELSE box' = box
    BY <1>3, <2>1 DEF MountComponent
  <2>4. UNCHANGED <<gone, doomed, renders>>
    BY DEF MountComponent
  <2> QED BY <1>2, <1>3, <1>4, <1>9, <2>2, <2>3, <2>4, MountShape DEF OnTop, MadeInv
<1>11. GoesOn(Newest)
  <2>1. Newest \notin gone /\ Newest \in Nat
    BY <1>2, <1>4 DEF ShapeInv, TypeOK, MadeInv
  <2>2. \A n \in DOMAIN js \ DOMAIN inst : n = Newest /\ js[n].kids = << >> /\ js[n].under = Top.owner
    BY <1>3, <1>4 DEF MadeInv, MadeAs
  <2>3. \A k \in DOMAIN stack' \ DOMAIN stack :
       /\ stack'[k].owner = Newest /\ stack'[k].next = << >> /\ stack'[k].dropped = {}
       /\ keyed' => Careful(stack'[k].mode, stack'[k].elems)
    BY <1>7, <1>9 DEF OnTop, Careful
  <2>4. \A k \in DOMAIN stack :
          /\ stack'[k].owner = stack[k].owner /\ stack'[k].elems = stack[k].elems /\ stack'[k].mode = stack[k].mode
          /\ stack'[k].dropped = stack[k].dropped
          /\ stack'[k].next = IF k = Len(stack) THEN Append(Top.next, Newest) ELSE stack[k].next
    BY <1>5, <1>9 DEF Advanced, OnTop
  <2> QED BY <1>2, <1>3, <1>4, <1>9, <2>1, <2>2, <2>3, <2>4 DEF GoesOn, MountComponent, MadeInv, OnTop
<1>12. Sound' => Sound
  BY DEF Sound, MountComponent
<1> QED BY <1>3, <1>4, <1>10, <1>11, <1>12, GoesOnRest DEF DiffInv, MadeInv, MountComponent

\* A component that throws ends every diff; where children are matched by key
\* none of them had yet unmounted anything.
LEMMA NoneDroppedYet ==
  ASSUME ShapeInv, KeyedInv, keyed, Matching, Wanted.throws
  PROVE  NoneDropped
<1>1. /\ Wanted = Top.elems[Place] /\ Place \in DOMAIN Top.elems /\ Wanted.tag \notin HostTags
      /\ Len(Top.next) < Len(Top.elems) /\ Len(Top.next) \in Nat /\ Len(Top.elems) \in Nat
  BY WantedFacts, TopFacts
<1>2. ASSUME NEW k \in DOMAIN stack PROVE stack[k].dropped = {}
  <2>1. stack[k].dropped # {} =>
          /\ k = Len(stack)
          /\ \/ Len(stack[k].next) = Len(stack[k].elems)
             \/ \A p \in DOMAIN stack[k].elems : stack[k].elems[p].tag \in HostTags
    BY DEF KeyedInv
  <2>2. k = Len(stack) => stack[k] = Top
    BY DEF Top
  <2> QED BY <1>1, <2>1, <2>2
<1> QED BY <1>2 DEF NoneDropped

LEMMA ThrowsRest ==
  ASSUME DiffInv, Matching, Wanted.throws, Throws("component"), UNCHANGED <<gone, box, keyed>>,
         \A n \in DOMAIN inst' \ DOMAIN inst : inst'[n].kids = << >>,
         \A n \in DOMAIN inst : inst'[n].kids = inst[n].kids, Collect(inst') = Collect(inst)
  PROVE  KeyedInv' /\ GoneInv' /\ AccountInv' /\ PrefixInv'
<1> SUFFICES ASSUME Sound' PROVE KeyedInv' /\ GoneInv' /\ AccountInv' /\ PrefixInv'
  BY Unsound
<1>1. failed' /\ stack' = << >> /\ doomed' = << >> /\ threw' = "component"
  BY DEF Throws
<1>2. keyed /\ keyed' /\ ShapeInv /\ KeyedInv /\ Sound
  BY <1>1 DEF Sound, DiffInv
<1>3. NoneDropped
  BY <1>2, NoneDroppedYet
<1>4. DOMAIN << >> = {} /\ ToSet(<< >>) = {} /\ IsInjective(<< >>)
  BY DEF ToSet, IsInjective
<1>5. KeyedInv' /\ AccountInv'
  BY <1>1, <1>4 DEF KeyedInv, AccountInv
<1>6. GoneKids'
  <2>1. \A n \in DOMAIN inst \ gone : ToSet(inst[n].kids) \cap gone = {}
    BY <1>2, <1>3 DEF DiffInv, GoneInv, GoneKids, Dropped, NoneDropped
  <2> QED BY <1>4, <2>1 DEF GoneKids
<1>7. GoneInv'
  <2>1. GoneFrames'
    BY <1>1, <1>4 DEF GoneFrames
  <2>2. GoneDoomed'
    BY <1>1, <1>4 DEF GoneDoomed
  <2> QED BY <1>6, <2>1, <2>2 DEF GoneInv
<1>8. PrefixInv'
  BY <1>2, <1>3 DEF DiffInv, PrefixInv
<1> QED BY <1>5, <1>7, <1>8

LEMMA PatchThrowsDiff ==
  ASSUME DiffInv, PatchThrows
  PROVE  DiffInv'
<1>1. /\ ShapeInv /\ Matching /\ Wanted.throws /\ Throws("component") /\ UNCHANGED <<inst, gone, box, renders, keyed>>
      /\ doomed = << >>
  BY WantedFacts DEF PatchThrows, DiffInv
<1>2. KeyedInv' /\ GoneInv' /\ AccountInv' /\ PrefixInv'
  BY <1>1, ThrowsRest
<1>3. /\ stack' = << >> /\ doomed' = << >> /\ threw' = "component" /\ failed' = TRUE
  BY <1>1 DEF Throws
<1>4. DOMAIN << >> = {} /\ << >> \in Seq(FrameType) /\ << >> \in Seq(DOMAIN inst)
  OBVIOUS
<1>5. TypeOK'
  BY <1>1, <1>3, <1>4 DEF ShapeInv, TypeOK, IsHost
<1>6. TreeInv' /\ BoxInv'
  BY <1>1 DEF ShapeInv, TreeInv, BoxInv, IsHost
<1>7. StackInv'
  BY <1>1, <1>3, <1>4 DEF ShapeInv, StackInv, Frames
<1> QED BY <1>2, <1>5, <1>6, <1>7 DEF DiffInv, ShapeInv

LEMMA MountThrowsDiff ==
  ASSUME DiffInv, MountThrows
  PROVE  DiffInv'
<1>1. PICK made, js : made = Making /\ js = Append(inst, made)
  OBVIOUS
<1>2. /\ ShapeInv /\ Matching /\ Taken = {} /\ Wanted.throws /\ Wanted.tag \notin HostTags /\ doomed = << >>
      /\ Wanted.tag \in Tags /\ Throws("component") /\ UNCHANGED <<gone, box, renders, keyed>>
  BY WantedFacts DEF MountThrows, Mount, DiffInv
<1>3. MadeAs(made, FALSE) /\ inst' = js
  BY <1>1, <1>2, MakingFacts DEF MountThrows, Mount
<1>4. MadeInv(js, made)
  <2>1. /\ made \in Instance /\ made.kids = << >> /\ made.asked = << >> /\ made.under = Top.owner
        /\ made.tag = Wanted.tag /\ made.key = Wanted.key /\ made.tag \in Tags
    BY <1>2, <1>3 DEF MadeAs
  <2> QED BY <1>1, <1>2, <2>1, MountFacts
<1>5. /\ stack' = << >> /\ doomed' = << >> /\ threw' = "component" /\ failed' = TRUE
  BY <1>2 DEF Throws
<1>6. stack' \in Seq(FrameType) /\ Frames(inst', stack')
  <2>1. << >> \in Seq(FrameType) /\ DOMAIN << >> = {}
    OBVIOUS
  <2> QED BY <1>5, <2>1 DEF Frames
<1>7. ShapeInv'
  <2>1. js[Newest].tag \notin HostTags
    BY <1>2, <1>3, <1>4 DEF MadeAs, MadeInv
  <2>2. /\ keyed' \in BOOLEAN /\ failed' \in BOOLEAN /\ threw' \in {"nothing", "component", "deleted"}
    BY <1>2, <1>5 DEF ShapeInv, TypeOK
  <2>3. IF inst'[Newest].tag \in HostTags THEN box' = Append(box, Newest) ELSE box' = box
    BY <1>2, <1>3, <2>1
  <2>4. UNCHANGED <<gone, doomed, renders>>
    BY <1>2, <1>5
  <2> QED BY <1>2, <1>3, <1>4, <1>6, <2>2, <2>3, <2>4, MountShape DEF MadeInv
<1>8. /\ \A n \in DOMAIN inst' \ DOMAIN inst : inst'[n].kids = << >>
      /\ \A n \in DOMAIN inst : inst'[n].kids = inst[n].kids
      /\ Collect(inst') = Collect(inst)
  BY <1>3, <1>4 DEF MadeInv, MadeAs
<1>9. KeyedInv' /\ GoneInv' /\ AccountInv' /\ PrefixInv'
  BY <1>2, <1>8, ThrowsRest
<1> QED BY <1>7, <1>9 DEF DiffInv

\* A diff that has dropped one of its owner's children.
Less(f, p) == [f EXCEPT !.dropped = @ \cup {p}, !.structural = TRUE]

LEMMA LessIs ==
  ASSUME NEW f \in FrameType, NEW p \in Nat
  PROVE  /\ Less(f, p) \in FrameType
         /\ Less(f, p).owner = f.owner /\ Less(f, p).elems = f.elems /\ Less(f, p).mode = f.mode
         /\ Less(f, p).next = f.next /\ Less(f, p).dropped = f.dropped \cup {p} /\ Less(f, p).structural
<1>1. f.dropped \cup {p} \in SUBSET Nat
  BY DEF FrameType
<1>2. Less(f, p) \in FrameType
  BY <1>1 DEF Less, FrameType
<1>3. Less(f, p).structural
  BY DEF Less, FrameType
<1> QED BY <1>2, <1>3 DEF Less, FrameType

\* What the diff on top drops is none of the children it has got, and is by
\* position in the way of the next element, or left when it has them all.
LEMMA LeavingFacts ==
  ASSUME ShapeInv, Diffing, NEW p \in InTheWay \cup Leftovers
  PROVE  /\ p \in DOMAIN Old \ Top.dropped /\ p \in Nat /\ Old[p] \notin ToSet(Top.next)
         /\ \/ Len(Top.next) = Len(Top.elems)
            \/ /\ Top.mode = "position" /\ p = Len(Top.next) + 1
               /\ ~Compatible(inst[Old[p]], Top.elems[p])
<1>1. /\ stack # << >> /\ FrameInv(inst, Top) /\ IsInjective(Old) /\ Old \in Seq(DOMAIN inst)
      /\ Top.next \in Seq(DOMAIN inst) /\ Top.elems \in Seq(Elements) /\ Len(Top.next) <= Len(Top.elems)
  BY TopFacts DEF Diffing
<1>2. p \in DOMAIN Old \ Top.dropped /\ p \in Nat
  BY <1>1 DEF InTheWay, Leftovers
<1>3. CASE p \in InTheWay
  <2>1. Top.mode = "position" /\ p = Len(Top.next) + 1 /\ ~Compatible(inst[Old[p]], Top.elems[p])
    BY <1>3 DEF InTheWay, Place, Wanted
  <2>2. ASSUME Old[p] \in ToSet(Top.next) PROVE FALSE
    <3>1. PICK j \in DOMAIN Top.next : Top.next[j] = Old[p]
      BY <2>2 DEF ToSet
    <3>2. Top.next[j] \in ToSet(Old)
      BY <1>2, <3>1 DEF ToSet
    <3>3. j \in DOMAIN Old /\ Top.next[j] = Old[j]
      BY <1>1, <2>1, <3>2 DEF FrameInv, PositionFrame, Old
    <3>4. j = p
      BY <1>1, <1>2, <3>1, <3>3 DEF IsInjective
    <3> QED BY <1>1, <2>1, <3>4
  <2> QED BY <1>2, <2>1, <2>2
<1>4. CASE p \in Leftovers
  <2>1. Len(Top.next) = Len(Top.elems)
    BY <1>1, <1>4 DEF Leftovers, Matched, Place
  <2> QED BY <1>2, <1>4, <2>1 DEF Leftovers, Reused
<1> QED BY <1>3, <1>4

LEMMA LessFrame ==
  ASSUME ShapeInv, Diffing, NEW p \in InTheWay \cup Leftovers
  PROVE  FrameInv(inst, Less(Top, p))
<1>1. PICK f \in FrameType : f = Top /\ FrameInv(inst, f)
  BY TopFacts DEF Diffing
<1>2. PICK old : old = inst[f.owner].kids /\ old = Old
  BY <1>1 DEF Old
<1>3. /\ p \in DOMAIN old /\ p \in Nat /\ old[p] \notin ToSet(f.next)
      /\ \/ Len(f.next) = Len(f.elems)
         \/ f.mode = "position" /\ p = Len(f.next) + 1 /\ ~Compatible(inst[old[p]], f.elems[p])
  BY <1>1, <1>2, LeavingFacts
<1>4. PICK g : g = Less(f, p)
  OBVIOUS
<1>5. /\ g.owner = f.owner /\ g.elems = f.elems /\ g.mode = f.mode
      /\ g.next = f.next /\ g.dropped = f.dropped \cup {p} /\ g.structural
  BY <1>3, <1>4, LessIs
<1>6. /\ g.dropped \subseteq DOMAIN old /\ \A q \in g.dropped : old[q] \notin ToSet(g.next)
  BY <1>1, <1>2, <1>3, <1>5 DEF FrameInv
<1>7. MountFrame(inst, g)
  BY <1>1, <1>5 DEF FrameInv, MountFrame
<1>8. PositionFrame(inst, g)
  <2> SUFFICES ASSUME f.mode = "position" PROVE PositionFrame(inst, g)
    BY <1>5 DEF PositionFrame
  <2>1. /\ \A x \in DOMAIN f.next : f.next[x] \in ToSet(old) => x \in DOMAIN old /\ f.next[x] = old[x]
        /\ \A x \in f.dropped \cap (Len(f.next)+1..Len(f.elems)) : ~Compatible(inst[old[x]], f.elems[x])
        /\ \A x \in DOMAIN old : inst[old[x]].key = NoKey
    BY <1>1, <1>2 DEF FrameInv, PositionFrame
  <2>2. Len(f.next) \in Nat /\ Len(f.elems) \in Nat
    BY DEF FrameType
  <2>3. \A x \in g.dropped \cap (Len(f.next)+1..Len(f.elems)) : ~Compatible(inst[old[x]], f.elems[x])
    BY <1>3, <1>5, <2>1, <2>2
  <2>4. inst[g.owner].kids = old /\ g.next = f.next /\ g.elems = f.elems
    BY <1>2, <1>5
  <2>5. /\ \A x \in DOMAIN g.next : g.next[x] \in ToSet(old) => x \in DOMAIN old /\ g.next[x] = old[x]
        /\ \A x \in g.dropped \cap (Len(g.next)+1..Len(g.elems)) : ~Compatible(inst[old[x]], g.elems[x])
    BY <2>1, <2>3, <2>4
  <2> QED BY <2>1, <2>4, <2>5 DEF PositionFrame
<1>9. KeyFrame(inst, g)
  BY <1>1, <1>3, <1>5 DEF FrameInv, KeyFrame
<1>10. /\ g.owner \in DOMAIN inst /\ inst[g.owner].tag \notin HostTags
       /\ ChildrenOf(inst, g.owner, g.next) /\ Matches(inst, g.next, g.elems)
  BY <1>1, <1>5 DEF FrameInv
<1>11. FrameInv(inst, g)
  BY <1>2, <1>5, <1>6, <1>7, <1>8, <1>9, <1>10 DEF FrameInv
<1> QED BY <1>1, <1>4, <1>11

\* The stack after that.
DroppedBy(to, p) ==
  /\ to \in Seq(FrameType) /\ to # << >> /\ DOMAIN to = DOMAIN stack /\ Len(to) = Len(stack) /\ Frames(inst, to)
  /\ \A k \in DOMAIN stack :
       /\ to[k].owner = stack[k].owner /\ to[k].elems = stack[k].elems /\ to[k].mode = stack[k].mode
       /\ to[k].next = stack[k].next
       /\ to[k].dropped = IF k = Len(stack) THEN stack[k].dropped \cup {p} ELSE stack[k].dropped
LEMMA DroppedFacts ==
  ASSUME ShapeInv, Diffing, NEW p \in InTheWay \cup Leftovers, NEW to,
         to = [stack EXCEPT ![Len(stack)].dropped = @ \cup {p}, ![Len(stack)].structural = TRUE]
  PROVE  DroppedBy(to, p)
<1>1. /\ stack \in Seq(FrameType) /\ stack # << >> /\ Top \in FrameType /\ Len(stack) \in DOMAIN stack
      /\ Top = stack[Len(stack)] /\ Frames(inst, stack)
  BY TopFacts DEF ShapeInv, TypeOK, StackInv, Diffing
<1>2. PICK g : g = Less(Top, p)
  OBVIOUS
<1>3. /\ g.owner = Top.owner /\ g.elems = Top.elems /\ g.mode = Top.mode
      /\ g.next = Top.next /\ g.dropped = Top.dropped \cup {p} /\ g \in FrameType
  <2>1. PICK f \in FrameType : f = Top
    BY <1>1
  <2>2. p \in Nat
    BY LeavingFacts
  <2>3. /\ Less(f, p) \in FrameType
        /\ Less(f, p).owner = f.owner /\ Less(f, p).elems = f.elems /\ Less(f, p).mode = f.mode
        /\ Less(f, p).next = f.next /\ Less(f, p).dropped = f.dropped \cup {p}
    BY <2>2, LessIs
  <2> QED BY <1>2, <2>1, <2>3
<1>4. to = [stack EXCEPT ![Len(stack)] = g]
  BY <1>1, <1>2 DEF Less
<1>5. FrameInv(inst, g) /\ g.owner = stack[Len(stack)].owner
  BY <1>1, <1>2, <1>3, LessFrame
<1>6. /\ to \in Seq(FrameType) /\ Len(to) = Len(stack) /\ to # << >> /\ to[Len(to)] = g
      /\ \A k \in DOMAIN stack : k \in DOMAIN to /\ (k # Len(stack) => to[k] = stack[k])
      /\ Frames(inst, to)
  BY <1>1, <1>3, <1>4, <1>5, TopFrames
<1>7. DOMAIN to = DOMAIN stack
  BY <1>1, <1>6
<1>8. ASSUME NEW k \in DOMAIN stack
      PROVE  /\ to[k].owner = stack[k].owner /\ to[k].elems = stack[k].elems /\ to[k].mode = stack[k].mode
             /\ to[k].next = stack[k].next
             /\ to[k].dropped = IF k = Len(stack) THEN stack[k].dropped \cup {p} ELSE stack[k].dropped
  <2>1. CASE k = Len(stack)
    BY <1>1, <1>3, <1>6, <2>1
  <2>2. CASE k # Len(stack)
    BY <1>6, <2>2
  <2> QED BY <2>1, <2>2
<1> QED BY <1>6, <1>7, <1>8 DEF DroppedBy

LEMMA DropDiff ==
  ASSUME DiffInv, Drop
  PROVE  DiffInv'
<1>1. PICK p \in InTheWay \cup Leftovers :
        /\ doomed' = <<Old[p]>>
        /\ stack' = [stack EXCEPT ![Len(stack)].dropped = @ \cup {p}, ![Len(stack)].structural = TRUE]
  BY DEF Drop
<1>2. /\ ShapeInv /\ Diffing /\ stack # << >> /\ doomed = << >>
      /\ UNCHANGED <<inst, gone, box, threw, renders, failed, keyed>>
  BY DEF Drop, Diffing, DiffInv
<1>3. PICK h : h = Old[p]
  OBVIOUS
<1>4. /\ p \in DOMAIN Old \ Top.dropped /\ h \notin ToSet(Top.next)
      /\ \/ Len(Top.next) = Len(Top.elems)
         \/ Top.mode = "position"
  BY <1>2, <1>3, LeavingFacts
<1>5. /\ h \in DOMAIN inst /\ h > Top.owner /\ inst[h].under = Top.owner /\ Top.owner \in DOMAIN inst
      /\ inst \in Seq(Instance) /\ Len(stack) \in DOMAIN stack /\ Top = stack[Len(stack)]
      /\ (\A k \in DOMAIN stack : k # Len(stack) => stack[k].owner < Top.owner)
      /\ Top.dropped \subseteq DOMAIN Old /\ stack \in Seq(FrameType)
  BY <1>2, <1>3, <1>4, TopFacts DEF FrameInv, Old, ShapeInv, TypeOK
<1>6. DroppedBy(stack', p)
  <2>1. PICK to : to = stack'
    OBVIOUS
  <2>2. to = [stack EXCEPT ![Len(stack)].dropped = @ \cup {p}, ![Len(stack)].structural = TRUE]
    BY <1>1, <2>1
  <2> QED BY <1>2, <2>1, <2>2, DroppedFacts
<1>7. doomed' = <<h>> /\ doomed' \in Seq(DOMAIN inst) /\ ToSet(doomed') = {h} /\ IsInjective(doomed') /\ doomed' # << >>
  <2>1. DOMAIN <<h>> = {1} /\ <<h>>[1] = h /\ <<h>> \in Seq(DOMAIN inst) /\ <<h>> # << >>
    BY <1>5
  <2> QED BY <1>1, <1>3, <2>1 DEF ToSet, IsInjective
<1>8. Top'.owner = Top.owner /\ Top'.dropped = Top.dropped \cup {p}
  BY <1>5, <1>6 DEF DroppedBy, Top
<1>9. ShapeInv'
  <2>1. TypeOK'
    BY <1>2, <1>6, <1>7 DEF ShapeInv, TypeOK, IsHost, DroppedBy
  <2>2. TreeInv' /\ BoxInv'
    BY <1>2 DEF ShapeInv, TreeInv, BoxInv, IsHost
  <2>3. Root # h
    BY <1>5 DEF Root
  <2>4. StackInv'
    BY <1>2, <1>6, <1>7, <1>8, <2>3 DEF ShapeInv, StackInv, DroppedBy
  <2> QED BY <2>1, <2>2, <2>4 DEF ShapeInv
<1>10. KeyedInv'
  <2> SUFFICES ASSUME keyed' PROVE threw' # "deleted" /\ \A k \in DOMAIN stack' :
        /\ Careful(stack'[k].mode, stack'[k].elems)
        /\ stack'[k].dropped # {} =>
             /\ k = Len(stack')
             /\ \/ Len(stack'[k].next) = Len(stack'[k].elems)
                \/ \A q \in DOMAIN stack'[k].elems : stack'[k].elems[q].tag \in HostTags
    BY DEF KeyedInv
  <2>1. keyed /\ threw' # "deleted"
    BY <1>2 DEF DiffInv, KeyedInv
  <2>2. ASSUME NEW k \in DOMAIN stack
        PROVE  /\ Careful(stack[k].mode, stack[k].elems)
               /\ stack[k].dropped # {} =>
                    /\ k = Len(stack)
                    /\ \/ Len(stack[k].next) = Len(stack[k].elems)
                       \/ \A q \in DOMAIN stack[k].elems : stack[k].elems[q].tag \in HostTags
    BY <2>1 DEF DiffInv, KeyedInv
  <2>3. \/ Len(Top.next) = Len(Top.elems)
        \/ \A q \in DOMAIN Top.elems : Top.elems[q].tag \in HostTags
    BY <1>4, <1>5, <2>2 DEF Careful
  <2>4. ASSUME NEW k \in DOMAIN stack
        PROVE  /\ k \in DOMAIN stack' /\ Len(stack') = Len(stack)
               /\ stack'[k].elems = stack[k].elems /\ stack'[k].mode = stack[k].mode
               /\ stack'[k].next = stack[k].next /\ (k # Len(stack) => stack'[k].dropped = stack[k].dropped)
    BY <1>6 DEF DroppedBy
  <2>5. DOMAIN stack' = DOMAIN stack
    BY <1>6 DEF DroppedBy
  <2>6. ASSUME NEW k \in DOMAIN stack', k = Len(stack)
        PROVE  /\ Careful(stack'[k].mode, stack'[k].elems) /\ k = Len(stack')
               /\ \/ Len(stack'[k].next) = Len(stack'[k].elems)
                  \/ \A q \in DOMAIN stack'[k].elems : stack'[k].elems[q].tag \in HostTags
    <3>1. stack[k] = Top /\ k \in DOMAIN stack
      BY <1>5, <2>6
    <3>2. stack'[k].elems = Top.elems /\ stack'[k].next = Top.next /\ stack'[k].mode = Top.mode /\ k = Len(stack')
      BY <2>4, <2>6, <3>1
    <3> QED BY <2>2, <2>3, <3>1, <3>2
  <2>7. ASSUME NEW k \in DOMAIN stack', k # Len(stack)
        PROVE  Careful(stack'[k].mode, stack'[k].elems) /\ stack'[k].dropped = {}
    BY <2>2, <2>4, <2>5, <2>7
  <2> QED BY <2>1, <2>6, <2>7
<1>11. \A n \in DOMAIN inst : Dropped(n) => Dropped(n)'
  <2> SUFFICES ASSUME NEW n \in DOMAIN inst, Dropped(n) PROVE Dropped(n)'
    OBVIOUS
  <2>1. PICK k \in DOMAIN stack : \E q \in stack[k].dropped :
          stack[k].owner = inst[n].under /\ inst[stack[k].owner].kids[q] = n
    BY DEF Dropped
  <2>2. k \in DOMAIN stack' /\ stack'[k].owner = stack[k].owner /\ stack[k].dropped \subseteq stack'[k].dropped
    BY <1>6 DEF DroppedBy
  <2> QED BY <1>2, <2>1, <2>2 DEF Dropped
<1>12. GoneInv'
  <2> SUFFICES ASSUME Sound' PROVE GoneFrames' /\ GoneDoomed' /\ GoneKids'
    BY DEF GoneInv
  <2>1. Sound /\ GoneFrames /\ GoneKids
    BY <1>2 DEF Sound, DiffInv, GoneInv
  <2>2. h \notin gone
    BY <1>2, <1>3, <1>4, <2>1, ChildAlive DEF DiffInv
  <2>3. Dropped(h)'
    <3>1. Len(stack) \in DOMAIN stack' /\ stack'[Len(stack)].owner = Top.owner /\ p \in stack'[Len(stack)].dropped
      BY <1>5, <1>6 DEF DroppedBy
    <3>2. inst'[h].under = Top.owner /\ inst'[Top.owner].kids[p] = h
      BY <1>2, <1>3, <1>5 DEF Old
    <3> QED BY <3>1, <3>2 DEF Dropped
  <2>4. ToSet(doomed) = {}
    BY <1>2 DEF ToSet
  <2>5. ASSUME NEW k \in DOMAIN stack PROVE h \notin ToSet(stack[k].next)
    <3>1. CASE k = Len(stack)
      BY <1>4, <1>5, <3>1
    <3>2. CASE k # Len(stack)
      <4>1. stack[k].owner < Top.owner /\ stack[k].owner \in Nat /\ Top.owner \in Nat
        <5>1. stack[k].owner \in DOMAIN inst
          BY <1>2 DEF ShapeInv, StackInv, Frames, FrameInv
        <5> QED BY <1>5, <3>2, <5>1
      <4>2. \A q \in DOMAIN stack[k].next : inst[stack[k].next[q]].under = stack[k].owner
        BY <1>2 DEF ShapeInv, StackInv, Frames, FrameInv, ChildrenOf
      <4> QED BY <1>5, <4>1, <4>2 DEF ToSet
    <3> QED BY <3>1, <3>2
  <2>6. GoneFrames'
    <3> SUFFICES ASSUME NEW k \in DOMAIN stack'
                 PROVE  /\ stack'[k].owner \notin gone' /\ ToSet(stack'[k].next) \cap (gone' \cup ToSet(doomed')) = {}
                        /\ \A q \in stack'[k].dropped : inst'[stack'[k].owner].kids[q] \in gone' \cup ToSet(doomed')
      BY DEF GoneFrames
    <3>1. /\ k \in DOMAIN stack /\ stack'[k].owner = stack[k].owner /\ stack'[k].next = stack[k].next
          /\ stack'[k].dropped = IF k = Len(stack) THEN stack[k].dropped \cup {p} ELSE stack[k].dropped
      BY <1>6 DEF DroppedBy
    <3>2. /\ stack[k].owner \notin gone /\ ToSet(stack[k].next) \cap gone = {}
          /\ \A q \in stack[k].dropped : inst[stack[k].owner].kids[q] \in gone
      BY <2>1, <2>4, <3>1 DEF GoneFrames
    <3>3. k = Len(stack) => inst[stack[k].owner].kids[p] = h
      BY <1>3, <1>5 DEF Old
    <3> QED BY <1>2, <1>7, <2>5, <3>1, <3>2, <3>3
  <2>7. GoneDoomed'
    BY <1>2, <1>5, <1>7, <1>8, <2>2, <2>3 DEF GoneDoomed
  <2>8. GoneKids'
    <3>1. gone \subseteq DOMAIN inst
      BY <1>2 DEF ShapeInv, TypeOK
    <3> QED BY <1>2, <1>11, <2>1, <3>1 DEF GoneKids
  <2> QED BY <2>6, <2>7, <2>8
<1>13. AccountInv'
  <2>1. ToSet(doomed) = {}
    BY <1>2 DEF ToSet
  <2>2. \A k \in DOMAIN stack : k \in DOMAIN stack' /\ stack'[k].owner = stack[k].owner /\ stack'[k].next = stack[k].next
    BY <1>6 DEF DroppedBy
  <2> QED BY <1>2, <2>1, <2>2 DEF DiffInv, AccountInv
<1>14. PrefixInv'
  <2>1. Len(stack) \in DOMAIN stack' /\ p \in stack'[Len(stack)].dropped
    BY <1>5, <1>6 DEF DroppedBy
  <2> QED BY <2>1 DEF PrefixInv, NoneDropped
<1> QED BY <1>9, <1>10, <1>12, <1>13, <1>14 DEF DiffInv

\* Rows end to end.
LEMMA HeadTail ==
  ASSUME NEW S, NEW row \in Seq(S), row # << >>
  PROVE  /\ Head(row) \in S /\ Tail(row) \in Seq(S) /\ ToSet(row) = {Head(row)} \cup ToSet(Tail(row))
         /\ IsInjective(row) => Head(row) \notin ToSet(Tail(row)) /\ IsInjective(Tail(row))
<1>1. PICK len \in Nat : len + 1 = Len(row) /\ DOMAIN row = 1..(len + 1)
  <2>1. Len(row) - 1 \in Nat /\ (Len(row) - 1) + 1 = Len(row)
    OBVIOUS
  <2>2. PICK len \in Nat : len = Len(row) - 1
    BY <2>1
  <2>3. len + 1 = Len(row) /\ DOMAIN row = 1..(len + 1)
    BY <2>1, <2>2
  <2> QED BY <2>3
<1>2. PICK h \in S, t \in Seq(S) : /\ h = Head(row) /\ t = Tail(row) /\ h = row[1] /\ DOMAIN t = 1..len
                                   /\ \A p \in 1..len : t[p] = row[p + 1]
  <2>1. /\ Head(row) \in S /\ Head(row) = row[1] /\ Tail(row) \in Seq(S) /\ DOMAIN Tail(row) = 1..len
        /\ \A p \in 1..len : Tail(row)[p] = row[p + 1]
    BY <1>1
  <2> QED BY <2>1, Zenon
<1>3. \A q \in DOMAIN row : q = 1 \/ \E p \in 1..len : q = p + 1
  <2> TAKE q \in DOMAIN row
  <2>1. CASE q # 1
    <3>1. q - 1 \in 1..len /\ q = (q - 1) + 1
      BY <1>1, <2>1
    <3> QED BY <3>1
  <2> QED BY <2>1
<1>4. 1 \in DOMAIN row /\ \A p \in 1..len : p + 1 \in DOMAIN row /\ p + 1 # 1
  BY <1>1
<1>5. ToSet(row) = {h} \cup ToSet(t)
  <2>1. ASSUME NEW x \in ToSet(row) PROVE x \in {h} \cup ToSet(t)
    <3>1. PICK q \in DOMAIN row : row[q] = x
      BY DEF ToSet
    <3>2. CASE q = 1
      BY <1>2, <3>1, <3>2
    <3>3. ASSUME NEW r \in 1..len, q = r + 1 PROVE x \in ToSet(t)
      <4>1. r \in DOMAIN t /\ t[r] = x
        BY <1>2, <3>1, <3>3
      <4> QED BY <4>1 DEF ToSet
    <3> QED BY <1>3, <3>2, <3>3
  <2>2. \A x \in {h} \cup ToSet(t) : x \in ToSet(row)
    BY <1>1, <1>2, <1>4 DEF ToSet
  <2> QED BY <2>1, <2>2
<1>6. ASSUME IsInjective(row) PROVE h \notin ToSet(t) /\ IsInjective(t)
  BY <1>1, <1>2, <1>4, <1>6 DEF ToSet, IsInjective
<1> QED BY <1>2, <1>4, <1>5, <1>6

LEMMA ConcatFacts ==
  ASSUME NEW S, NEW a \in Seq(S), NEW b \in Seq(S)
  PROVE  /\ a \o b \in Seq(S) /\ ToSet(a \o b) = ToSet(a) \cup ToSet(b)
         /\ IsInjective(a) /\ IsInjective(b) /\ ToSet(a) \cap ToSet(b) = {} => IsInjective(a \o b)
<1>1. PICK m \in Nat, n \in Nat : m = Len(a) /\ n = Len(b) /\ DOMAIN a = 1..m /\ DOMAIN b = 1..n
  OBVIOUS
<1>2. PICK c \in Seq(S) : /\ c = a \o b /\ DOMAIN c = 1..(m + n) /\ (\A p \in 1..m : c[p] = a[p])
                          /\ \A u \in 1..(m + n) : u > m => c[u] = b[u - m]
  <2>1. /\ a \o b \in Seq(S) /\ DOMAIN (a \o b) = 1..(m + n) /\ (\A p \in 1..m : (a \o b)[p] = a[p])
        /\ \A u \in 1..(m + n) : u > m => (a \o b)[u] = b[u - m]
    BY <1>1
  <2> QED BY <2>1, Zenon
<1>3. /\ \A p \in 1..m : p \in 1..(m + n)
      /\ \A q \in 1..n : \E u \in 1..(m + n) : u > m /\ u - m = q
      /\ \A u \in 1..(m + n) : u \in 1..m \/ (u > m /\ u - m \in 1..n)
  <2>1. ASSUME NEW q \in 1..n PROVE \E u \in 1..(m + n) : u > m /\ u - m = q
    <3>1. q + m \in 1..(m + n) /\ q + m > m /\ (q + m) - m = q
      OBVIOUS
    <3> QED BY <3>1
  <2> QED BY <2>1
<1>4. ToSet(c) = ToSet(a) \cup ToSet(b)
  <2>1. ASSUME NEW x \in ToSet(c) PROVE x \in ToSet(a) \cup ToSet(b)
    <3>1. PICK u \in 1..(m + n) : c[u] = x
      BY <1>2 DEF ToSet
    <3>2. CASE u \in 1..m
      <4>1. a[u] = x /\ u \in DOMAIN a
        BY <1>1, <1>2, <3>1, <3>2
      <4> QED BY <4>1 DEF ToSet
    <3>3. CASE u > m /\ u - m \in 1..n
      <4>1. b[u - m] = x /\ u - m \in DOMAIN b
        BY <1>1, <1>2, <3>1, <3>3
      <4> QED BY <4>1 DEF ToSet
    <3> QED BY <1>3, <3>2, <3>3
  <2>2. ASSUME NEW x \in ToSet(a) PROVE x \in ToSet(c)
    <3>1. PICK u \in 1..m : a[u] = x
      BY <1>1 DEF ToSet
    <3> QED BY <1>2, <1>3, <3>1 DEF ToSet
  <2>3. ASSUME NEW x \in ToSet(b) PROVE x \in ToSet(c)
    <3>1. PICK q \in 1..n : b[q] = x
      BY <1>1 DEF ToSet
    <3>2. PICK u \in 1..(m + n) : u > m /\ u - m = q
      BY <1>3
    <3> QED BY <1>2, <3>1, <3>2 DEF ToSet
  <2> QED BY <2>1, <2>2, <2>3
<1>5. ASSUME IsInjective(a), IsInjective(b), ToSet(a) \cap ToSet(b) = {} PROVE IsInjective(c)
  <2> SUFFICES ASSUME NEW u \in 1..(m + n), NEW v \in 1..(m + n), c[u] = c[v] PROVE u = v
    BY <1>2 DEF IsInjective
  <2>1. CASE u \in 1..m /\ v \in 1..m
    BY <1>1, <1>2, <1>5, <2>1 DEF IsInjective
  <2>2. CASE u > m /\ v > m
    <3>1. u - m \in 1..n /\ v - m \in 1..n /\ b[u - m] = b[v - m]
      BY <1>2, <1>3, <2>2
    <3>2. u - m = v - m
      BY <1>1, <1>5, <3>1 DEF IsInjective
    <3> QED BY <3>2
  <2>3. ASSUME NEW x \in 1..m, NEW y \in 1..(m + n), y > m PROVE c[x] # c[y]
    <3>1. c[x] = a[x] /\ c[y] = b[y - m] /\ y - m \in 1..n
      BY <1>2, <1>3, <2>3
    <3>2. a[x] \in ToSet(a) /\ b[y - m] \in ToSet(b)
      BY <1>1, <3>1 DEF ToSet
    <3> QED BY <1>5, <3>1, <3>2
  <2> QED BY <1>3, <2>1, <2>2, <2>3
<1> QED BY <1>2, <1>4, <1>5

\* What unmount() comes to next, and what it has yet to come to then.
LEMMA DoomedFacts ==
  ASSUME ShapeInv, doomed # << >>, NEW h, h = Head(doomed)
  PROVE  /\ h \in DOMAIN inst /\ h # Root /\ h \in ToSet(doomed)
         /\ inst \in Seq(Instance) /\ ChildrenOf(inst, h, inst[h].kids) /\ Tail(doomed) \in Seq(DOMAIN inst)
         /\ ToSet(doomed) = {h} \cup ToSet(Tail(doomed))
         /\ inst[h].kids \o Tail(doomed) \in Seq(DOMAIN inst)
         /\ ToSet(inst[h].kids \o Tail(doomed)) = ToSet(inst[h].kids) \cup ToSet(Tail(doomed))
         /\ \A c \in ToSet(inst[h].kids) : c > h /\ inst[c].under = h /\ c \in DOMAIN inst
         /\ stack # << >> /\ Top.dropped # {}
<1>1. doomed \in Seq(DOMAIN inst) /\ inst \in Seq(Instance)
  BY DEF ShapeInv, TypeOK
<1>2. /\ h \in DOMAIN inst /\ Tail(doomed) \in Seq(DOMAIN inst) /\ ToSet(doomed) = {h} \cup ToSet(Tail(doomed))
  BY <1>1, HeadTail
<1>3. h # Root /\ stack # << >> /\ Top.dropped # {}
  BY <1>2 DEF ShapeInv, StackInv
<1>4. ChildrenOf(inst, h, inst[h].kids)
  BY <1>2 DEF ShapeInv, TreeInv, Tree
<1>5. /\ inst[h].kids \in Seq(DOMAIN inst)
      /\ \A c \in ToSet(inst[h].kids) : c > h /\ inst[c].under = h /\ c \in DOMAIN inst
  BY <1>4 DEF ChildrenOf, ToSet
<1>6. /\ inst[h].kids \o Tail(doomed) \in Seq(DOMAIN inst)
      /\ ToSet(inst[h].kids \o Tail(doomed)) = ToSet(inst[h].kids) \cup ToSet(Tail(doomed))
  <2>1. PICK a \in Seq(DOMAIN inst), b \in Seq(DOMAIN inst) : a = inst[h].kids /\ b = Tail(doomed)
    BY <1>2, <1>5
  <2>2. a \o b \in Seq(DOMAIN inst) /\ ToSet(a \o b) = ToSet(a) \cup ToSet(b)
    BY ConcatFacts
  <2> QED BY <2>1, <2>2
<1> QED BY <1>1, <1>2, <1>3, <1>4, <1>5, <1>6

\* What unmounting one of them means for everybody else.
LEMMA UnmountRest ==
  ASSUME DiffInv, doomed # << >>, NEW h, h = Head(doomed), gone' = gone \cup {h},
         doomed' = inst[h].kids \o Tail(doomed), UNCHANGED <<inst, stack, threw, failed, keyed>>
  PROVE  StackInv' /\ KeyedInv' /\ GoneInv' /\ AccountInv' /\ PrefixInv'
<1>1. /\ h \in DOMAIN inst /\ h # Root /\ h \in ToSet(doomed) /\ ShapeInv
      /\ inst \in Seq(Instance) /\ ChildrenOf(inst, h, inst[h].kids) /\ Tail(doomed) \in Seq(DOMAIN inst)
      /\ ToSet(doomed) = {h} \cup ToSet(Tail(doomed))
      /\ ToSet(doomed') = ToSet(inst[h].kids) \cup ToSet(Tail(doomed))
      /\ \A c \in ToSet(inst[h].kids) : c > h /\ inst[c].under = h /\ c \in DOMAIN inst
      /\ stack # << >> /\ Top.dropped # {}
  BY DoomedFacts DEF DiffInv
<1>2. \A c \in ToSet(inst[h].kids) : c # Root
  <2>1. h \in Nat /\ h >= 1
    BY <1>1
  <2> QED BY <1>1, <2>1 DEF Root
<1>3. StackInv'
  <2>1. Top' = Top
    BY DEF Top
  <2>2. Root \notin gone \cup ToSet(doomed)
    BY <1>1 DEF ShapeInv, StackInv
  <2> QED BY <1>1, <1>2, <2>1, <2>2 DEF ShapeInv, StackInv
<1>4. KeyedInv'
  BY DEF DiffInv, KeyedInv
<1>5. PrefixInv'
  <2>1. Len(stack) \in DOMAIN stack /\ Top = stack[Len(stack)]
    BY <1>1, TopFacts
  <2> QED BY <1>1, <2>1 DEF PrefixInv, NoneDropped
<1>6. \A n : Dropped(n)' <=> Dropped(n)
  BY DEF Dropped
<1>7. CASE ~Sound
  <2>1. ~Sound'
    BY <1>7 DEF Sound
  <2> QED BY <1>3, <2>1, Unsound
<1>8. CASE Sound
  <2>1. GoneFrames /\ GoneDoomed /\ GoneKids
    BY <1>8 DEF DiffInv, GoneInv
  <2>2. /\ h > Top.owner /\ h \notin gone /\ Top.owner \in Nat /\ h \in Nat
        /\ inst[h].under \in gone \/ (inst[h].under = Top.owner /\ Dropped(h))
    BY <1>1, <2>1, TopFacts DEF GoneDoomed
  <2>3. \A k \in DOMAIN stack : stack[k].owner < h /\ stack[k].owner \in Nat
    <3>1. \A k \in DOMAIN stack : k # Len(stack) => stack[k].owner < Top.owner
      BY <1>1, TopFacts
    <3>2. \A k \in DOMAIN stack : stack[k].owner \in Nat
      BY <1>1 DEF ShapeInv, StackInv, Frames, FrameInv
    <3>3. \A k \in DOMAIN stack : k = Len(stack) => stack[k].owner = Top.owner
      BY DEF Top
    <3> QED BY <2>2, <3>1, <3>2, <3>3
  <2>4. ASSUME NEW c \in ToSet(inst[h].kids) PROVE c \notin gone /\ c \notin ToSet(Tail(doomed)) /\ ~Dropped(c)
    <3>1. ~Dropped(c)
      BY <1>1, <2>2, <2>3 DEF Dropped
    <3>2. c \notin gone
      BY <1>1, <2>1, <2>2, <3>1 DEF GoneKids
    <3>3. c \notin ToSet(doomed)
      <4> SUFFICES ASSUME c \in ToSet(doomed) PROVE FALSE
        OBVIOUS
      <4>1. inst[c].under \in gone \/ Dropped(c)
        BY <1>1, <2>1 DEF GoneDoomed
      <4> QED BY <1>1, <2>1, <2>2, <3>1, <4>1
    <3> QED BY <1>1, <3>1, <3>2, <3>3
  <2>5. GoneFrames'
    <3> SUFFICES ASSUME NEW k \in DOMAIN stack
                 PROVE  /\ stack[k].owner \notin gone' /\ ToSet(stack[k].next) \cap (gone' \cup ToSet(doomed')) = {}
                        /\ \A q \in stack[k].dropped : inst[stack[k].owner].kids[q] \in gone' \cup ToSet(doomed')
      BY DEF GoneFrames
    <3>1. /\ stack[k].owner \notin gone /\ ToSet(stack[k].next) \cap (gone \cup ToSet(doomed)) = {}
          /\ \A q \in stack[k].dropped : inst[stack[k].owner].kids[q] \in gone \cup ToSet(doomed)
      BY <2>1 DEF GoneFrames
    <3>2. \A x \in ToSet(stack[k].next) : inst[x].under = stack[k].owner
      BY <1>1 DEF ShapeInv, StackInv, Frames, FrameInv, ChildrenOf, ToSet
    <3>3. \A x \in ToSet(stack[k].next) : x \notin ToSet(inst[h].kids)
      BY <1>1, <2>2, <2>3, <3>2
    <3> QED BY <1>1, <2>2, <2>3, <3>1, <3>3
  <2>6. GoneDoomed'
    <3>1. IsInjective(doomed')
      <4>1. IsInjective(Tail(doomed)) /\ h \notin ToSet(Tail(doomed))
        <5>1. doomed \in Seq(DOMAIN inst) /\ IsInjective(doomed)
          BY <1>1, <2>1 DEF ShapeInv, TypeOK, GoneDoomed
        <5> QED BY <5>1, HeadTail
      <4>2. inst[h].kids \in Seq(DOMAIN inst) /\ IsInjective(inst[h].kids)
        BY <1>1 DEF ChildrenOf
      <4>3. ToSet(inst[h].kids) \cap ToSet(Tail(doomed)) = {}
        BY <2>4
      <4> QED BY <1>1, <4>1, <4>2, <4>3, ConcatFacts
    <3>2. h \notin ToSet(doomed')
      <4>1. doomed \in Seq(DOMAIN inst) /\ IsInjective(doomed)
        BY <1>1, <2>1 DEF ShapeInv, TypeOK, GoneDoomed
      <4>2. h \notin ToSet(Tail(doomed))
        BY <4>1, HeadTail
      <4>3. h \notin ToSet(inst[h].kids)
        BY <1>1, <2>2
      <4> QED BY <1>1, <4>2, <4>3
    <3>3. ToSet(doomed') \cap gone' = {}
      BY <1>1, <2>1, <2>4, <3>2 DEF GoneDoomed
    <3>4. ASSUME NEW d \in ToSet(doomed')
          PROVE  d > Top.owner /\ (inst[d].under \in gone' \/ (inst[d].under = Top.owner /\ Dropped(d)))
      <4>1. CASE d \in ToSet(inst[h].kids)
        <5>1. d \in Nat
          BY <1>1, <4>1
        <5> QED BY <1>1, <2>2, <4>1, <5>1
      <4>2. CASE d \in ToSet(Tail(doomed))
        BY <1>1, <2>1, <4>2 DEF GoneDoomed
      <4> QED BY <1>1, <4>1, <4>2
    <3>5. Top' = Top
      BY DEF Top
    <3> QED BY <1>6, <3>1, <3>3, <3>4, <3>5 DEF GoneDoomed
  <2>7. GoneKids'
    <3> SUFFICES ASSUME NEW n \in DOMAIN inst \ gone', NEW i \in ToSet(inst[n].kids) \cap gone' PROVE Dropped(i)
      BY <1>6 DEF GoneKids
    <3>1. CASE i \in gone
      BY <2>1, <3>1 DEF GoneKids
    <3>2. CASE i = h
      <4>1. inst[h].under = n
        <5>1. ChildrenOf(inst, n, inst[n].kids)
          BY <1>1 DEF ShapeInv, TreeInv, Tree
        <5> QED BY <3>2, <5>1 DEF ChildrenOf, ToSet
      <4> QED BY <2>2, <3>2, <4>1
    <3> QED BY <3>1, <3>2
  <2>8. AccountInv'
    <3> SUFFICES ASSUME ~failed, NEW i \in DOMAIN inst \ (gone' \cup {Root})
                 PROVE  /\ \/ i \in ToSet(inst[inst[i].under].kids)
                           \/ \E k \in DOMAIN stack : stack[k].owner = inst[i].under /\ i \in ToSet(stack[k].next)
                        /\ inst[i].under \notin gone' \/ i \in ToSet(doomed')
      BY DEF AccountInv
    <3>1. /\ \/ i \in ToSet(inst[inst[i].under].kids)
             \/ \E k \in DOMAIN stack : stack[k].owner = inst[i].under /\ i \in ToSet(stack[k].next)
          /\ inst[i].under \notin gone \/ i \in ToSet(doomed)
      BY DEF DiffInv, AccountInv
    <3>2. ASSUME inst[i].under = h PROVE i \in ToSet(doomed')
      BY <1>1, <2>2, <2>3, <3>1, <3>2
    <3> QED BY <1>1, <3>1, <3>2
  <2>9. GoneInv'
    BY <2>5, <2>6, <2>7 DEF GoneInv
  <2> QED BY <1>3, <1>4, <1>5, <2>8, <2>9
<1> QED BY <1>7, <1>8

LEMMA UnmountComponentDiff ==
  ASSUME DiffInv, UnmountComponent
  PROVE  DiffInv'
<1>1. PICK h : h = Head(doomed)
  OBVIOUS
<1>2. /\ doomed # << >> /\ ~IsHost(h) /\ gone' = gone \cup {h} /\ doomed' = inst[h].kids \o Tail(doomed)
      /\ UNCHANGED <<inst, box, stack, threw, renders, failed, keyed>> /\ ShapeInv
  BY <1>1 DEF UnmountComponent, DiffInv
<1>3. StackInv' /\ KeyedInv' /\ GoneInv' /\ AccountInv' /\ PrefixInv'
  BY <1>1, <1>2, UnmountRest
<1>4. h \in DOMAIN inst /\ inst[h].kids \o Tail(doomed) \in Seq(DOMAIN inst)
  BY <1>1, <1>2, DoomedFacts
<1>5. TypeOK'
  BY <1>2, <1>4 DEF ShapeInv, TypeOK, IsHost
<1>6. TreeInv' /\ BoxInv'
  BY <1>2, <1>4 DEF ShapeInv, TreeInv, BoxInv, IsHost
<1> QED BY <1>3, <1>5, <1>6 DEF DiffInv, ShapeInv

LEMMA UnmountHostDiff ==
  ASSUME DiffInv, UnmountHost
  PROVE  DiffInv'
<1>1. PICK h : h = Head(doomed)
  OBVIOUS
<1>2. /\ doomed # << >> /\ IsHost(h) /\ gone' = gone \cup {h}
      /\ UNCHANGED <<inst, renders, keyed>> /\ ShapeInv
  BY <1>1 DEF UnmountHost, DiffInv
<1>3. /\ h \in DOMAIN inst /\ h # Root /\ h \in ToSet(doomed) /\ Tail(doomed) \in Seq(DOMAIN inst)
  BY <1>1, <1>2, DoomedFacts
<1>4. /\ box \in Seq(DOMAIN inst) /\ IsInjective(box)
      /\ ToSet(box) = {i \in DOMAIN inst \ gone : IsHost(i)}
  BY <1>2 DEF ShapeInv, TypeOK, BoxInv
<1>5. TreeInv'
  BY <1>2 DEF ShapeInv, TreeInv
<1>6. CASE Touchable(box, h)
  <2>1. box' = Without(box, h) /\ doomed' = Tail(doomed) /\ UNCHANGED <<stack, threw, failed>>
    BY <1>1, <1>6 DEF UnmountHost
  <2>2. /\ box' \in Seq(DOMAIN inst) /\ IsInjective(box')
        /\ \A v : Touchable(box', v) <=> v # h /\ Touchable(box, v)
    BY <1>4, <1>6, <2>1, WithoutFacts
  <2>3. ToSet(box') = {i \in DOMAIN inst \ gone' : IsHost(i)}
    <3>1. \A v : v \in ToSet(box') <=> v # h /\ v \in ToSet(box)
      BY <2>2, InRow
    <3> QED BY <1>2, <1>4, <3>1
  <2>4. \A q \in DOMAIN box' : IsHost(box'[q])
    <3>1. \A q \in DOMAIN box' : box'[q] \in ToSet(box')
      BY DEF ToSet
    <3> QED BY <2>3, <3>1
  <2>5. inst[h].kids \o Tail(doomed) = Tail(doomed)
    <3>1. inst[h].kids = << >>
      BY <1>2, <1>3 DEF IsHost, ShapeInv, TreeInv, Tree
    <3> QED BY <1>3, <3>1
  <2>6. StackInv' /\ KeyedInv' /\ GoneInv' /\ AccountInv' /\ PrefixInv'
    <3>1. doomed' = inst[h].kids \o Tail(doomed)
      BY <2>1, <2>5
    <3> QED BY <1>1, <1>2, <2>1, <3>1, UnmountRest
  <2>7. TypeOK'
    BY <1>2, <1>3, <2>1, <2>2, <2>4 DEF ShapeInv, TypeOK, IsHost
  <2>8. BoxInv'
    BY <1>2, <2>2, <2>3 DEF BoxInv, IsHost
  <2> QED BY <1>5, <2>6, <2>7, <2>8 DEF DiffInv, ShapeInv
<1>7. CASE ~Touchable(box, h)
  <2>1. Throws("deleted") /\ box' = box
    BY <1>1, <1>7 DEF UnmountHost
  <2>2. stack' = << >> /\ doomed' = << >> /\ threw' = "deleted" /\ failed' = TRUE
    BY <2>1 DEF Throws
  <2>3. h \in gone
    BY <1>2, <1>3, <1>4, <1>7, InRow
  <2>4. ~Sound'
    <3>1. ~Sound
      BY <1>3, <2>3 DEF DiffInv, GoneInv, GoneDoomed
    <3> QED BY <1>2, <2>2, <3>1 DEF Sound
  <2>5. gone' = gone
    BY <1>2, <2>3
  <2>6. << >> \in Seq(FrameType) /\ << >> \in Seq(DOMAIN inst) /\ DOMAIN << >> = {} /\ ToSet(<< >>) = {}
    BY DEF ToSet
  <2>7. TypeOK'
    BY <1>2, <2>1, <2>2, <2>5, <2>6 DEF ShapeInv, TypeOK, IsHost
  <2>8. BoxInv'
    BY <1>2, <2>1, <2>5 DEF ShapeInv, BoxInv, IsHost
  <2>9. StackInv'
    BY <1>2, <2>2, <2>5, <2>6 DEF ShapeInv, StackInv, Frames
  <2> QED BY <1>5, <2>4, <2>7, <2>8, <2>9, Unsound DEF DiffInv, ShapeInv
<1> QED BY <1>6, <1>7

\* The owner of the diff on top has its new children.
Ended(js) ==
  /\ js \in Seq(Instance) /\ DOMAIN js = DOMAIN inst /\ Len(js) = Len(inst)
  /\ \A i \in DOMAIN inst : /\ js[i].tag = inst[i].tag /\ js[i].key = inst[i].key /\ js[i].under = inst[i].under
                            /\ i # Top.owner => js[i] = inst[i]
  /\ js[Top.owner].kids = Top.next /\ js[Top.owner].asked = Top.elems /\ js[Top.owner].mounted
  /\ Tree(js) /\ Placed(js)
LEMMA EndedFacts ==
  ASSUME ShapeInv, Matched, NEW js,
         js = [inst EXCEPT ![Top.owner].kids = Top.next, ![Top.owner].asked = Top.elems,
                           ![Top.owner].mounted = TRUE]
  PROVE  Ended(js)
<1>1. /\ stack # << >> /\ inst \in Seq(Instance) /\ Top.owner \in DOMAIN inst /\ Top \in FrameType
      /\ FrameInv(inst, Top) /\ Top.next \in Seq(DOMAIN inst) /\ Top.elems \in Seq(Elements)
      /\ Len(Top.next) = Len(Top.elems)
  <2>1. stack # << >>
    BY DEF Matched, Diffing
  <2>2. /\ Top.next \in Seq(DOMAIN inst) /\ Top.elems \in Seq(Elements) /\ Len(Top.next) <= Len(Top.elems)
    BY <2>1, TopFacts
  <2>3. Len(Top.next) = Len(Top.elems)
    BY <2>2 DEF Matched, Place
  <2> QED BY <2>1, <2>3, TopFacts
<1>2. PICK n, next, elems : n = Top.owner /\ next = Top.next /\ elems = Top.elems
  OBVIOUS
<1>3. PICK x : x = [inst[n] EXCEPT !.kids = next, !.asked = elems, !.mounted = TRUE]
  OBVIOUS
<1>4. next \in Seq(Nat) /\ elems \in Seq(Elements) /\ inst[n] \in Instance /\ n \in DOMAIN inst
  BY <1>1, <1>2 DEF FrameType
<1>5. /\ x \in Instance /\ x.kids = next /\ x.asked = elems /\ x.mounted
      /\ x.tag = inst[n].tag /\ x.key = inst[n].key /\ x.under = inst[n].under
  BY <1>3, <1>4 DEF Instance
<1>6. js = [inst EXCEPT ![n] = x]
  BY <1>2, <1>3
<1>7. /\ js \in Seq(Instance) /\ DOMAIN js = DOMAIN inst /\ Len(js) = Len(inst) /\ js[n] = x
      /\ \A i \in DOMAIN inst : i # n => js[i] = inst[i]
  BY <1>1, <1>4, <1>5, <1>6
<1>8. \A i \in DOMAIN inst : js[i].tag = inst[i].tag /\ js[i].key = inst[i].key /\ js[i].under = inst[i].under
  BY <1>5, <1>7
<1>9. Grown(js, inst)
  BY <1>5, <1>7, <1>8 DEF Grown
<1>10. /\ ChildrenOf(js, n, next) /\ Matches(js, next, elems)
  <2>1. ChildrenOf(inst, n, next) /\ Matches(inst, next, elems)
    BY <1>1, <1>2 DEF FrameInv
  <2> QED BY <1>9, <2>1, GrownRow
<1>11. ASSUME NEW i \in DOMAIN inst, i # n
       PROVE  ChildrenOf(js, i, js[i].kids) /\ DOMAIN js[i].kids = DOMAIN js[i].asked /\ Matches(js, js[i].kids, js[i].asked)
  <2>1. /\ ChildrenOf(inst, i, inst[i].kids) /\ DOMAIN inst[i].kids = DOMAIN inst[i].asked
        /\ Matches(inst, inst[i].kids, inst[i].asked)
    BY DEF ShapeInv, TreeInv, Tree, Placed
  <2>2. ChildrenOf(js, i, inst[i].kids) /\ Matches(js, inst[i].kids, inst[i].asked)
    BY <1>9, <2>1, GrownRow
  <2> QED BY <1>7, <1>11, <2>1, <2>2
<1>12. Tree(js)
  <2>1. js # << >> /\ js[Root].tag = RootTag
    <3>1. inst # << >> /\ inst[Root].tag = RootTag
      BY DEF ShapeInv, TreeInv, Tree
    <3>2. Root \in DOMAIN inst
      BY <1>1, <3>1 DEF Root
    <3>3. js # << >>
      BY <1>7, <3>2
    <3> QED BY <1>8, <3>1, <3>2, <3>3
  <2>2. ASSUME NEW i \in DOMAIN js
        PROVE  /\ ChildrenOf(js, i, js[i].kids)
               /\ js[i].tag \in HostTags \/ ~js[i].mounted => js[i].kids = << >>
               /\ i # Root => js[i].tag \in Tags /\ js[i].under \in 1..i-1
    <3>1. /\ inst[i].tag \in HostTags \/ ~inst[i].mounted => inst[i].kids = << >>
          /\ i # Root => inst[i].tag \in Tags /\ inst[i].under \in 1..i-1
      BY <1>7 DEF ShapeInv, TreeInv, Tree
    <3>2. CASE i = n
      <4>1. inst[n].tag \notin HostTags
        BY <1>1, <1>2 DEF FrameInv
      <4> QED BY <1>5, <1>7, <1>10, <3>1, <3>2, <4>1
    <3>3. CASE i # n
      BY <1>7, <1>11, <3>1, <3>3
    <3> QED BY <3>2, <3>3
  <2> QED BY <2>1, <2>2 DEF Tree
<1>13. Placed(js)
  <2>1. DOMAIN next = DOMAIN elems
    BY <1>1, <1>2, <1>4
  <2>2. \A i \in DOMAIN js : DOMAIN js[i].kids = DOMAIN js[i].asked /\ Matches(js, js[i].kids, js[i].asked)
    BY <1>5, <1>7, <1>10, <1>11, <2>1
  <2> QED BY <2>2 DEF Placed
<1> QED BY <1>2, <1>5, <1>7, <1>8, <1>12, <1>13 DEF Ended

\* The diffs below the one that has ended.
Below(js, st) ==
  /\ st \in Seq(FrameType) /\ DOMAIN st = 1..(Len(stack) - 1) /\ Frames(js, st)
  /\ \A k \in DOMAIN st : k \in DOMAIN stack /\ k # Len(stack) /\ st[k] = stack[k]
LEMMA BelowFacts ==
  ASSUME ShapeInv, stack # << >>, NEW js, Ended(js)
  PROVE  Below(js, Front(stack))
<1>1. /\ stack \in Seq(FrameType) /\ Frames(inst, stack) /\ Top = stack[Len(stack)] /\ Top.owner \in DOMAIN inst
      /\ (\A k \in DOMAIN stack : k # Len(stack) => stack[k].owner < Top.owner)
      /\ inst \in Seq(Instance)
      /\ \A p \in DOMAIN Top.next : Top.next[p] > Top.owner /\ Top.next[p] \in Nat
  <2>1. Top.next \in Seq(DOMAIN inst) /\ inst \in Seq(Instance)
    BY TopFacts
  <2>2. \A p \in DOMAIN Top.next : Top.next[p] \in Nat
    BY <2>1
  <2> QED BY <2>2, TopFacts DEF ShapeInv, TypeOK, StackInv
<1>2. PICK st : st = Front(stack)
  OBVIOUS
<1>3. /\ st \in Seq(FrameType) /\ DOMAIN st = 1..(Len(stack) - 1)
      /\ \A k \in DOMAIN st : k \in DOMAIN stack /\ k # Len(stack) /\ st[k] = stack[k]
  <2>1. st = SubSeq(stack, 1, Len(stack) - 1)
    BY <1>2 DEF Front
  <2> QED BY <1>1, <2>1
<1>4. Grown(js, inst)
  BY DEF Ended, Grown
<1>5. ASSUME NEW k \in DOMAIN st PROVE FrameInv(js, st[k])
  <2>1. PICK f : f = stack[k] /\ f = st[k] /\ k \in DOMAIN stack /\ k # Len(stack)
    BY <1>3
  <2>2. FrameInv(inst, f) /\ f.owner \in DOMAIN inst /\ f.owner < Top.owner
    BY <1>1, <2>1 DEF Frames, FrameInv
  <2>3. f.owner # Top.owner /\ f.owner \in Nat /\ Top.owner \in Nat
    BY <1>1, <2>2
  <2>4. ChildrenOf(inst, f.owner, inst[f.owner].kids) /\ js[f.owner].kids = inst[f.owner].kids
    BY <2>2, <2>3 DEF ShapeInv, TreeInv, Tree, Ended
  <2>5. ASSUME f.mode = "mount", NEW n \in DOMAIN js PROVE f.owner \notin ToSet(js[n].kids)
    <3>1. CASE n = Top.owner
      BY <1>1, <2>2, <2>3, <3>1 DEF Ended, ToSet
    <3>2. CASE n # Top.owner
      BY <2>2, <2>5, <3>2 DEF FrameInv, MountFrame, Ended
    <3> QED BY <3>1, <3>2
  <2>6. FrameInv(js, f)
    BY <1>4, <2>2, <2>4, <2>5, GrownFrame
  <2> QED BY <2>1, <2>6
<1>6. \A j, k \in DOMAIN st : j < k => st[j].owner < st[k].owner
  BY <1>1, <1>3 DEF Frames
<1> QED BY <1>2, <1>3, <1>5, <1>6 DEF Frames, Below

\* Where the end of a diff puts nothing in order, there is nothing to put in order.
LEMMA SameOrder ==
  ASSUME ShapeInv, Matched, Leftovers = {}, ~Reorders, NEW js, Ended(js)
  PROVE  Collect(js) = Collect(inst) /\ Top.dropped = {}
<1>1. /\ stack # << >> /\ inst \in Seq(Instance) /\ Top.owner \in DOMAIN inst /\ Top \in FrameType
      /\ FrameInv(inst, Top) /\ IsInjective(Old) /\ Old \in Seq(DOMAIN inst) /\ Top.next \in Seq(DOMAIN inst)
      /\ Tree(inst)
  <2>1. stack # << >>
    BY DEF Matched, Diffing
  <2> QED BY <2>1, TopFacts DEF ShapeInv, TreeInv
<1>2. CASE Top.mode = "mount"
  <2>1. Top.owner # Root
    BY <1>2 DEF Reorders
  <2>2. Old = << >> /\ \A n \in DOMAIN inst : Top.owner \notin ToSet(inst[n].kids)
    BY <1>1, <1>2 DEF FrameInv, MountFrame, Old
  <2>3. Top.dropped = {}
    BY <1>1, <2>2 DEF FrameInv, Old
  <2>4. Top.owner \notin InTree(inst)
    BY <1>1, <2>1, <2>2, TreeFacts
  <2>5. \A i \in InTree(inst) : js[i].kids = inst[i].kids /\ js[i].tag = inst[i].tag
    BY <1>1, <2>4, TreeFacts DEF Ended
  <2>6. js \in Seq(Instance) /\ Tree(js) /\ Len(inst) <= Len(js)
    BY <1>1 DEF Ended
  <2> QED BY <1>1, <2>3, <2>5, <2>6, SameWalk
<1>3. CASE Top.mode # "mount"
  <2>1. ~Top.structural /\ (Top.mode = "key" => Top.next = Old)
    BY <1>3 DEF Reorders
  <2>2. Top.dropped = {} /\ ToSet(Top.next) \subseteq ToSet(Old)
    BY <1>1, <2>1 DEF FrameInv, Old
  <2>3. ASSUME NEW p \in DOMAIN Old PROVE \E j \in DOMAIN Top.next : Top.next[j] = Old[p]
    BY <2>2 DEF Leftovers, Reused, ToSet
  <2>4. Top.next = Old
    <3>1. CASE Top.mode = "position"
      <4>1. \A p \in DOMAIN Top.next : p \in DOMAIN Old /\ Top.next[p] = Old[p]
        BY <1>1, <2>2, <3>1 DEF FrameInv, PositionFrame, Old, ToSet
      <4>2. \A p \in DOMAIN Old : p \in DOMAIN Top.next
        BY <1>1, <2>3, <4>1 DEF IsInjective
      <4>3. Len(Top.next) = Len(Old)
        <5>1. PICK m \in Nat, n \in Nat : /\ m = Len(Top.next) /\ DOMAIN Top.next = 1..m
                                          /\ n = Len(Old) /\ DOMAIN Old = 1..n
          BY <1>1
        <5>2. \A p \in 1..m : p \in 1..n
          BY <4>1, <5>1
        <5>3. \A p \in 1..n : p \in 1..m
          BY <4>2, <5>1
        <5>4. m = n
          BY <5>2, <5>3
        <5> QED BY <5>1, <5>4
      <4> QED BY <1>1, <4>1, <4>3
    <3> QED BY <1>1, <1>3, <2>1, <3>1 DEF FrameType
  <2>5. \A i \in InTree(inst) : js[i].kids = inst[i].kids /\ js[i].tag = inst[i].tag
    BY <1>1, <2>4, TreeFacts DEF Ended, Old
  <2>6. js \in Seq(Instance) /\ Tree(js) /\ Len(inst) <= Len(js)
    BY <1>1 DEF Ended
  <2> QED BY <1>1, <2>2, <2>5, <2>6, SameWalk
<1> QED BY <1>2, <1>3

\* Where children are matched by key, reorder() finds every widget of the tree.
LEMMA AllFound ==
  ASSUME DiffInv, keyed, Matched, NEW js, Ended(js)
  PROVE  Asked(box, Collect(js)) = DOMAIN Collect(js)
<1>1. /\ stack # << >> /\ Sound /\ ShapeInv /\ KeyedInv /\ GoneFrames /\ GoneKids /\ doomed = << >>
  BY DEF DiffInv, GoneInv, Sound, Matched, Diffing
<1>2. /\ js \in Seq(Instance) /\ Tree(js) /\ DOMAIN js = DOMAIN inst /\ js[Top.owner].kids = Top.next
      /\ \A i \in DOMAIN inst : js[i].tag = inst[i].tag /\ (i # Top.owner => js[i] = inst[i])
  BY DEF Ended
<1>3. \A n \in DOMAIN js \ gone : ToSet(js[n].kids) \cap gone = {}
  <2> SUFFICES ASSUME NEW n \in DOMAIN js \ gone, NEW i \in ToSet(js[n].kids), i \in gone PROVE FALSE
    OBVIOUS
  <2>1. CASE n = Top.owner
    <3>1. Len(stack) \in DOMAIN stack /\ Top = stack[Len(stack)]
      BY <1>1, TopFacts
    <3> QED BY <1>1, <1>2, <2>1, <3>1 DEF GoneFrames
  <2>2. CASE n # Top.owner
    <3>1. i \in ToSet(inst[n].kids) /\ n \in DOMAIN inst \ gone
      BY <1>2, <2>2
    <3>2. inst[i].under = n
      BY <3>1 DEF DiffInv, ShapeInv, TreeInv, Tree, ChildrenOf, ToSet
    <3>3. Dropped(i)
      BY <1>1, <3>1 DEF GoneKids
    <3>4. PICK k \in DOMAIN stack : stack[k].dropped # {} /\ stack[k].owner = n
      BY <3>2, <3>3 DEF Dropped
    <3>5. k = Len(stack)
      BY <1>1, <3>4 DEF KeyedInv
    <3> QED BY <2>2, <3>4, <3>5 DEF Top
  <2> QED BY <2>1, <2>2
<1>4. Root \notin gone
  BY <1>1 DEF ShapeInv, StackInv
<1>5. InTree(js) \cap gone = {}
  BY <1>2, <1>3, <1>4, LiveTree
<1>6. /\ InTree(js) \subseteq DOMAIN js /\ Collect(js) \in Seq(DOMAIN js)
      /\ ToSet(Collect(js)) = {i \in InTree(js) : js[i].tag \in HostTags}
  BY <1>2, TreeFacts
<1>7. \A w \in ToSet(Collect(js)) : Touchable(box, w)
  <2>1. \A w \in ToSet(Collect(js)) : w \in ToSet(box)
    BY <1>1, <1>2, <1>5, <1>6 DEF ShapeInv, BoxInv, IsHost
  <2> QED BY <2>1, InRow
<1>8. PICK widgets \in Seq(DOMAIN js) : widgets = Collect(js)
  BY <1>6
<1>9. \A m \in DOMAIN widgets : Touchable(box, widgets[m])
  BY <1>7, <1>8 DEF ToSet
<1>10. \A n \in DOMAIN widgets : \A m \in 1..n : m \in DOMAIN widgets
  OBVIOUS
<1> QED BY <1>8, <1>9, <1>10 DEF Asked

\* What the end of a diff that throws nothing means for the rest.
LEMMA EndRest ==
  ASSUME DiffInv, Matched, Leftovers = {}, NEW js, Ended(js), inst' = js, Below(js, stack'),
         UNCHANGED <<gone, doomed, threw, failed, keyed>>
  PROVE  KeyedInv' /\ GoneInv' /\ AccountInv'
<1>1. /\ stack # << >> /\ doomed = << >> /\ ShapeInv /\ KeyedInv
  BY DEF DiffInv, Matched, Diffing
<1>2. /\ Len(stack) \in DOMAIN stack /\ Top = stack[Len(stack)] /\ inst \in Seq(Instance) /\ Top.owner \in DOMAIN inst
      /\ (\A k \in DOMAIN stack : k # Len(stack) => stack[k].owner < Top.owner) /\ stack \in Seq(FrameType)
  BY <1>1, TopFacts DEF ShapeInv, TypeOK
<1>3. /\ DOMAIN js = DOMAIN inst /\ js[Top.owner].kids = Top.next
      /\ \A i \in DOMAIN inst : js[i].under = inst[i].under /\ (i # Top.owner => js[i] = inst[i])
  BY DEF Ended
<1>4. /\ \A k \in DOMAIN stack' : k \in DOMAIN stack /\ k # Len(stack) /\ stack'[k] = stack[k]
      /\ DOMAIN stack' = 1..(Len(stack) - 1)
  BY DEF Below
<1>5. \A k \in DOMAIN stack : k # Len(stack) => k \in DOMAIN stack'
  BY <1>2, <1>4
<1>6. \A k \in DOMAIN stack : k # Len(stack) => stack[k].owner \in DOMAIN inst /\ stack[k].owner # Top.owner
  <2>1. \A k \in DOMAIN stack : stack[k].owner \in DOMAIN inst
    BY <1>1 DEF ShapeInv, StackInv, Frames, FrameInv
  <2> QED BY <1>2, <2>1
<1>7. KeyedInv'
  BY <1>1, <1>4 DEF KeyedInv
<1>8. ToSet(<< >>) = {} /\ IsInjective(<< >>) /\ doomed' = << >>
  <2>1. DOMAIN << >> = {}
    OBVIOUS
  <2> QED BY <1>1, <2>1 DEF ToSet, IsInjective
<1>9. ASSUME NEW n \in DOMAIN inst, n # Top.owner, NEW i \in ToSet(inst[n].kids), Dropped(i) PROVE Dropped(i)'
  <2>1. inst[i].under = n /\ i \in DOMAIN inst
    BY <1>1, <1>9 DEF ShapeInv, TreeInv, Tree, ChildrenOf, ToSet
  <2>2. PICK k \in DOMAIN stack : \E p \in stack[k].dropped : stack[k].owner = n /\ inst[n].kids[p] = i
    BY <1>9, <2>1 DEF Dropped
  <2>3. k \in DOMAIN stack' /\ stack'[k] = stack[k]
    BY <1>2, <1>4, <1>5, <1>9, <2>2
  <2>4. js[n] = inst[n] /\ js[i].under = n
    BY <1>3, <1>9, <2>1
  <2> QED BY <2>2, <2>3, <2>4 DEF Dropped
<1>10. ASSUME Sound PROVE GoneFrames' /\ GoneDoomed' /\ GoneKids'
  <2>1. GoneFrames /\ GoneKids
    BY <1>10 DEF DiffInv, GoneInv
  <2>2. GoneFrames'
    <3> SUFFICES ASSUME NEW k \in DOMAIN stack'
                 PROVE  /\ stack'[k].owner \notin gone /\ ToSet(stack'[k].next) \cap gone = {}
                        /\ \A p \in stack'[k].dropped : js[stack'[k].owner].kids[p] \in gone
      BY <1>8 DEF GoneFrames
    <3>1. k \in DOMAIN stack /\ k # Len(stack) /\ stack'[k] = stack[k] /\ js[stack[k].owner] = inst[stack[k].owner]
      BY <1>3, <1>4, <1>6
    <3> QED BY <1>1, <1>8, <2>1, <3>1 DEF GoneFrames
  <2>3. GoneDoomed'
    BY <1>8 DEF GoneDoomed
  <2>4. GoneKids'
    <3> SUFFICES ASSUME NEW n \in DOMAIN inst \ gone, NEW i \in ToSet(js[n].kids) \cap gone PROVE Dropped(i)'
      BY <1>3 DEF GoneKids
    <3>1. n # Top.owner
      BY <1>2, <1>3, <2>1 DEF GoneFrames
    <3>2. i \in ToSet(inst[n].kids)
      BY <1>3, <3>1
    <3>3. Dropped(i)
      BY <2>1, <3>2 DEF GoneKids
    <3> QED BY <1>9, <3>1, <3>2, <3>3
  <2> QED BY <2>2, <2>3, <2>4
<1>11. GoneInv'
  BY <1>10 DEF GoneInv, Sound
<1>12. AccountInv'
  <2> SUFFICES ASSUME ~failed, NEW i \in DOMAIN inst \ (gone \cup {Root})
               PROVE  /\ \/ i \in ToSet(js[js[i].under].kids)
                         \/ \E k \in DOMAIN stack' : stack'[k].owner = js[i].under /\ i \in ToSet(stack'[k].next)
                      /\ js[i].under \notin gone \/ i \in ToSet(doomed)
    BY <1>3 DEF AccountInv
  <2>1. /\ \/ i \in ToSet(inst[inst[i].under].kids)
           \/ \E k \in DOMAIN stack : stack[k].owner = inst[i].under /\ i \in ToSet(stack[k].next)
        /\ inst[i].under \notin gone \/ i \in ToSet(doomed)
    BY DEF DiffInv, AccountInv
  <2>2. js[i].under = inst[i].under
    BY <1>3
  <2>3. CASE inst[i].under = Top.owner
    <3>1. ASSUME i \in ToSet(Old) PROVE i \in ToSet(Top.next)
      <4>1. PICK p \in DOMAIN Old : Old[p] = i
        BY <3>1 DEF ToSet
      <4>2. p \notin Top.dropped
        <5>1. GoneFrames
          BY DEF DiffInv, GoneInv, Sound
        <5> QED BY <1>1, <1>2, <1>8, <4>1, <5>1 DEF GoneFrames, Old
      <4> QED BY <4>1, <4>2 DEF Leftovers, Reused
    <3>2. \A k \in DOMAIN stack : stack[k].owner = Top.owner => stack[k] = Top
      BY <1>2, <1>6
    <3> QED BY <1>3, <2>1, <2>2, <2>3, <3>1, <3>2 DEF Old
  <2>4. CASE inst[i].under # Top.owner
    <3>1. inst[i].under \in DOMAIN inst
      BY <1>1, <1>2 DEF ShapeInv, TreeInv, Tree
    <3>2. js[inst[i].under] = inst[inst[i].under]
      BY <1>3, <2>4, <3>1
    <3>3. \A k \in DOMAIN stack : stack[k].owner = inst[i].under => k \in DOMAIN stack' /\ stack'[k] = stack[k]
      BY <1>2, <1>4, <1>5, <2>4
    <3> QED BY <2>1, <2>2, <3>2, <3>3
  <2> QED BY <2>3, <2>4
<1> QED BY <1>7, <1>11, <1>12

LEMMA EndDiff ==
  ASSUME DiffInv, End
  PROVE  DiffInv'
<1>1. PICK js : /\ js = inst'
                /\ js = [inst EXCEPT ![Top.owner].kids = Top.next, ![Top.owner].asked = Top.elems,
                                     ![Top.owner].mounted = TRUE]
  BY DEF End
<1>2. /\ ShapeInv /\ Matched /\ Leftovers = {} /\ stack # << >> /\ doomed = << >> /\ UNCHANGED <<gone, renders, keyed>>
  BY DEF End, DiffInv, Matched, Diffing
<1>3. Ended(js)
  BY <1>1, <1>2, EndedFacts
<1>4. /\ js \in Seq(Instance) /\ Tree(js) /\ DOMAIN js = DOMAIN inst /\ \A i \in DOMAIN inst : js[i].tag = inst[i].tag
  BY <1>3 DEF Ended
<1>5. /\ box \in Seq(DOMAIN inst) /\ IsInjective(box) /\ ToSet(box) = {i \in DOMAIN inst \ gone : IsHost(i)}
  BY <1>2 DEF ShapeInv, TypeOK, BoxInv
<1>6. Collect(js) \in Seq(DOMAIN inst) /\ IsInjective(Collect(js))
  BY <1>4, TreeFacts
<1>7. /\ Ordered(box, Collect(js)) \in Seq(DOMAIN inst) /\ IsInjective(Ordered(box, Collect(js)))
      /\ ToSet(Ordered(box, Collect(js))) = ToSet(box)
      /\ Asked(box, Collect(js)) = DOMAIN Collect(js) => IsPrefix(Collect(js), Ordered(box, Collect(js)))
  BY <1>5, <1>6, PrefixOrdered
<1>8. box' \in Seq(DOMAIN inst) /\ IsInjective(box') /\ ToSet(box') = ToSet(box)
  BY <1>1, <1>5, <1>7 DEF End
<1>9. \/ /\ ~Reorders \/ Asked(box, Collect(js)) = DOMAIN Collect(js)
         /\ stack' = Front(stack) /\ UNCHANGED <<doomed, threw, failed>>
      \/ Throws("deleted") /\ Asked(box, Collect(js)) # DOMAIN Collect(js)
  BY <1>1 DEF End
<1>10. TreeInv'
  BY <1>1, <1>3 DEF Ended, TreeInv
<1>11. \A p \in DOMAIN box' : box'[p] \in DOMAIN inst /\ inst[box'[p]].tag \in HostTags
  <2>1. \A p \in DOMAIN box' : box'[p] \in ToSet(box')
    BY DEF ToSet
  <2> QED BY <1>5, <1>8, <2>1 DEF IsHost
<1>12. BoxInv'
  BY <1>1, <1>2, <1>4, <1>5, <1>8 DEF BoxInv, IsHost
<1>13. CASE /\ ~Reorders \/ Asked(box, Collect(js)) = DOMAIN Collect(js)
            /\ stack' = Front(stack) /\ UNCHANGED <<doomed, threw, failed>>
  <2>1. Below(js, stack')
    BY <1>2, <1>3, <1>13, BelowFacts
  <2>2. TypeOK'
    BY <1>1, <1>2, <1>4, <1>8, <1>11, <1>13, <2>1 DEF ShapeInv, TypeOK, IsHost, Below
  <2>3. StackInv'
    BY <1>1, <1>2, <1>13, <2>1 DEF ShapeInv, StackInv, Below
  <2>4. KeyedInv' /\ GoneInv' /\ AccountInv'
    BY <1>1, <1>2, <1>3, <1>13, <2>1, EndRest
  <2>5. PrefixInv'
    <3>1. CASE Reorders
      <4>1. box' = Ordered(box, Collect(js))
        BY <1>1, <3>1 DEF End
      <4> QED BY <1>1, <1>7, <1>13, <3>1, <4>1 DEF PrefixInv
    <3>2. CASE ~Reorders
      <4>1. box' = box /\ Collect(js) = Collect(inst) /\ Top.dropped = {}
        BY <1>2, <1>3, <3>2, SameOrder DEF End
      <4>2. NoneDropped' => NoneDropped
        <5>1. \A k \in DOMAIN stack : k = Len(stack) => stack[k].dropped = {}
          BY <4>1 DEF Top
        <5>2. \A k \in DOMAIN stack : k # Len(stack) => k \in DOMAIN stack' /\ stack'[k] = stack[k]
          BY <1>2, <2>1 DEF Below, ShapeInv, TypeOK
        <5> QED BY <5>1, <5>2 DEF NoneDropped
      <4>3. Sound' => Sound
        BY <1>2, <1>13 DEF Sound
      <4> QED BY <1>1, <4>1, <4>2, <4>3 DEF DiffInv, PrefixInv
    <3> QED BY <3>1, <3>2
  <2> QED BY <1>10, <1>12, <2>2, <2>3, <2>4, <2>5 DEF DiffInv, ShapeInv
<1>14. CASE Throws("deleted") /\ Asked(box, Collect(js)) # DOMAIN Collect(js)
  <2>1. stack' = << >> /\ doomed' = << >> /\ threw' = "deleted" /\ failed' = TRUE
    BY <1>14 DEF Throws
  <2>2. ~keyed
    BY <1>2, <1>3, <1>14, AllFound
  <2>3. ~Sound'
    BY <1>2, <2>1, <2>2 DEF Sound
  <2>4. << >> \in Seq(FrameType) /\ << >> \in Seq(DOMAIN inst) /\ DOMAIN << >> = {} /\ ToSet(<< >>) = {}
    BY DEF ToSet
  <2>5. TypeOK'
    BY <1>1, <1>2, <1>4, <1>8, <1>11, <2>1, <2>4 DEF ShapeInv, TypeOK, IsHost
  <2>6. StackInv'
    BY <1>2, <2>1, <2>4 DEF ShapeInv, StackInv, Frames
  <2> QED BY <1>10, <1>12, <2>3, <2>5, <2>6, Unsound DEF DiffInv, ShapeInv
<1> QED BY <1>9, <1>13, <1>14

\* The instances, one of which may be about to be mounted.
Rendered(js) ==
  /\ js \in Seq(Instance) /\ DOMAIN js = DOMAIN inst
  /\ \A i \in DOMAIN inst :
       /\ js[i].tag = inst[i].tag /\ js[i].key = inst[i].key /\ js[i].under = inst[i].under
       /\ js[i].kids = inst[i].kids /\ js[i].asked = inst[i].asked
       /\ inst[i].mounted => js[i].mounted

\* A render begins.
LEMMA RenderRest ==
  ASSUME DiffInv, Idle, NEW n \in DOMAIN inst \ gone, ~IsHost(n), NEW elems \in Seq(Elements),
         Render(inst, n, elems), NEW js, js = inst', Rendered(js)
  PROVE  DiffInv'
<1>1. PICK mode, g : mode = Mode(inst[n], elems) /\ g = Frame(n, elems, mode)
  OBVIOUS
<1>2. /\ ShapeInv /\ stack = << >> /\ stack' = Append(<< >>, g) /\ keyed' = (keyed /\ Careful(mode, elems))
      /\ UNCHANGED <<gone, box, doomed, failed>> /\ threw' = "nothing"
      /\ renders < MaxRenders /\ renders' = renders + 1
  BY <1>1 DEF DiffInv, Idle, Render, Calls
<1>3. /\ inst \in Seq(Instance) /\ Tree(inst) /\ Placed(inst) /\ doomed = << >> /\ Root \notin gone
  BY <1>2 DEF ShapeInv, TypeOK, TreeInv, StackInv
<1>4. /\ g.owner = n /\ g.elems = elems /\ g.mode = mode /\ g.next = << >> /\ g.dropped = {}
      /\ FrameInv(inst, g) /\ g \in FrameType
  <2>1. FrameInv(inst, g) /\ g \in FrameType
    BY <1>1, <1>2, CalledFrame
  <2> QED BY <1>1, <2>1 DEF Frame
<1>5. /\ DOMAIN js = DOMAIN inst /\ Grown(js, inst) /\ js \in Seq(Instance)
      /\ \A i \in DOMAIN inst : js[i].kids = inst[i].kids /\ js[i].asked = inst[i].asked /\ js[i].tag = inst[i].tag
  BY DEF Rendered, Grown
<1>6. ASSUME NEW i \in DOMAIN inst
      PROVE  /\ ChildrenOf(inst, i, inst[i].kids) /\ ChildrenOf(js, i, js[i].kids)
             /\ DOMAIN js[i].kids = DOMAIN js[i].asked /\ Matches(js, js[i].kids, js[i].asked)
  <2>1. /\ ChildrenOf(inst, i, inst[i].kids) /\ DOMAIN inst[i].kids = DOMAIN inst[i].asked
        /\ Matches(inst, inst[i].kids, inst[i].asked)
    BY <1>3 DEF Tree, Placed
  <2>2. ChildrenOf(js, i, inst[i].kids) /\ Matches(js, inst[i].kids, inst[i].asked)
    BY <1>5, <2>1, GrownRow
  <2> QED BY <1>5, <2>1, <2>2
<1>7. Tree(js)
  <2>1. js # << >> /\ js[Root].tag = RootTag
    <3>1. inst # << >> /\ inst[Root].tag = RootTag /\ Root \in DOMAIN inst
      BY <1>3 DEF Tree, Root
    <3>2. js # << >>
      BY <1>5, <3>1
    <3> QED BY <1>5, <3>1, <3>2
  <2>2. ASSUME NEW i \in DOMAIN js
        PROVE  /\ ChildrenOf(js, i, js[i].kids)
               /\ js[i].tag \in HostTags \/ ~js[i].mounted => js[i].kids = << >>
               /\ i # Root => js[i].tag \in Tags /\ js[i].under \in 1..i-1
    <3>1. /\ inst[i].tag \in HostTags \/ ~inst[i].mounted => inst[i].kids = << >>
          /\ i # Root => inst[i].tag \in Tags /\ inst[i].under \in 1..i-1
      BY <1>3, <1>5 DEF Tree
    <3> QED BY <1>5, <1>6, <3>1 DEF Rendered
  <2> QED BY <2>1, <2>2 DEF Tree
<1>8. Placed(js)
  BY <1>5, <1>6 DEF Placed
<1>9. FrameInv(js, g)
  <2>1. g.mode = "mount" => \A m \in DOMAIN js : g.owner \notin ToSet(js[m].kids)
    BY <1>4, <1>5 DEF FrameInv, MountFrame
  <2>2. ChildrenOf(inst, g.owner, inst[g.owner].kids) /\ js[g.owner].kids = inst[g.owner].kids
    BY <1>4, <1>5, <1>6
  <2> QED BY <1>4, <1>5, <2>1, <2>2, GrownFrame
<1>10. /\ stack' \in Seq(FrameType) /\ DOMAIN stack' = {1} /\ Len(stack') = 1 /\ stack'[1] = g /\ stack' # << >>
  BY <1>2, <1>4
<1>11. Frames(js, stack')
  BY <1>9, <1>10 DEF Frames
<1>12. Collect(js) = Collect(inst)
  <2>1. \A i \in InTree(inst) : js[i].kids = inst[i].kids /\ js[i].tag = inst[i].tag
    BY <1>3, <1>5, TreeFacts
  <2>2. Len(inst) <= Len(js)
    BY <1>3, <1>5
  <2> QED BY <1>3, <1>5, <1>7, <2>1, <2>2, SameWalk
<1>13. TypeOK'
  <2>1. renders' \in 0..MaxRenders
    BY <1>2, ReconcilerAssumption DEF ShapeInv, TypeOK, ReconcilerAssumption
  <2>2. keyed' \in BOOLEAN
    BY <1>2 DEF ShapeInv, TypeOK, Careful
  <2>3. \A p \in DOMAIN box : box[p] \in DOMAIN inst /\ inst[box[p]].tag \in HostTags
    BY <1>2 DEF ShapeInv, TypeOK, IsHost
  <2>4. \A p \in DOMAIN box : js[box[p]].tag \in HostTags
    BY <1>5, <2>3
  <2>5. inst' \in Seq(Instance) /\ DOMAIN inst' = DOMAIN inst
    BY <1>5
  <2>6. \A p \in DOMAIN box' : inst'[box'[p]].tag \in HostTags
    BY <1>2, <2>4
  <2> QED BY <1>2, <1>10, <2>1, <2>2, <2>5, <2>6 DEF ShapeInv, TypeOK, IsHost
<1>14. TreeInv' /\ BoxInv'
  BY <1>2, <1>5, <1>7, <1>8 DEF ShapeInv, TreeInv, BoxInv, IsHost
<1>15. StackInv'
  BY <1>2, <1>3, <1>11 DEF ShapeInv, StackInv
<1>16. KeyedInv'
  BY <1>2, <1>4, <1>10 DEF KeyedInv
<1>17. DOMAIN << >> = {} /\ ToSet(<< >>) = {} /\ IsInjective(<< >>)
  BY DEF ToSet, IsInjective
<1>18. GoneInv'
  <2> SUFFICES ASSUME Sound' PROVE GoneFrames' /\ GoneDoomed' /\ GoneKids'
    BY DEF GoneInv
  <2>1. GoneFrames /\ GoneKids
    BY <1>2 DEF Sound, DiffInv, GoneInv
  <2>2. \A i : ~Dropped(i)
    BY <1>2, <1>17 DEF Dropped
  <2>3. GoneFrames'
    BY <1>2, <1>3, <1>4, <1>10, <1>17 DEF GoneFrames
  <2>4. GoneDoomed'
    BY <1>2, <1>3, <1>17 DEF GoneDoomed
  <2>5. GoneKids'
    BY <1>2, <1>5, <2>1, <2>2 DEF GoneKids
  <2> QED BY <2>3, <2>4, <2>5
<1>19. AccountInv'
  <2> SUFFICES ASSUME ~failed, NEW i \in DOMAIN inst \ (gone \cup {Root})
               PROVE  /\ i \in ToSet(js[js[i].under].kids)
                      /\ js[i].under \notin gone \/ i \in ToSet(doomed)
    BY <1>2, <1>5 DEF AccountInv
  <2>1. /\ i \in ToSet(inst[inst[i].under].kids)
        /\ inst[i].under \notin gone \/ i \in ToSet(doomed)
    BY <1>2, <1>17 DEF DiffInv, AccountInv
  <2>2. inst[i].under \in DOMAIN inst /\ js[i].under = inst[i].under
    BY <1>3 DEF Tree, Rendered
  <2> QED BY <1>5, <2>1, <2>2
<1>20. PrefixInv'
  <2>1. NoneDropped
    BY <1>2, <1>17 DEF NoneDropped
  <2> QED BY <1>2, <1>12, <2>1 DEF DiffInv, PrefixInv, Sound
<1> QED BY <1>13, <1>14, <1>15, <1>16, <1>18, <1>19, <1>20 DEF DiffInv, ShapeInv

LEMMA Bounded == ASSUME NEW S, NEW n \in Nat, NEW row \in BoundedSeq(S, n) PROVE row \in Seq(S)
<1>1. PICK m \in 0..n : row \in [1..m -> S]
  BY DEF BoundedSeq, SeqOf
<1> QED BY <1>1

LEMMA RenderAllDiff ==
  ASSUME DiffInv, RenderAll
  PROVE  DiffInv'
<1>1. PICK elems \in BoundedSeq(Elements, MaxKids) : Render(inst, Root, elems)
  BY DEF RenderAll
<1>2. elems \in Seq(Elements)
  BY Bounded, ReconcilerAssumption DEF ReconcilerAssumption
<1>3. Root \in DOMAIN inst \ gone /\ ~IsHost(Root) /\ inst \in Seq(Instance)
  BY ReconcilerAssumption
     DEF ReconcilerAssumption, DiffInv, ShapeInv, TypeOK, TreeInv, StackInv, Tree, IsHost, Tags, Root
<1>4. Rendered(inst) /\ inst' = inst /\ Idle
  BY <1>1, <1>3 DEF Rendered, RenderAll, Render
<1> QED BY <1>1, <1>2, <1>3, <1>4, RenderRest

LEMMA RenderOneDiff ==
  ASSUME DiffInv, RenderOne
  PROVE  DiffInv'
<1>1. PICK i \in DOMAIN inst \ gone, e \in Elements :
        /\ inst[i].tag \in CompTags /\ e.tag = inst[i].tag /\ ~e.throws
        /\ Render(inst, i, e.kids)
        /\ inst' = [inst EXCEPT ![i].mounted = TRUE]
  BY DEF RenderOne
<1>2. e.kids \in Seq(Elements) /\ ~IsHost(i)
  BY <1>1, ReconcilerAssumption DEF ReconcilerAssumption, IsElement, IsHost
<1>3. inst \in Seq(Instance) /\ Idle
  BY <1>1 DEF DiffInv, ShapeInv, TypeOK, Render
<1>4. PICK x : x = [inst[i] EXCEPT !.mounted = TRUE]
  OBVIOUS
<1>5. /\ x \in Instance /\ x.tag = inst[i].tag /\ x.key = inst[i].key /\ x.under = inst[i].under
      /\ x.kids = inst[i].kids /\ x.asked = inst[i].asked /\ x.mounted
  <2>1. inst[i] \in Instance
    BY <1>3
  <2> QED BY <1>4, <2>1 DEF Instance
<1>6. inst' = [inst EXCEPT ![i] = x]
  BY <1>1, <1>4
<1>7. PICK js : js = inst'
  OBVIOUS
<1>8. Rendered(js)
  BY <1>3, <1>5, <1>6, <1>7 DEF Rendered
<1> QED BY <1>1, <1>2, <1>3, <1>7, <1>8, RenderRest

LEMMA InitDiff ==
  ASSUME Init
  PROVE  DiffInv
<1>1. PICK elems \in BoundedSeq(Elements, MaxKids) : stack = <<Frame(Root, elems, "mount")>>
  BY DEF Init
<1>2. elems \in Seq(Elements)
  BY Bounded, ReconcilerAssumption DEF ReconcilerAssumption
<1>3. /\ DOMAIN << >> = {} /\ Len(<< >>) = 0 /\ ToSet(<< >>) = {} /\ IsInjective(<< >>)
      /\ \A S : << >> \in Seq(S)
  BY DEF ToSet, IsInjective
<1>4. PICK r : r = Made(RootTag, NoKey, 0)
  OBVIOUS
<1>5. /\ r.tag = RootTag /\ r.key = NoKey /\ r.under = 0 /\ r.kids = << >> /\ r.asked = << >> /\ r.mounted = FALSE
      /\ r \in Instance
  <2>1. r \in Instance
    BY <1>3, <1>4 DEF Made, Instance
  <2> QED BY <1>4, <2>1 DEF Made
<1>6. /\ inst = <<r>> /\ inst \in Seq(Instance) /\ DOMAIN inst = {Root} /\ inst[Root] = r /\ inst # << >>
      /\ Len(inst) = 1
  BY <1>4, <1>5 DEF Init, Root
<1>7. gone = {} /\ box = << >> /\ doomed = << >> /\ threw = "nothing" /\ renders = 0 /\ failed = FALSE /\ keyed = TRUE
  BY DEF Init
<1>8. RootTag \notin HostTags
  BY ReconcilerAssumption DEF ReconcilerAssumption, Tags
<1>9. PICK g : g = Frame(Root, elems, "mount")
  OBVIOUS
<1>10. /\ g.owner = Root /\ g.elems = elems /\ g.mode = "mount" /\ g.next = << >> /\ g.dropped = {}
       /\ g \in FrameType /\ FrameInv(inst, g)
  <2>1. g \in FrameType
    BY <1>2, <1>3, <1>9 DEF Frame, FrameType, Root
  <2>2. PICK mode : mode = "mount"
    OBVIOUS
  <2>3. FrameInv(inst, Frame(Root, elems, mode))
    <3>1. /\ Root \in DOMAIN inst /\ inst[Root].tag \notin HostTags /\ inst[Root].kids = << >>
          /\ \A m \in DOMAIN inst : Root \notin ToSet(inst[m].kids)
      BY <1>3, <1>5, <1>6, <1>8
    <3>2. mode # "position"
      BY <2>2
    <3> QED BY <1>2, <3>1, <3>2, NewFrame
  <2> QED BY <1>9, <2>1, <2>2, <2>3 DEF Frame
<1>11. stack \in Seq(FrameType) /\ DOMAIN stack = {1} /\ Len(stack) = 1 /\ stack[1] = g /\ stack # << >>
  BY <1>1, <1>9, <1>10
<1>12. Tree(inst)
  BY <1>3, <1>5, <1>6 DEF Tree, ChildrenOf
<1>13. Placed(inst)
  BY <1>3, <1>5, <1>6 DEF Placed, Matches
<1>14. TypeOK
  <2>1. inst \in Seq(Instance) /\ gone \subseteq DOMAIN inst /\ stack \in Seq(FrameType)
    BY <1>6, <1>7, <1>11
  <2>2. box \in Seq(DOMAIN inst) /\ doomed \in Seq(DOMAIN inst) /\ DOMAIN box = {}
    BY <1>3, <1>7
  <2>3. \A p \in DOMAIN box : IsHost(box[p])
    BY <2>2
  <2>4. threw \in {"nothing", "component", "deleted"}
    BY <1>7
  <2>5. renders \in 0..MaxRenders /\ failed \in BOOLEAN /\ keyed \in BOOLEAN
    <3>1. PICK max \in Nat : max = MaxRenders
      BY ReconcilerAssumption DEF ReconcilerAssumption
    <3>2. 0 \in 0..max
      OBVIOUS
    <3>3. renders \in 0..MaxRenders
      BY <1>7, <3>1, <3>2
    <3> QED BY <1>7, <3>3
  <2> QED BY <2>1, <2>2, <2>3, <2>4, <2>5 DEF TypeOK
<1>15. BoxInv
  BY <1>3, <1>5, <1>6, <1>7, <1>8 DEF BoxInv, IsHost
<1>16. StackInv
  BY <1>3, <1>7, <1>10, <1>11 DEF StackInv, Frames
<1>17. KeyedInv
  BY <1>7, <1>10, <1>11 DEF KeyedInv, Careful
<1>18. GoneInv
  <2>1. GoneFrames
    BY <1>3, <1>7, <1>10, <1>11 DEF GoneFrames
  <2>2. GoneDoomed
    BY <1>3, <1>7 DEF GoneDoomed
  <2>3. GoneKids
    BY <1>7 DEF GoneKids
  <2> QED BY <2>1, <2>2, <2>3 DEF GoneInv
<1>19. AccountInv
  BY <1>6 DEF AccountInv
<1>20. PrefixInv
  <2>1. Collect(inst) = << >>
    <3>1. Row(inst, 0) = <<Root>> /\ Row(inst, 1) = After(inst, 1, Row(inst, 0))
      <4>1. 1 \in 1..Len(inst) /\ 1 - 1 = 0
        BY <1>6
      <4> QED BY <1>6, <1>12, <4>1, RowIs
    <3>2. Touchable(<<Root>>, 1) /\ PlaceOf(<<Root>>, 1) = 1
      <4>1. DOMAIN <<Root>> = {1} /\ <<Root>>[1] = 1
        BY DEF Root
      <4> QED BY <4>1 DEF Touchable, PlaceOf
    <3>3. Row(inst, 1) = Replaced(<<Root>>, 1, << >>)
      BY <1>5, <1>6, <1>8, <3>1, <3>2 DEF After, Root
    <3>4. Replaced(<<Root>>, 1, << >>) = << >>
      <4>1. SubSeq(<<Root>>, 1, 0) = << >> /\ SubSeq(<<Root>>, 2, 1) = << >> /\ Len(<<Root>>) = 1
        BY DEF Root
      <4> QED BY <3>2, <4>1 DEF Replaced
    <3> QED BY <1>6, <3>3, <3>4 DEF Collect, Row
  <2>2. << >> \in Seq({}) /\ Len(<< >>) = 0
    OBVIOUS
  <2>3. IsPrefix(<< >>, << >>)
    <3>1. PICK s \in Seq({}) : s = << >>
      BY <2>2
    <3>2. IsPrefix(s, s)
      BY PrefixIs
    <3> QED BY <3>1, <3>2
  <2> QED BY <1>7, <2>1, <2>3 DEF PrefixInv
<1> QED BY <1>12, <1>13, <1>14, <1>15, <1>16, <1>17, <1>18, <1>19, <1>20 DEF DiffInv, ShapeInv, TreeInv

-----------------------------------------------------------------------------
(* What follows.                                                           *)

LEMMA NextDiff ==
  ASSUME DiffInv, [Next]_vars
  PROVE  DiffInv'
<1>1. CASE UNCHANGED vars
  <2>1. UNCHANGED <<inst, gone, box, stack, doomed, threw, renders, failed, keyed>>
    BY <1>1 DEF vars
  <2>2. /\ TypeOK /\ TreeInv /\ BoxInv /\ StackInv /\ KeyedInv /\ GoneInv /\ AccountInv /\ PrefixInv
        /\ Top' = Top /\ Sound' = Sound
    BY <2>1 DEF DiffInv, ShapeInv, Top, Sound
  <2>3. TypeOK' /\ BoxInv'
    BY <2>1, <2>2 DEF TypeOK, BoxInv, IsHost
  <2>4. TreeInv' /\ StackInv'
    BY <2>1, <2>2 DEF TreeInv, StackInv
  <2>5. KeyedInv' /\ AccountInv'
    BY <2>1, <2>2 DEF KeyedInv, AccountInv
  <2>6. PrefixInv'
    BY <2>1, <2>2 DEF PrefixInv, NoneDropped
  <2>7. ASSUME NEW i PROVE Dropped(i)' = Dropped(i)
    BY <2>1 DEF Dropped
  <2>8. GoneFrames' = GoneFrames
    BY <2>1 DEF GoneFrames
  <2>9. GoneDoomed' = GoneDoomed
    BY <2>1, <2>2, <2>7 DEF GoneDoomed
  <2>10. GoneKids' = GoneKids
    BY <2>1, <2>7 DEF GoneKids
  <2>11. GoneInv'
    BY <2>2, <2>8, <2>9, <2>10 DEF GoneInv
  <2> QED BY <2>3, <2>4, <2>5, <2>6, <2>11 DEF DiffInv, ShapeInv
<1> QED BY <1>1, RenderAllDiff, RenderOneDiff, PatchHostDiff, PatchComponentDiff, PatchThrowsDiff,
           MountHostDiff, MountComponentDiff, MountThrowsDiff, DropDiff, UnmountComponentDiff,
           UnmountHostDiff, EndDiff DEF Next

\* The tree, the container, the diffs under way and what is being unmounted
\* agree after every step of mount, unmount, diffKids and reorder (ui.js:274-620),
\* and after every failure.
THEOREM DiffInvariant == Spec => []DiffInv
<1>1. Init => DiffInv
  BY InitDiff
<1>2. DiffInv /\ [Next]_vars => DiffInv'
  BY NextDiff
<1> QED BY <1>1, <1>2, PTL DEF Spec

-----------------------------------------------------------------------------
(* What it comes to when no diff is under way.                             *)

LEMMA IdleFacts ==
  ASSUME DiffInv, Idle
  PROVE  /\ inst \in Seq(Instance) /\ Tree(inst) /\ Placed(inst) /\ Root \notin gone /\ doomed = << >>
         /\ NoneDropped /\ \A i \in DOMAIN inst : ~Dropped(i)
<1>1. stack = << >> /\ DOMAIN stack = {}
  BY DEF Idle
<1>2. inst \in Seq(Instance) /\ Tree(inst) /\ Placed(inst) /\ Root \notin gone
  BY DEF DiffInv, ShapeInv, TypeOK, TreeInv, StackInv
<1>3. doomed = << >>
  BY <1>1 DEF DiffInv, ShapeInv, StackInv
<1>4. NoneDropped /\ \A i \in DOMAIN inst : ~Dropped(i)
  BY <1>1 DEF NoneDropped, Dropped
<1> QED BY <1>2, <1>3, <1>4

\* Between renders nothing unmounted is in the tree, unless something has thrown
\* that children matched by position could not stand.
LEMMA IdleLive ==
  ASSUME DiffInv, Idle, Sound
  PROVE  InTree(inst) \cap gone = {}
<1>1. \A n \in DOMAIN inst \ gone : ToSet(inst[n].kids) \cap gone = {}
  BY IdleFacts DEF DiffInv, GoneInv, GoneKids, Tree, ChildrenOf, ToSet
<1> QED BY <1>1, IdleFacts, LiveTree

\* And as long as nothing has thrown, what is not unmounted is in the tree.
LEMMA IdleWhole ==
  ASSUME DiffInv, Idle, ~failed
  PROVE  DOMAIN inst \ gone \subseteq InTree(inst)
<1>1. DOMAIN stack = {} /\ ToSet(doomed) = {}
  BY IdleFacts DEF Idle, ToSet
<1>2. ASSUME NEW i \in DOMAIN inst \ (gone \cup {Root})
      PROVE  inst[i].under \notin gone /\ i \in ToSet(inst[inst[i].under].kids)
  BY <1>1 DEF DiffInv, AccountInv
<1> QED BY <1>2, IdleFacts, WholeTree

LEMMA DiffOrder ==
  ASSUME DiffInv
  PROVE  OrderIsDeclared
<1> SUFFICES ASSUME Idle, Sound
             PROVE  /\ IsPrefix(Collect(inst), box) /\ (~failed => box = Collect(inst))
                    /\ \A n \in InTree(inst) :
                         /\ DOMAIN inst[n].kids = DOMAIN inst[n].asked
                         /\ \A p \in DOMAIN inst[n].kids :
                              Compatible(inst[inst[n].kids[p]], inst[n].asked[p])
  BY DEF OrderIsDeclared
<1>1. inst \in Seq(Instance) /\ Tree(inst) /\ Placed(inst) /\ NoneDropped
  BY IdleFacts
<1>2. IsPrefix(Collect(inst), box)
  BY <1>1 DEF DiffInv, PrefixInv
<1>3. ASSUME ~failed PROVE box = Collect(inst)
  <2>1. /\ Collect(inst) \in Seq(DOMAIN inst)
        /\ ToSet(Collect(inst)) = {i \in InTree(inst) : inst[i].tag \in HostTags}
    BY <1>1, TreeFacts
  <2>2. box \in Seq(DOMAIN inst) /\ IsInjective(box) /\ ToSet(box) = {i \in DOMAIN inst \ gone : IsHost(i)}
    BY DEF DiffInv, ShapeInv, TypeOK, BoxInv
  <2>3. DOMAIN inst \ gone \subseteq InTree(inst)
    BY <1>3, IdleWhole
  <2>4. ToSet(box) \subseteq ToSet(Collect(inst))
    BY <2>1, <2>2, <2>3 DEF IsHost
  <2> QED BY <1>2, <2>1, <2>2, <2>4, PrefixWhole
<1>4. ASSUME NEW n \in InTree(inst)
      PROVE  /\ DOMAIN inst[n].kids = DOMAIN inst[n].asked
             /\ \A p \in DOMAIN inst[n].kids : Compatible(inst[inst[n].kids[p]], inst[n].asked[p])
  <2>1. n \in DOMAIN inst
    BY <1>1, TreeFacts
  <2> QED BY <1>1, <2>1 DEF Placed, Matches
<1> QED BY <1>2, <1>3, <1>4

LEMMA DiffAccounts ==
  ASSUME DiffInv
  PROVE  AllAccountedFor
<1> SUFFICES ASSUME Idle, ~failed PROVE InTree(inst) = DOMAIN inst \ gone
  BY DEF AllAccountedFor
<1>1. InTree(inst) \cap gone = {}
  BY IdleLive DEF Sound
<1>2. DOMAIN inst \ gone \subseteq InTree(inst) /\ InTree(inst) \subseteq DOMAIN inst
  BY IdleFacts, IdleWhole, TreeFacts
<1> QED BY <1>1, <1>2

LEMMA DiffRecovers ==
  ASSUME DiffInv
  PROVE  KeyedRecovers
<1> SUFFICES ASSUME keyed PROVE threw # "deleted" /\ (Idle => InTree(inst) \cap gone = {})
  BY DEF KeyedRecovers
<1>1. threw # "deleted"
  BY DEF DiffInv, KeyedInv
<1>2. ASSUME Idle PROVE InTree(inst) \cap gone = {}
  BY <1>2, IdleLive DEF Sound
<1> QED BY <1>1, <1>2

\* The container, the tree and the diffs under way have their types after every
\* step of ui.js's mount, unmount and diffKids.
THEOREM ReconcilerTypes == Spec => []TypeOK
<1>1. DiffInv => TypeOK
  BY DEF DiffInv, ShapeInv
<1> QED BY <1>1, DiffInvariant, PTL

\* Between renders the container has the declared widgets in declared order,
\* whatever diffKids and reorder (ui.js:518-609) had to insert, move, replace or
\* remove, however deep the components are that contributed to it; after a
\* component matched by key has thrown, they still come first.
THEOREM OrderIsDeclaredAlways == Spec => []OrderIsDeclared
<1>1. DiffInv => OrderIsDeclared
  BY DiffOrder
<1> QED BY <1>1, DiffInvariant, PTL

\* Between renders an instance is in the tree or unmount() (ui.js:362-378) has
\* come to it, and never both, as long as no component has thrown.
THEOREM AllAccountedForAlways == Spec => []AllAccountedFor
<1>1. DiffInv => AllAccountedFor
  BY DiffAccounts
<1> QED BY <1>1, DiffInvariant, PTL

\* Where children are matched by key (diffKids, ui.js:518-592), no component that
\* throws, at any depth, makes ui.js touch a deleted widget or leaves one in the
\* tree, then or in any later render.
THEOREM KeyedRecoversAlways == Spec => []KeyedRecovers
<1>1. DiffInv => KeyedRecovers
  BY DiffRecovers
<1> QED BY <1>1, DiffInvariant, PTL

-----------------------------------------------------------------------------
(* A key keeps its instance.                                               *)

\* Only the end of a diff changes the children of an instance.
LEMMA KidsStay ==
  ASSUME DiffInv, Next, ~End, NEW n \in DOMAIN inst
  PROVE  inst'[n].kids = inst[n].kids
<1>1. inst \in Seq(Instance)
  BY DEF DiffInv, ShapeInv, TypeOK
<1>2. ASSUME NEW made, inst' = Append(inst, made) PROVE inst'[n].kids = inst[n].kids
  <2>1. Append(inst, made)[n] = inst[n]
    BY <1>1
  <2> QED BY <1>2, <2>1
<1>3. CASE UNCHANGED inst
  BY <1>3
<1>4. CASE MountHost \/ MountComponent \/ MountThrows
  <2>1. \E made : inst' = Append(inst, made)
    BY <1>4 DEF MountHost, MountComponent, MountThrows, Mount
  <2> QED BY <1>2, <2>1
<1>5. CASE RenderOne
  <2>1. PICK i \in DOMAIN inst : inst' = [inst EXCEPT ![i].mounted = TRUE]
    BY <1>5 DEF RenderOne
  <2>2. inst'[n] = IF n = i THEN [inst[i] EXCEPT !.mounted = TRUE] ELSE inst[n]
    BY <1>1, <2>1
  <2>3. [inst[n] EXCEPT !.mounted = TRUE].kids = inst[n].kids
    BY <1>1 DEF Instance
  <2> QED BY <2>2, <2>3
<1>6. CASE RenderAll \/ PatchHost \/ PatchComponent \/ PatchThrows \/ Drop \/ UnmountComponent \/ UnmountHost
  BY <1>3, <1>6 DEF RenderAll, PatchHost, PatchComponent, PatchThrows, Drop, UnmountComponent, UnmountHost
<1> QED BY <1>4, <1>5, <1>6 DEF Next

LEMMA KeyStep ==
  ASSUME DiffInv, [Next]_vars, NEW n \in DOMAIN inst, inst'[n].kids # inst[n].kids,
         NEW p \in DOMAIN inst[n].kids, NEW q \in DOMAIN inst'[n].kids, NEW tag \in Tags, NEW key \in Keys,
         Named(inst, n, tag, key) = {p}, Named(inst', n, tag, key) = {q}
  PROVE  inst'[n].kids[q] = inst[n].kids[p]
<1>1. End
  BY KidsStay DEF vars
<1>2. /\ ShapeInv /\ Matched /\ stack # << >>
      /\ inst' = [inst EXCEPT ![Top.owner].kids = Top.next, ![Top.owner].asked = Top.elems,
                              ![Top.owner].mounted = TRUE]
  BY <1>1 DEF DiffInv, End, Matched, Diffing
<1>3. PICK js : js = inst' /\ Ended(js)
  BY <1>2, EndedFacts
<1>4. /\ n = Top.owner /\ js[n].kids = Top.next
      /\ \A i \in DOMAIN inst : js[i].tag = inst[i].tag /\ js[i].key = inst[i].key
  BY <1>3 DEF Ended
<1>5. /\ Top \in FrameType /\ FrameInv(inst, Top) /\ Top.next \in Seq(DOMAIN inst)
      /\ \A r \in DOMAIN Old : Old[r] \in DOMAIN inst
  BY <1>2, TopFacts
<1>6. p \in DOMAIN Old /\ q \in DOMAIN Top.next /\ Old = inst[n].kids
  BY <1>3, <1>4 DEF Old
<1>7. inst[Old[p]].tag = tag /\ inst[Old[p]].key = key
  BY <1>6 DEF Named
<1>8. \A r \in DOMAIN Old : inst[Old[r]].tag = tag /\ inst[Old[r]].key = key => r = p
  BY <1>6 DEF Named
<1>9. /\ inst[Top.next[q]].tag = tag /\ inst[Top.next[q]].key = key
      /\ \A r \in DOMAIN Top.next : inst[Top.next[r]].tag = tag /\ inst[Top.next[r]].key = key => r = q
  <2>1. \A r \in DOMAIN Top.next : Top.next[r] \in DOMAIN inst
    BY <1>5
  <2>2. Named(js, n, tag, key) = {r \in DOMAIN Top.next : inst[Top.next[r]].tag = tag /\ inst[Top.next[r]].key = key}
    BY <1>4, <2>1 DEF Named
  <2>3. {r \in DOMAIN Top.next : inst[Top.next[r]].tag = tag /\ inst[Top.next[r]].key = key} = {q}
    BY <1>3, <2>2
  <2> QED BY <2>3
<1>10. key # NoKey
  BY ReconcilerAssumption DEF ReconcilerAssumption
<1>11. Top.mode = "key"
  <2>1. Top.mode # "mount"
    <3>1. DOMAIN Old # {}
      BY <1>6
    <3> QED BY <1>5, <3>1 DEF FrameInv, MountFrame, Old
  <2>2. Top.mode # "position"
    BY <1>5, <1>6, <1>7, <1>10 DEF FrameInv, PositionFrame, Old
  <2> QED BY <1>5, <2>1, <2>2 DEF FrameType
<1>12. PICK e : e = Top.elems[q] /\ e.tag = tag /\ e.key = key
  BY <1>5, <1>6, <1>9 DEF FrameInv, Matches, Compatible
<1>13. OnlyOne(inst, Old, p, e)
  BY <1>7, <1>8, <1>12 DEF OnlyOne, Compatible
<1>14. Old[p] \in ToSet(Top.next)
  BY <1>5, <1>6, <1>10, <1>11, <1>12, <1>13 DEF FrameInv, KeyFrame, Old
<1>15. PICK r \in DOMAIN Top.next : Top.next[r] = Old[p]
  BY <1>14 DEF ToSet
<1>16. r = q
  BY <1>7, <1>9, <1>15
<1> QED BY <1>3, <1>4, <1>6, <1>15, <1>16

\* In one diffKids (ui.js:518-592) or in many, whatever is made, moved, unmounted
\* or thrown between its beginning and its end, the child that had a tag and a key
\* for its own is the one that has them afterwards.
THEOREM KeyKeepsInstanceAlways == Spec => KeyKeepsInstance
<1>1. DiffInv /\ [Next]_vars
        => [\A n \in DOMAIN inst : inst'[n].kids # inst[n].kids =>
              \A p \in DOMAIN inst[n].kids, q \in DOMAIN inst'[n].kids, tag \in Tags, key \in Keys :
                Named(inst, n, tag, key) = {p} /\ Named(inst', n, tag, key) = {q}
                  => inst'[n].kids[q] = inst[n].kids[p]]_vars
  BY KeyStep
<1> QED BY <1>1, DiffInvariant, PTL DEF Spec, KeyKeepsInstance
=============================================================================
