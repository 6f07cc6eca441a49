----------------------------- MODULE RbTreeProofs -----------------------------
(***************************************************************************)
(* Theorems about RbTree, for every set of keys: the order, the parent     *)
(* pointers and the contents of the tree in every sequence of calls, its   *)
(* black heights until a fixup has climbed, and the rounds of the fixups.  *)
(***************************************************************************)
EXTENDS RbTree, FiniteSetTheorems, SequenceTheorems, WellFoundedInduction, TLAPS

LEMMA LessThan ==
    ASSUME NEW m \in Nat, NEW n \in Nat, ~(<<m, n>> \in OpToRel(<, Nat))
    PROVE  n <= m
  BY SMT DEF OpToRel

\* A set of numbers has a least element.
LEMMA LeastExists ==
    ASSUME NEW S \in SUBSET Nat, S # {}
    PROVE  \E m \in S : \A j \in S : m <= j
  <1>1. PICK m \in S : \A j \in S : ~(<<j, m>> \in OpToRel(<, Nat))
    BY NatLessThanWellFounded, WFMin
  <1> QED
    BY <1>1, LessThan

-----------------------------------------------------------------------------
(* The shape of a tree.                                                    *)

Places == Keys \cup {nil}

Trees == [root : Places, kid : [Sides -> [Keys -> Places]], parent : [Keys -> Places],
          color : [Keys -> {"red", "black"}]]

\* x lies on the side s of n.
Beside(s, x, n) == IF s = "left" THEN x < n ELSE n < x

\* S holds the nodes of the tree, sub[n] those from n downwards.
Rooted(t, S, sub) ==
    /\ t \in Trees /\ S \in SUBSET Keys /\ IsFiniteSet(S)
    /\ sub \in [S \cup {nil} -> SUBSET S] /\ sub[nil] = {}
    /\ t.root \in S \cup {nil} /\ sub[t.root] = S

NodeOK(t, S, sub, n) ==
    /\ \A s \in Sides : t.kid[s][n] \in S \cup {nil} /\ n \notin sub[t.kid[s][n]]
    /\ sub[n] = {n} \cup sub[t.kid["left"][n]] \cup sub[t.kid["right"][n]]
    /\ sub[t.kid["left"][n]] \cap sub[t.kid["right"][n]] = {}

ParentsOK(t, S) ==
    /\ \A n \in S : \A s \in Sides : t.kid[s][n] # nil => t.parent[t.kid[s][n]] = n
    /\ t.root # nil => t.parent[t.root] = nil
    /\ \A n \in S : n # t.root => t.parent[n] \in S /\ \E s \in Sides : t.kid[s][t.parent[n]] = n

Shape(t, S, sub) == Rooted(t, S, sub) /\ (\A n \in S : NodeOK(t, S, sub, n)) /\ ParentsOK(t, S)

\* The nodes but v are in order.
Ordered(t, S, sub, v) ==
    \A n \in S \ {v} : \A s \in Sides : \A x \in sub[t.kid[s][n]] \ {v} : Beside(s, x, n)

BlankAt(t, n) ==
    /\ \A s \in Sides : t.kid[s][n] = nil
    /\ t.parent[n] = nil /\ t.color[n] = "black"

BlankOutside(t, S) == \A n \in Keys \ S : BlankAt(t, n)

LEMMA SideFacts ==
    /\ Sides = {"left", "right"}
    /\ \A s \in Sides : Other(s) \in Sides /\ Other(s) # s /\ Other(Other(s)) = s
    /\ \A s, u \in Sides : u = s \/ u = Other(s)
  BY DEF Sides, Other

LEMMA KeyFacts == nil \notin Keys /\ (\A k \in Keys : k \in Int /\ k # nil)
  BY KeysAssumption

\* What NodeOK says of any side.
LEMMA NodeSides ==
    ASSUME NEW t, NEW S, NEW sub, NEW n, NodeOK(t, S, sub, n), NEW s \in Sides
    PROVE  /\ sub[n] = {n} \cup sub[t.kid[s][n]] \cup sub[t.kid[Other(s)][n]]
           /\ sub[t.kid[s][n]] \cap sub[t.kid[Other(s)][n]] = {}
           /\ n \notin sub[t.kid[s][n]] /\ n \notin sub[t.kid[Other(s)][n]]
           /\ t.kid[s][n] \in S \cup {nil} /\ t.kid[Other(s)][n] \in S \cup {nil}
  <1>1. CASE s = "left"
    BY <1>1 DEF NodeOK, Sides, Other
  <1>2. CASE s = "right"
    BY <1>2 DEF NodeOK, Sides, Other
  <1> QED
    BY <1>1, <1>2 DEF Sides

LEMMA SidesMake ==
    ASSUME NEW t, NEW S, NEW sub, NEW n, NEW s \in Sides,
           sub[n] = {n} \cup sub[t.kid[s][n]] \cup sub[t.kid[Other(s)][n]],
           sub[t.kid[s][n]] \cap sub[t.kid[Other(s)][n]] = {},
           n \notin sub[t.kid[s][n]], n \notin sub[t.kid[Other(s)][n]],
           t.kid[s][n] \in S \cup {nil}, t.kid[Other(s)][n] \in S \cup {nil}
    PROVE  NodeOK(t, S, sub, n)
  <1>1. CASE s = "left"
    BY <1>1 DEF NodeOK, Sides, Other
  <1>2. CASE s = "right"
    BY <1>2 DEF NodeOK, Sides, Other
  <1> QED
    BY <1>1, <1>2 DEF Sides

-----------------------------------------------------------------------------
(* Recursion along the pointers to the children.                           *)

\* d shows that the pointers lead downwards.
Downward(t, d, b) ==
    /\ t \in Trees /\ b \in Nat /\ d \in [Keys -> 0 .. b]
    /\ \A n \in Keys : \A s \in Sides : t.kid[s][n] # nil => d[t.kid[s][n]] < d[n]

LEMMA ShapeDown ==
    ASSUME NEW t, NEW S, NEW sub, Shape(t, S, sub)
    PROVE  /\ \A n \in S : IsFiniteSet(sub[n]) /\ Cardinality(sub[n]) \in 0 .. Cardinality(S)
           /\ Cardinality(S) \in Nat
           /\ \A n \in S : \A s \in Sides : t.kid[s][n] # nil =>
                  Cardinality(sub[t.kid[s][n]]) < Cardinality(sub[n])
  <1>1. IsFiniteSet(S) /\ Cardinality(S) \in Nat
    BY FS_CardinalityType DEF Shape, Rooted
  <1>2. ASSUME NEW n \in S PROVE IsFiniteSet(sub[n]) /\ Cardinality(sub[n]) \in 0 .. Cardinality(S)
    <2>1. sub[n] \subseteq S
      BY DEF Shape, Rooted
    <2>2. IsFiniteSet(sub[n]) /\ Cardinality(sub[n]) <= Cardinality(S)
      BY <1>1, <2>1, FS_Subset
    <2> QED
      BY <1>1, <2>2, FS_CardinalityType
  <1>3. ASSUME NEW n \in S, NEW s \in Sides, t.kid[s][n] # nil
        PROVE  Cardinality(sub[t.kid[s][n]]) < Cardinality(sub[n])
    <2>1. NodeOK(t, S, sub, n)
      BY DEF Shape
    <2>2. sub[t.kid[s][n]] \subseteq sub[n] /\ sub[t.kid[s][n]] # sub[n] /\ t.kid[s][n] \in S
      BY <1>3, <2>1, NodeSides
    <2>3. IsFiniteSet(sub[n]) /\ IsFiniteSet(sub[t.kid[s][n]])
      BY <1>2, <2>2
    <2>4. Cardinality(sub[t.kid[s][n]]) \in Nat /\ Cardinality(sub[n]) \in Nat
      BY <2>3, FS_CardinalityType
    <2>5. Cardinality(sub[t.kid[s][n]]) <= Cardinality(sub[n]) /\ Cardinality(sub[t.kid[s][n]]) # Cardinality(sub[n])
      BY <2>2, <2>3, FS_Subset
    <2> QED
      BY <2>4, <2>5
  <1> QED
    BY <1>1, <1>2, <1>3

\* f is right for the nodes that lie less than i above the end.
Below(f, t, d, base, E, i) ==
    /\ f[nil] = base
    /\ \A n \in Keys : d[n] < i => f[n] = E[n][f[t.kid["left"][n]]][f[t.kid["right"][n]]]

IsComputed(f, t, base, E) ==
    f = [n \in Places |-> IF n = nil THEN base
                          ELSE E[n][f[t.kid["left"][n]]][f[t.kid["right"][n]]]]

\* A value for every place that is computed from those of the two children.
LEMMA Computed ==
    ASSUME NEW t, NEW d, NEW b, Downward(t, d, b), NEW V, NEW base \in V,
           NEW E \in [Keys -> [V -> [V -> V]]]
    PROVE  \E f \in [Places -> V] : IsComputed(f, t, base, E)
  <1> USE SideFacts
  <1> DEFINE Level(i) == \E f \in [Places -> V] : Below(f, t, d, base, E, i)
             missing == {i \in Nat : ~Level(i)}
             G(f) == [n \in Places |-> IF n = nil THEN base
                                       ELSE E[n][f[t.kid["left"][n]]][f[t.kid["right"][n]]]]
  <1>1. /\ b \in Nat /\ \A n \in Keys : d[n] \in 0 .. b
        /\ \A n \in Keys : t.kid["left"][n] \in Places /\ t.kid["right"][n] \in Places
    BY DEF Downward, Trees
  <1>2. \A n \in Keys : \A x, y \in V : E[n][x][y] \in V
    OBVIOUS
  <1>3. ASSUME NEW f \in [Places -> V]
        PROVE  /\ G(f) \in [Places -> V] /\ G(f)[nil] = base
               /\ \A n \in Keys : G(f)[n] = E[n][f[t.kid["left"][n]]][f[t.kid["right"][n]]]
    <2>1. \A n \in Keys : E[n][f[t.kid["left"][n]]][f[t.kid["right"][n]]] \in V
      BY <1>1, <1>2
    <2> QED
      BY <2>1, KeyFacts DEF Places
  <1> HIDE DEF G
  <1>4. Level(0)
    <2>1. [n \in Places |-> base] \in [Places -> V]
      OBVIOUS
    <2>2. Below([n \in Places |-> base], t, d, base, E, 0)
      BY <1>1 DEF Places, Below
    <2> QED
      BY <2>1, <2>2
  <1>5. ASSUME NEW i \in Nat, Level(i)
        PROVE  Level(i + 1)
    <2>1. PICK f \in [Places -> V] : Below(f, t, d, base, E, i)
      BY <1>5
    <2>2. ASSUME NEW n \in Keys, NEW s \in Sides, d[n] < i + 1
          PROVE  G(f)[t.kid[s][n]] = f[t.kid[s][n]]
      <3>1. CASE t.kid[s][n] = nil
        BY <3>1, <2>1, <1>3 DEF Below
      <3>2. CASE t.kid[s][n] # nil
        <4>1. PICK c \in Keys : c = t.kid[s][n]
          BY <3>2, <1>1 DEF Places
        <4>2. d[c] < d[n]
          BY <3>2, <4>1 DEF Downward
        <4>3. d[c] < i
          BY <4>2, <1>1, <2>2
        <4>4. f[c] = E[c][f[t.kid["left"][c]]][f[t.kid["right"][c]]]
          BY <4>3, <2>1 DEF Below
        <4> QED
          BY <4>1, <4>4, <1>3
      <3> QED
        BY <3>1, <3>2
    <2>3. Below(G(f), t, d, base, E, i + 1)
      BY <1>3, <2>2 DEF Below
    <2> QED
      BY <1>3, <2>3
  <1> HIDE DEF Level
  <1>6. ASSUME missing # {}
        PROVE  FALSE
    <2>1. PICK m \in missing : \A j \in missing : m <= j
      BY <1>6, LeastExists
    <2>2. m \in Nat /\ ~Level(m) /\ m # 0
      BY <2>1, <1>4
    <2>3. m - 1 \in Nat /\ Level(m - 1)
      BY <2>1, <2>2
    <2> QED
      BY <1>5, <2>2, <2>3
  <1>7. Level(b + 1)
    BY <1>1, <1>6
  <1>8. PICK f \in [Places -> V] : Below(f, t, d, base, E, b + 1)
    BY <1>7 DEF Level
  <1>9. ASSUME NEW n \in Places
        PROVE  G(f)[n] = f[n]
    <2>1. CASE n = nil
      BY <2>1, <1>3, <1>8 DEF Below
    <2>2. CASE n \in Keys
      <3>1. d[n] < b + 1
        BY <2>2, <1>1
      <3>2. f[n] = E[n][f[t.kid["left"][n]]][f[t.kid["right"][n]]]
        BY <2>2, <3>1, <1>8 DEF Below
      <3> QED
        BY <2>2, <3>2, <1>3
    <2> QED
      BY <2>1, <2>2 DEF Places
  <1>10. f = G(f)
    BY <1>9 DEF G
  <1> QED
    BY <1>10 DEF G, IsComputed

\* The pointers of nodes outside the tree lead into it or nowhere.
OutsideOK(t, S) == \A n \in Keys \ S : \A s \in Sides : t.kid[s][n] \in S \cup {nil}

LEMMA TreeDown ==
    ASSUME NEW t, NEW S, NEW sub, Shape(t, S, sub), OutsideOK(t, S)
    PROVE  \E d, b : Downward(t, d, b)
  <1> DEFINE b == Cardinality(S) + 1
             d == [n \in Keys |-> IF n \in S THEN Cardinality(sub[n]) ELSE b]
  <1>1. b \in Nat /\ d \in [Keys -> 0 .. b]
    BY ShapeDown
  <1>2. ASSUME NEW n \in Keys, NEW s \in Sides, t.kid[s][n] # nil
        PROVE  d[t.kid[s][n]] < d[n]
    <2>1. CASE n \in S
      <3>1. t.kid[s][n] \in S
        BY <1>2, <2>1, NodeSides DEF Shape
      <3> QED
        BY <1>2, <2>1, <3>1, ShapeDown DEF Shape, Rooted
    <2>2. CASE n \notin S
      <3>1. t.kid[s][n] \in S
        BY <1>2, <2>2 DEF OutsideOK
      <3>2. Cardinality(sub[t.kid[s][n]]) \in 0 .. Cardinality(S) /\ Cardinality(S) \in Nat
        BY <3>1, ShapeDown
      <3> QED
        BY <2>2, <3>1, <3>2 DEF Shape, Rooted
    <2> QED
      BY <2>1, <2>2
  <1> QED
    BY <1>1, <1>2 DEF Downward, Shape, Rooted

\* A node is in its own part of the tree, and that part is in the tree.
LEMMA OwnPart ==
    ASSUME NEW t, NEW S, NEW sub, Shape(t, S, sub), NEW n \in S
    PROVE  n \in sub[n] /\ sub[n] \subseteq S /\ n \in Keys /\ n # nil /\ t.root \in S
  BY KeyFacts DEF Shape, Rooted, NodeOK

\* What holds of nil, and of a node as soon as it holds of its children.
LEMMA BottomUp ==
    ASSUME NEW t, NEW S, NEW sub, Shape(t, S, sub), NEW G, nil \in G,
           \A n \in S : (\A s \in Sides : t.kid[s][n] \in G) => n \in G
    PROVE  S \subseteq G
  <1> DEFINE bad == {Cardinality(sub[n]) : n \in S \ G}
  <1>1. bad \in SUBSET Nat
    BY ShapeDown
  <1>2. ASSUME bad # {}
        PROVE  FALSE
    <2>1. PICK k \in bad : \A j \in bad : k <= j
      BY <1>1, <1>2, LeastExists
    <2>2. PICK n \in S \ G : k = Cardinality(sub[n])
      BY <2>1
    <2>3. NodeOK(t, S, sub, n)
      BY DEF Shape
    <2>4. ASSUME NEW s \in Sides, t.kid[s][n] \notin G
          PROVE  FALSE
      <3>1. t.kid[s][n] \in S /\ Cardinality(sub[t.kid[s][n]]) < k
        BY <2>2, <2>3, <2>4, NodeSides, ShapeDown
      <3>2. k \in Nat /\ Cardinality(sub[t.kid[s][n]]) \in Nat
        BY <3>1, <2>2, ShapeDown
      <3>3. Cardinality(sub[t.kid[s][n]]) \notin bad
        BY <2>1, <3>1, <3>2
      <3> QED
        BY <2>4, <3>1, <3>3
    <2> QED
      BY <2>2, <2>4
  <1> QED
    BY <1>2

-----------------------------------------------------------------------------
(* The nodes in order.                                                     *)

\* s lists the keys of X in order.
Lists(s, X) ==
    /\ s \in Seq(Keys)
    /\ X = {s[i] : i \in DOMAIN s}
    /\ \A i \in 1 .. Len(s) - 1 : s[i] < s[i + 1]

LEMMA ListAround ==
    ASSUME NEW l, NEW A, Lists(l, A), NEW r, NEW B, Lists(r, B), NEW n \in Keys,
           \A x \in A : x < n, \A x \in B : n < x
    PROVE  Lists(l \o <<n>> \o r, A \cup {n} \cup B)
  <1> DEFINE s == l \o <<n>> \o r
             a == Len(l)
             b == Len(r)
  <1>1. l \in Seq(Keys) /\ r \in Seq(Keys) /\ a \in Nat /\ b \in Nat
    BY LenProperties DEF Lists
  <1>2. /\ s \in Seq(Keys) /\ Len(s) = a + 1 + b
        /\ \A i \in 1 .. a + 1 + b : s[i] = IF i <= a THEN l[i] ELSE IF i = a + 1 THEN n ELSE r[i - a - 1]
    BY <1>1
  <1>3. /\ \A i \in 1 .. a : l[i] \in A /\ l[i] < n
        /\ \A i \in 1 .. b : r[i] \in B /\ n < r[i]
    BY <1>1 DEF Lists
  <1>4. {s[i] : i \in DOMAIN s} = A \cup {n} \cup B
    <2>1. DOMAIN s = 1 .. a + 1 + b
      BY <1>1, <1>2
    <2>2. ASSUME NEW i \in 1 .. a + 1 + b
          PROVE  s[i] \in A \cup {n} \cup B
      <3> HIDE DEF s, a, b
      <3>1. i <= a \/ i = a + 1 \/ i - a - 1 \in 1 .. b
        BY <1>1
      <3> QED
        BY <1>1, <1>2, <1>3, <3>1
    <2>3. ASSUME NEW x \in A
          PROVE  \E i \in 1 .. a + 1 + b : s[i] = x
      <3>1. PICK i \in 1 .. a : x = l[i]
        BY <1>1 DEF Lists
      <3>2. i \in 1 .. a + 1 + b /\ s[i] = x
        BY <1>1, <1>2, <3>1
      <3> QED
        BY <3>2
    <2>4. ASSUME NEW x \in B
          PROVE  \E i \in 1 .. a + 1 + b : s[i] = x
      <3>1. PICK i \in 1 .. b : x = r[i]
        BY <1>1 DEF Lists
      <3>2. i + a + 1 \in 1 .. a + 1 + b /\ s[i + a + 1] = x
        BY <1>1, <1>2, <3>1
      <3> QED
        BY <3>2
    <2>5. a + 1 \in 1 .. a + 1 + b /\ s[a + 1] = n
      BY <1>1, <1>2
    <2> HIDE DEF s, a, b
    <2> QED
      BY <2>1, <2>2, <2>3, <2>4, <2>5
  <1>5. ASSUME NEW i \in 1 .. Len(s) - 1
        PROVE  s[i] < s[i + 1]
    <2> HIDE DEF s
    <2>1. i \in 1 .. a + b /\ i \in 1 .. a + 1 + b /\ i + 1 \in 1 .. a + 1 + b
      BY <1>1, <1>2
    <2>2. CASE i < a
      <3>1. i \in 1 .. a - 1 /\ s[i] = l[i] /\ s[i + 1] = l[i + 1]
        BY <1>1, <1>2, <2>1, <2>2
      <3> QED
        BY <3>1 DEF Lists
    <2>3. CASE i = a
      <3>1. s[i] = l[i] /\ s[i + 1] = n /\ i \in 1 .. a
        BY <1>1, <1>2, <2>1, <2>3
      <3> QED
        BY <1>3, <3>1
    <2>4. CASE i = a + 1
      <3>1. s[i] = n /\ s[i + 1] = r[1] /\ 1 \in 1 .. b
        BY <1>1, <1>2, <2>1, <2>4
      <3> QED
        BY <1>3, <3>1
    <2>5. CASE i > a + 1
      <3>1. /\ i - a - 1 \in 1 .. b - 1 /\ s[i] = r[i - a - 1]
            /\ s[i + 1] = r[(i - a - 1) + 1]
        BY <1>1, <1>2, <2>1, <2>5
      <3> QED
        BY <3>1 DEF Lists
    <2> QED
      BY <1>1, <2>1, <2>2, <2>3, <2>4, <2>5
  <1> QED
    BY <1>2, <1>4, <1>5 DEF Lists

IsWalk(w, t) ==
    w = [n \in Keys \cup {nil} |->
            IF n = nil THEN << >> ELSE w[t.kid["left"][n]] \o <<n>> \o w[t.kid["right"][n]]]

LEMMA WalkExists ==
    ASSUME NEW t, NEW d, NEW b, Downward(t, d, b)
    PROVE  \E w : IsWalk(w, t)
  <1> DEFINE E == [n \in Keys |-> [x \in Seq(Keys) |-> [y \in Seq(Keys) |-> x \o <<n>> \o y]]]
  <1>1. E \in [Keys -> [Seq(Keys) -> [Seq(Keys) -> Seq(Keys)]]] /\ << >> \in Seq(Keys)
    OBVIOUS
  <1>2. \A n \in Keys : \A x, y \in Seq(Keys) : E[n][x][y] = x \o <<n>> \o y
    OBVIOUS
  <1> DEFINE V == Seq(Keys)
             base == << >>
  <1> HIDE DEF E, V, base
  <1>10. E \in [Keys -> [V -> [V -> V]]] /\ base \in V
    BY <1>1 DEF V, base
  <1>3. PICK f \in [Places -> V] : IsComputed(f, t, base, E)
    BY <1>10, Computed
  <1>4. ASSUME NEW n \in Keys
        PROVE  /\ f[t.kid["left"][n]] \in V /\ f[t.kid["right"][n]] \in V
    <2>1. t.kid["left"][n] \in Places /\ t.kid["right"][n] \in Places
      BY SideFacts DEF Downward, Trees
    <2> QED
      BY <2>1
  <1> USE DEF V, base, IsComputed
  <1>5. ASSUME NEW n \in Keys
        PROVE  E[n][f[t.kid["left"][n]]][f[t.kid["right"][n]]]
                   = f[t.kid["left"][n]] \o <<n>> \o f[t.kid["right"][n]]
    BY <1>2, <1>4
  <1>6. IsWalk(f, t)
    BY <1>3, <1>5 DEF IsWalk, Places
  <1> QED
    BY <1>6

LEMMA WalkLists ==
    ASSUME NEW t, NEW S, NEW sub, Shape(t, S, sub), Ordered(t, S, sub, nil), NEW w, IsWalk(w, t)
    PROVE  \A n \in S \cup {nil} : Lists(w[n], sub[n])
  <1>1. w[nil] = << >> /\ sub[nil] = {} /\ Lists(w[nil], sub[nil])
    BY DEF IsWalk, Shape, Rooted, Lists
  <1> DEFINE G == {x \in S \cup {nil} : Lists(w[x], sub[x])}
  <1>2. ASSUME NEW n \in S, \A s \in Sides : t.kid[s][n] \in G
        PROVE  n \in G
    <2>3. n \in Keys /\ n # nil /\ NodeOK(t, S, sub, n)
      BY KeyFacts DEF Shape, Rooted
    <2>5. \A s \in Sides : \A x \in sub[t.kid[s][n]] : Beside(s, x, n)
      BY <2>3, NodeSides, KeyFacts DEF Ordered, Shape, Rooted
    <2>6. /\ \A x \in sub[t.kid["left"][n]] : x < n
          /\ \A x \in sub[t.kid["right"][n]] : n < x
      BY <2>5 DEF Beside, Sides
    <2>7. w[n] = w[t.kid["left"][n]] \o <<n>> \o w[t.kid["right"][n]]
      BY <2>3 DEF IsWalk
    <2>8. sub[n] = sub[t.kid["left"][n]] \cup {n} \cup sub[t.kid["right"][n]]
      BY <2>3 DEF NodeOK
    <2>9. Lists(w[t.kid["left"][n]], sub[t.kid["left"][n]]) /\ Lists(w[t.kid["right"][n]], sub[t.kid["right"][n]])
      BY <1>2, SideFacts
    <2>10. Lists(w[n], sub[n])
      <3> DEFINE l == w[t.kid["left"][n]]
                 r == w[t.kid["right"][n]]
                 A == sub[t.kid["left"][n]]
                 B == sub[t.kid["right"][n]]
      <3>1. n \in Keys /\ Lists(l, A) /\ Lists(r, B) /\ (\A x \in A : x < n) /\ (\A x \in B : n < x)
        BY <2>3, <2>6, <2>9
      <3>2. w[n] = l \o <<n>> \o r /\ sub[n] = A \cup {n} \cup B
        BY <2>7, <2>8
      <3> HIDE DEF l, r, A, B, G
      <3>3. Lists(l \o <<n>> \o r, A \cup {n} \cup B)
        BY <3>1, ListAround
      <3> QED
        BY <3>2, <3>3
    <2> QED
      BY <2>10
  <1>3. nil \in G
    BY <1>1
  <1> HIDE DEF G
  <1>4. S \subseteq G
    BY <1>2, <1>3, BottomUp
  <1> QED
    BY <1>1, <1>4 DEF G

\* The walk from the root meets each node of the tree once and in order.
LEMMA InOrderLists ==
    ASSUME NEW t, NEW S, NEW sub, Shape(t, S, sub), Ordered(t, S, sub, nil), NEW d, NEW b, Downward(t, d, b)
    PROVE  Lists(InOrder(t), S) /\ KeysOf(t) = S
  <1> DEFINE w == CHOOSE f : IsWalk(f, t)
  <1>1. IsWalk(w, t)
    BY WalkExists
  <1> HIDE DEF w
  <1>2. Lists(w[t.root], S)
    BY <1>1, WalkLists DEF Shape, Rooted
  <1>3. InOrder(t) = w[t.root]
    BY DEF InOrder, w, IsWalk
  <1>4. KeysOf(t) = {InOrder(t)[i] : i \in DOMAIN InOrder(t)}
    BY DEF KeysOf
  <1> QED
    BY <1>2, <1>3, <1>4 DEF Lists

-----------------------------------------------------------------------------
(* The searches.                                                           *)

\* The side on which a search for key leaves n.
Toward(key, n) == IF n < key THEN "right" ELSE "left"

LEMMA TowardSide ==
    ASSUME NEW key \in Keys, NEW n \in Keys, key # n
    PROVE  Toward(key, n) \in Sides /\ Beside(Toward(key, n), key, n) /\ ~Beside(Other(Toward(key, n)), key, n)
  BY KeyFacts DEF Toward, Beside, Sides, Other

IsFind(f, t, key) ==
    f = [n \in Keys \cup {nil} |->
            IF n = nil \/ n = key THEN n
            ELSE f[t.kid[IF n < key THEN "right" ELSE "left"][n]]]

LEMMA FindExists ==
    ASSUME NEW t, NEW d, NEW b, Downward(t, d, b), NEW key \in Keys
    PROVE  \E f : IsFind(f, t, key)
  <1> DEFINE E == [n \in Keys |-> [x \in Places |-> [y \in Places |->
                      IF n = key THEN n ELSE IF n < key THEN y ELSE x]]]
  <1> DEFINE base == nil
  <1>1. E \in [Keys -> [Places -> [Places -> Places]]] /\ base \in Places
    BY DEF Places
  <1>2. \A n \in Keys : \A x, y \in Places :
            E[n][x][y] = IF n = key THEN n ELSE IF n < key THEN y ELSE x
    OBVIOUS
  <1> DEFINE V == Places
  <1> HIDE DEF E, base, V
  <1>10. E \in [Keys -> [V -> [V -> V]]] /\ base \in V
    BY <1>1 DEF V
  <1>3. PICK f \in [Places -> V] : IsComputed(f, t, base, E)
    BY <1>10, Computed
  <1> USE DEF V, IsComputed
  <1>4. ASSUME NEW n \in Keys
        PROVE  E[n][f[t.kid["left"][n]]][f[t.kid["right"][n]]] =
                   IF n = key THEN n ELSE f[t.kid[IF n < key THEN "right" ELSE "left"][n]]
    <2>1. t.kid["left"][n] \in Places /\ t.kid["right"][n] \in Places
      BY SideFacts DEF Downward, Trees
    <2>2. f[t.kid["left"][n]] \in Places /\ f[t.kid["right"][n]] \in Places
      BY <2>1
    <2> QED
      BY <1>2, <2>2
  <1>5. IsFind(f, t, key)
    BY <1>3, <1>4 DEF IsFind, Places, base
  <1> QED
    BY <1>5

\* A search along the order finds a key exactly when the tree has it.
LEMMA FindFinds ==
    ASSUME NEW t, NEW S, NEW sub, Shape(t, S, sub), Ordered(t, S, sub, nil), NEW d, NEW b, Downward(t, d, b),
           NEW key \in Keys
    PROVE  Find(t, key) = IF key \in S THEN key ELSE nil
  <1> DEFINE f == CHOOSE g : IsFind(g, t, key)
             G == {x \in S \cup {nil} : f[x] = IF key \in sub[x] THEN key ELSE nil}
  <1>1. IsFind(f, t, key)
    BY FindExists
  <1>2. Find(t, key) = f[t.root]
    BY DEF Find, IsFind
  <1> HIDE DEF f
  <1>3. nil \in G
    BY <1>1 DEF IsFind, Shape, Rooted
  <1>4. ASSUME NEW n \in S, \A s \in Sides : t.kid[s][n] \in G
        PROVE  n \in G
    <2>1. n \in Keys /\ n # nil /\ NodeOK(t, S, sub, n) /\ n \in sub[n]
      BY OwnPart DEF Shape
    <2>2. CASE n = key
      BY <1>1, <2>1, <2>2 DEF IsFind
    <2>3. CASE n # key
      <3> DEFINE s == Toward(key, n)
      <3>1. s \in Sides /\ ~Beside(Other(s), key, n)
        BY <2>1, <2>3, TowardSide
      <3>2. f[n] = f[t.kid[s][n]]
        BY <1>1, <2>1, <2>3 DEF IsFind, Toward
      <3>3. key \notin sub[t.kid[Other(s)][n]]
        BY <2>1, <3>1, SideFacts, KeyFacts DEF Ordered
      <3>4. key \in sub[n] <=> key \in sub[t.kid[s][n]]
        BY <2>1, <2>3, <3>1, <3>3, NodeSides
      <3> QED
        BY <1>4, <3>1, <3>2, <3>4
    <2> QED
      BY <2>2, <2>3
  <1> HIDE DEF G
  <1>5. S \subseteq G
    BY <1>3, <1>4, BottomUp
  <1>6. f[t.root] = IF key \in sub[t.root] THEN key ELSE nil
    BY <1>3, <1>5 DEF G, Shape, Rooted
  <1> QED
    BY <1>2, <1>6 DEF Shape, Rooted

\* The part of a node has the parts of all its nodes.
LEMMA Within ==
    ASSUME NEW t, NEW S, NEW sub, Shape(t, S, sub)
    PROVE  \A n \in S : \A x \in sub[n] : sub[x] \subseteq sub[n]
  <1> DEFINE G == {n \in S \cup {nil} : \A x \in sub[n] : sub[x] \subseteq sub[n]}
  <1>1. nil \in G
    BY DEF Shape, Rooted
  <1>2. ASSUME NEW n \in S, \A s \in Sides : t.kid[s][n] \in G
        PROVE  n \in G
    <2>1. sub[n] = {n} \cup sub[t.kid["left"][n]] \cup sub[t.kid["right"][n]]
      BY DEF Shape, NodeOK
    <2>2. \A s \in Sides : \A x \in sub[t.kid[s][n]] : sub[x] \subseteq sub[t.kid[s][n]]
      BY <1>2
    <2> QED
      BY <2>1, <2>2, SideFacts
  <1> HIDE DEF G
  <1>3. S \subseteq G
    BY <1>1, <1>2, BottomUp
  <1> QED
    BY <1>3 DEF G

IsLast(f, t, key) ==
    f = [n \in Keys \cup {nil} |->
            LET next == IF n = nil THEN nil ELSE t.kid[IF n < key THEN "right" ELSE "left"][n]
            IN  IF next = nil THEN n ELSE f[next]]

LEMMA LastExists ==
    ASSUME NEW t, NEW d, NEW b, Downward(t, d, b), NEW key \in Keys
    PROVE  \E f : IsLast(f, t, key)
  <1> DEFINE E == [n \in Keys |-> [x \in Places |-> [y \in Places |->
                      IF t.kid[Toward(key, n)][n] = nil THEN n ELSE IF n < key THEN y ELSE x]]]
             base == nil
  <1>1. E \in [Keys -> [Places -> [Places -> Places]]] /\ base \in Places
    BY DEF Places
  <1>2. \A n \in Keys : \A x, y \in Places :
            E[n][x][y] = IF t.kid[Toward(key, n)][n] = nil THEN n ELSE IF n < key THEN y ELSE x
    OBVIOUS
  <1> DEFINE V == Places
  <1> HIDE DEF E, base, V
  <1>10. E \in [Keys -> [V -> [V -> V]]] /\ base \in V
    BY <1>1 DEF V
  <1>3. PICK f \in [Places -> V] : IsComputed(f, t, base, E)
    BY <1>10, Computed
  <1> USE DEF V, IsComputed
  <1>4. ASSUME NEW n \in Keys
        PROVE  E[n][f[t.kid["left"][n]]][f[t.kid["right"][n]]] =
                   IF t.kid[Toward(key, n)][n] = nil THEN n ELSE f[t.kid[Toward(key, n)][n]]
    <2>1. t.kid["left"][n] \in Places /\ t.kid["right"][n] \in Places
      BY SideFacts DEF Downward, Trees
    <2>2. f[t.kid["left"][n]] \in Places /\ f[t.kid["right"][n]] \in Places
      BY <2>1
    <2> QED
      BY <1>2, <2>2 DEF Toward
  <1>5. IsLast(f, t, key)
    BY <1>3, <1>4, KeyFacts DEF IsLast, Places, base, Toward
  <1> QED
    BY <1>5

\* key may hang at n: the free side of n is the one that a search takes, and
\* every node above it agrees.
MayHang(t, S, sub, key, p) ==
    /\ p \in S /\ t.kid[Toward(key, p)][p] = nil
    /\ \A x \in S : \A s \in Sides : p \in sub[t.kid[s][x]] => Beside(s, key, x)

LEMMA LastHangs ==
    ASSUME NEW t, NEW S, NEW sub, Shape(t, S, sub), NEW d, NEW b, Downward(t, d, b), NEW key \in Keys \ S
    PROVE  IF S = {} THEN LastBefore(t, key) = nil ELSE MayHang(t, S, sub, key, LastBefore(t, key))
  <1> DEFINE f == CHOOSE g : IsLast(g, t, key)
             Fits(n, p) == /\ p \in sub[n] /\ t.kid[Toward(key, p)][p] = nil
                           /\ \A x \in sub[n] : \A s \in Sides : p \in sub[t.kid[s][x]] => Beside(s, key, x)
             G == {n \in S \cup {nil} : n # nil => Fits(n, f[n])}
  <1>1. IsLast(f, t, key)
    BY LastExists
  <1>2. LastBefore(t, key) = f[t.root]
    BY DEF LastBefore, IsLast
  <1> HIDE DEF f
  <1>3. nil \in G
    OBVIOUS
  <1>4. ASSUME NEW n \in S, \A s \in Sides : t.kid[s][n] \in G
        PROVE  n \in G
    <2> DEFINE s == Toward(key, n)
               c == t.kid[s][n]
               o == t.kid[Other(s)][n]
               p == f[n]
    <2>1. n \in Keys /\ n # nil /\ n # key /\ NodeOK(t, S, sub, n) /\ n \in sub[n] /\ sub[nil] = {}
      BY OwnPart DEF Shape, Rooted
    <2>2. s \in Sides /\ Beside(s, key, n)
      BY <2>1, TowardSide
    <2>3. f[n] = IF c = nil THEN n ELSE f[c]
      BY <1>1, <2>1 DEF IsLast, Toward
    <2>4. /\ sub[n] = {n} \cup sub[c] \cup sub[o] /\ sub[c] \cap sub[o] = {} /\ n \notin sub[c] /\ n \notin sub[o]
          /\ c \in S \cup {nil} /\ o \in S \cup {nil}
      BY <2>1, <2>2, NodeSides
    <2>5. p \in sub[n] /\ p \notin sub[o] /\ t.kid[Toward(key, p)][p] = nil
      <3>1. CASE c = nil
        BY <2>1, <2>3, <2>4, <3>1
      <3>2. CASE c # nil
        <4>1. Fits(c, p)
          BY <1>4, <2>2, <2>3, <3>2
        <4> QED
          BY <2>4, <4>1
      <3> QED
        BY <3>1, <3>2
    <2>6. ASSUME NEW x \in sub[n], NEW u \in Sides, p \in sub[t.kid[u][x]]
          PROVE  Beside(u, key, x)
      <3>1. CASE x = n
        <4>1. u = s
          BY <2>2, <2>5, <2>6, <3>1, SideFacts
        <4> QED
          BY <2>2, <3>1, <4>1
      <3>2. x \in S /\ sub[t.kid[u][x]] \subseteq sub[x]
        BY <2>1, <2>6, OwnPart, NodeSides DEF Shape
      <3>3. CASE x \in sub[o]
        <4>1. o \in S
          BY <2>1, <2>4, <3>3
        <4>2. sub[x] \subseteq sub[o]
          BY <3>3, <4>1, Within
        <4> QED
          BY <2>5, <2>6, <3>2, <4>2
      <3>4. CASE x \in sub[c]
        <4>1. c # nil
          BY <2>1, <3>4
        <4>2. Fits(c, p)
          BY <1>4, <2>2, <2>3, <4>1
        <4> QED
          BY <2>6, <3>4, <4>2
      <3> QED
        BY <2>4, <3>1, <3>3, <3>4
    <2> HIDE DEF s, c, o, p
    <2>7. Fits(n, p)
      BY <2>5, <2>6
    <2> QED
      BY <2>7 DEF p
  <1> HIDE DEF G
  <1>5. S \subseteq G
    BY <1>3, <1>4, BottomUp
  <1>6. CASE S = {}
    BY <1>1, <1>2, <1>6 DEF IsLast, Shape, Rooted
  <1>7. CASE S # {}
    <2>1. t.root \in S /\ t.root # nil /\ sub[t.root] = S
      BY <1>7, OwnPart, KeyFacts DEF Shape, Rooted
    <2>2. Fits(t.root, f[t.root])
      BY <1>5, <2>1 DEF G
    <2> QED
      BY <1>2, <1>7, <2>1, <2>2 DEF MayHang
  <1> QED
    BY <1>6, <1>7

IsLeftmost(f, t) ==
    f = [m \in Keys |-> IF t.kid["left"][m] = nil THEN m ELSE f[t.kid["left"][m]]]

LEMMA LeftmostExists ==
    ASSUME NEW t, NEW d, NEW b, Downward(t, d, b)
    PROVE  \E f : IsLeftmost(f, t)
  <1> DEFINE E == [n \in Keys |-> [x \in Places |-> [y \in Places |->
                      IF t.kid["left"][n] = nil THEN n ELSE x]]]
             base == nil
  <1>1. E \in [Keys -> [Places -> [Places -> Places]]] /\ base \in Places
    BY DEF Places
  <1>2. \A n \in Keys : \A x, y \in Places : E[n][x][y] = IF t.kid["left"][n] = nil THEN n ELSE x
    OBVIOUS
  <1> DEFINE V == Places
  <1> HIDE DEF E, base, V
  <1>10. E \in [Keys -> [V -> [V -> V]]] /\ base \in V
    BY <1>1 DEF V
  <1>3. PICK f \in [Places -> V] : IsComputed(f, t, base, E)
    BY <1>10, Computed
  <1> USE DEF V, IsComputed
  <1>4. ASSUME NEW n \in Keys
        PROVE  f[n] = IF t.kid["left"][n] = nil THEN n ELSE f[t.kid["left"][n]]
    <2>1. t.kid["left"][n] \in Places /\ t.kid["right"][n] \in Places
      BY SideFacts DEF Downward, Trees
    <2>2. f[t.kid["left"][n]] \in Places /\ f[t.kid["right"][n]] \in Places
      BY <2>1
    <2>3. f[n] = E[n][f[t.kid["left"][n]]][f[t.kid["right"][n]]]
      BY <1>3, KeyFacts DEF Places
    <2> QED
      BY <1>2, <2>2, <2>3
  <1> DEFINE g == [m \in Keys |-> f[m]]
  <1>5. \A m \in Keys : t.kid["left"][m] # nil => t.kid["left"][m] \in Keys
    BY SideFacts DEF Downward, Trees, Places
  <1>6. IsLeftmost(g, t)
    BY <1>4, <1>5 DEF IsLeftmost
  <1> QED
    BY <1>6

\* The successor of a node with two children is the least node on its right,
\* and has no left child.
LEMMA SuccessorNext ==
    ASSUME NEW t, NEW S, NEW sub, Shape(t, S, sub), Ordered(t, S, sub, nil), NEW d, NEW b, Downward(t, d, b),
           NEW n \in S, t.kid["right"][n] # nil
    PROVE  /\ Successor(t, n) \in sub[t.kid["right"][n]] /\ t.kid["left"][Successor(t, n)] = nil
           /\ \A x \in sub[t.kid["right"][n]] : x = Successor(t, n) \/ Successor(t, n) < x
  <1> DEFINE f == CHOOSE g : IsLeftmost(g, t)
             Least(m, p) == /\ p \in sub[m] /\ t.kid["left"][p] = nil
                            /\ \A x \in sub[m] : x = p \/ p < x
             G == {m \in S \cup {nil} : m # nil => Least(m, f[m])}
  <1>1. IsLeftmost(f, t)
    BY LeftmostExists
  <1>2. Successor(t, n) = f[t.kid["right"][n]]
    BY DEF Successor, IsLeftmost
  <1> HIDE DEF f
  <1>3. nil \in G
    OBVIOUS
  <1>4. ASSUME NEW m \in S, \A s \in Sides : t.kid[s][m] \in G
        PROVE  m \in G
    <2> DEFINE c == t.kid["left"][m]
               o == t.kid["right"][m]
    <2>1. m \in Keys /\ m # nil /\ NodeOK(t, S, sub, m) /\ m \in sub[m] /\ sub[nil] = {}
      BY OwnPart DEF Shape, Rooted
    <2>2. f[m] = IF c = nil THEN m ELSE f[c]
      BY <1>1, <2>1 DEF IsLeftmost
    <2>3. /\ sub[m] = {m} \cup sub[c] \cup sub[o] /\ c \in S \cup {nil} /\ o \in S \cup {nil}
          /\ m \notin sub[c] /\ m \notin sub[o]
      BY <2>1, SideFacts DEF NodeOK
    <2>4. (\A x \in sub[c] : x < m) /\ (\A x \in sub[o] : m < x)
      <3>1. /\ \A x \in sub[c] : Beside("left", x, m)
            /\ \A x \in sub[o] : Beside("right", x, m)
        <4>1. nil \notin S /\ sub[c] \subseteq S /\ sub[o] \subseteq S
          BY <2>3, KeyFacts DEF Shape, Rooted
        <4> QED
          BY <2>1, <4>1, SideFacts DEF Ordered
      <3> QED
        BY <3>1 DEF Beside
    <2>5. sub[m] \subseteq Int /\ m \in Int
      BY KeyFacts, OwnPart DEF Shape, Rooted
    <2>6. CASE c = nil
      BY <2>1, <2>2, <2>3, <2>4, <2>6
    <2>7. CASE c # nil
      <3>1. Least(c, f[m])
        BY <1>4, <2>2, <2>7, SideFacts
      <3> DEFINE p == f[m]
      <3> HIDE DEF c, o, p
      <3>2. p \in sub[c] /\ p \in sub[m] /\ p < m /\ p \in Int
        BY <3>1, <2>3, <2>4, <2>5 DEF p
      <3>3. ASSUME NEW x \in sub[m]
            PROVE  x = p \/ p < x
        <4>1. CASE x = m \/ x \in sub[o]
          BY <2>4, <2>5, <3>2, <3>3, <4>1
        <4>2. CASE x \in sub[c]
          BY <3>1, <4>2 DEF p
        <4> QED
          BY <2>3, <4>1, <4>2
      <3> QED
        BY <3>1, <3>2, <3>3 DEF p
    <2> QED
      BY <2>6, <2>7
  <1> HIDE DEF G
  <1>5. S \subseteq G
    BY <1>3, <1>4, BottomUp
  <1>6. t.kid["right"][n] \in S
    BY SideFacts DEF Shape, NodeOK
  <1>7. Least(t.kid["right"][n], f[t.kid["right"][n]])
    BY <1>5, <1>6 DEF G
  <1> QED
    BY <1>2, <1>7

-----------------------------------------------------------------------------
(* Rotations.                                                              *)

\* The tree of the nodes S, in order but for v, and nothing besides.
TreeOK(t, S, sub, v) == Shape(t, S, sub) /\ Ordered(t, S, sub, v) /\ BlankOutside(t, S)

\* Every node but the root is the child of exactly one node, on one side.
LEMMA OneParent ==
    ASSUME NEW t, NEW S, NEW sub, Shape(t, S, sub), NEW n \in S
    PROVE  /\ n = t.root <=> t.parent[n] = nil
           /\ n # t.root => /\ t.parent[n] \in S /\ SideOf(t, n) \in Sides
                            /\ t.kid[SideOf(t, n)][t.parent[n]] = n
           /\ \A x \in S : \A a \in Sides : t.kid[a][x] = n <=> n # t.root /\ x = t.parent[n] /\ a = SideOf(t, n)
           /\ SideOf(t, n) \in Sides
  <1>1. n \in sub[n] /\ n # nil /\ nil \notin S /\ nil \notin Keys /\ t.root \in S
    BY OwnPart, KeyFacts DEF Shape, Rooted
  <1>2. n = t.root => t.parent[n] = nil
    BY <1>1 DEF Shape, ParentsOK
  <1>3. n # t.root => t.parent[n] \in S /\ \E a \in Sides : t.kid[a][t.parent[n]] = n
    BY DEF Shape, ParentsOK
  <1>4. \A x \in S : \A a \in Sides : t.kid[a][x] = n => x = t.parent[n]
    BY <1>1 DEF Shape, ParentsOK
  <1>5. SideOf(t, n) \in Sides
    BY DEF SideOf, Sides
  <1>6. ASSUME NEW x \in S
        PROVE  t.kid["left"][x] # n \/ t.kid["right"][x] # n
    BY <1>1 DEF Shape, NodeOK
  <1>7. ASSUME n # t.root
        PROVE  t.kid[SideOf(t, n)][t.parent[n]] = n /\ t.kid[Other(SideOf(t, n))][t.parent[n]] # n
    BY <1>3, <1>6, <1>7 DEF SideOf, Sides, Other
  <1>8. n # t.root <=> t.parent[n] # nil
    BY <1>1, <1>2, <1>3
  <1>9. ASSUME NEW x \in S, NEW a \in Sides, t.kid[a][x] = n
        PROVE  n # t.root /\ x = t.parent[n] /\ a = SideOf(t, n)
    <2>1. x = t.parent[n] /\ x # nil
      BY <1>1, <1>4, <1>9
    <2>2. n # t.root
      BY <1>8, <2>1
    <2> QED
      BY <1>5, <1>7, <1>9, <2>1, <2>2, SideFacts
  <1> QED
    BY <1>3, <1>5, <1>7, <1>8, <1>9

\* The fields after a rotation.
Turned(t, p, s, c, m, u) ==
    /\ u.root = IF t.root = p THEN c ELSE t.root
    /\ \A a \in Sides : u.kid[a] = [x \in Keys |->
           IF x = p THEN (IF a = s THEN t.kid[s][p] ELSE m)
           ELSE IF x = c THEN (IF a = s THEN p ELSE t.kid[a][c])
           ELSE IF t.kid[a][x] = p THEN c ELSE t.kid[a][x]]
    /\ u.parent = [x \in Keys |-> IF x = c THEN t.parent[p] ELSE IF x = p THEN c
                                  ELSE IF x = m THEN p ELSE t.parent[x]]
    /\ u.color = [x \in Keys |-> IF x = c THEN t.color[p] ELSE IF x = p THEN t.color[c] ELSE t.color[x]]

\* One child pointer is set.
LEMMA KidSet ==
    ASSUME NEW k \in [Sides -> [Keys -> Places]], NEW e \in Sides, NEW q \in Keys, NEW c \in Places
    PROVE  /\ [k EXCEPT ![e][q] = c] \in [Sides -> [Keys -> Places]]
           /\ \A a \in Sides : \A x \in Keys :
                  [k EXCEPT ![e][q] = c][a][x] = IF x = q /\ a = e THEN c ELSE k[a][x]
  <1>1. [k[e] EXCEPT ![q] = c] \in [Keys -> Places]
    OBVIOUS
  <1>2. [k EXCEPT ![e] = [k[e] EXCEPT ![q] = c]] \in [Sides -> [Keys -> Places]]
    BY <1>1
  <1> QED
    BY <1>1, <1>2

LEMMA TreeFields ==
    ASSUME NEW t \in Trees
    PROVE  /\ t.root \in Places /\ t.kid \in [Sides -> [Keys -> Places]] /\ t.parent \in [Keys -> Places]
           /\ t.color \in [Keys -> {"red", "black"}]
           /\ \A k \in [Sides -> [Keys -> Places]] :
                  /\ [t EXCEPT !.kid = k] \in Trees /\ [t EXCEPT !.kid = k].kid = k
                  /\ [t EXCEPT !.kid = k].root = t.root /\ [t EXCEPT !.kid = k].parent = t.parent
                  /\ [t EXCEPT !.kid = k].color = t.color
           /\ \A f \in [Keys -> Places] :
                  /\ [t EXCEPT !.parent = f] \in Trees /\ [t EXCEPT !.parent = f].parent = f
                  /\ [t EXCEPT !.parent = f].root = t.root /\ [t EXCEPT !.parent = f].kid = t.kid
                  /\ [t EXCEPT !.parent = f].color = t.color
           /\ \A f \in [Keys -> {"red", "black"}] :
                  /\ [t EXCEPT !.color = f] \in Trees /\ [t EXCEPT !.color = f].color = f
                  /\ [t EXCEPT !.color = f].root = t.root /\ [t EXCEPT !.color = f].kid = t.kid
                  /\ [t EXCEPT !.color = f].parent = t.parent
           /\ \A f \in Places :
                  /\ [t EXCEPT !.root = f] \in Trees /\ [t EXCEPT !.root = f].root = f
                  /\ [t EXCEPT !.root = f].parent = t.parent /\ [t EXCEPT !.root = f].kid = t.kid
                  /\ [t EXCEPT !.root = f].color = t.color
  BY DEF Trees

\* What takes the place of n: Linked sets the one pointer that leads to n.
LEMMA LinkedGives ==
    ASSUME NEW t, NEW S, NEW sub, Shape(t, S, sub), BlankOutside(t, S), NEW p \in S, NEW c \in Places
    PROVE  LET l == Linked(t, p, c) IN
           /\ l \in Trees /\ l.parent = t.parent /\ l.color = t.color
           /\ l.root = IF t.root = p THEN c ELSE t.root
           /\ \A a \in Sides : l.kid[a] = [x \in Keys |-> IF t.kid[a][x] = p THEN c ELSE t.kid[a][x]]
  <1> DEFINE q == t.parent[p]
             e == SideOf(t, p)
             l == Linked(t, p, c)
  <1>1. t \in Trees /\ S \subseteq Keys /\ nil \notin S /\ nil \notin Keys /\ p \in Keys
    BY KeyFacts DEF Shape, Rooted
  <1>4. /\ p = t.root <=> q = nil
        /\ p # t.root => q \in S /\ e \in Sides
        /\ \A x \in S : \A a \in Sides : t.kid[a][x] = p <=> p # t.root /\ x = q /\ a = e
    BY OneParent
  <1>5. ASSUME NEW x \in Keys, NEW a \in Sides
        PROVE  t.kid[a][x] = p <=> p # t.root /\ x = q /\ a = e
    BY <1>1, <1>4 DEF BlankOutside, BlankAt
  <1>6. /\ l \in Trees /\ l.parent = t.parent /\ l.color = t.color
        /\ l.root = IF t.root = p THEN c ELSE t.root
        /\ \A a \in Sides : l.kid[a] = [x \in Keys |-> IF t.kid[a][x] = p THEN c ELSE t.kid[a][x]]
    <2>1. CASE p = t.root
      <3>1. l = [t EXCEPT !.root = c]
        BY <1>4, <2>1 DEF Linked
      <3>2. \A a \in Sides : \A x \in Keys : t.kid[a][x] # p
        BY <1>5, <2>1
      <3>3. /\ l \in Trees /\ l.parent = t.parent /\ l.color = t.color /\ l.kid = t.kid /\ l.root = c
        BY <1>1, <3>1 DEF Trees, Places
      <3>4. \A a \in Sides : t.kid[a] = [x \in Keys |-> IF t.kid[a][x] = p THEN c ELSE t.kid[a][x]]
        BY <1>1, <3>2 DEF Trees
      <3> QED
        BY <2>1, <3>3, <3>4
    <2>2. CASE p # t.root
      <3>1. l = [t EXCEPT !.kid[e][q] = c] /\ q \in Keys /\ e \in Sides
        BY <1>1, <1>4, <2>2 DEF Linked
      <3>2. /\ l \in Trees /\ l.parent = t.parent /\ l.color = t.color /\ l.root = t.root
            /\ l.kid = [t.kid EXCEPT ![e][q] = c]
        <4> DEFINE k == [t.kid EXCEPT ![e][q] = c]
        <4>1. k \in [Sides -> [Keys -> Places]]
          BY <1>1, <3>1, TreeFields, KidSet DEF Places
        <4>2. l = [t EXCEPT !.kid = k]
          BY <3>1
        <4> HIDE DEF k, l
        <4>3. /\ l \in Trees /\ l.parent = t.parent /\ l.color = t.color /\ l.root = t.root
              /\ l.kid = k
          BY <1>1, <4>1, <4>2, TreeFields
        <4> QED
          BY <4>3 DEF k
      <3>3. \A a \in Sides : \A x \in Keys :
                l.kid[a][x] = IF x = q /\ a = e THEN c ELSE t.kid[a][x]
        BY <1>1, <3>1, <3>2, TreeFields, KidSet DEF Places
      <3>4. \A a \in Sides : l.kid[a] \in [Keys -> Places]
        BY <3>2 DEF Trees
      <3>5. \A a \in Sides : l.kid[a] = [x \in Keys |-> IF t.kid[a][x] = p THEN c ELSE t.kid[a][x]]
        BY <1>5, <2>2, <3>3, <3>4
      <3> QED
        BY <2>2, <3>2, <3>5
    <2> QED
      BY <2>1, <2>2
  <1> QED
    BY <1>6

LEMMA RotateTurns ==
    ASSUME NEW t, NEW S, NEW sub, Shape(t, S, sub), BlankOutside(t, S), NEW p \in S, NEW s \in Sides,
           NEW c, c = t.kid[Other(s)][p], c # nil, NEW m, m = t.kid[s][c]
    PROVE  /\ Rotate(t, p, s) \in Trees /\ Turned(t, p, s, c, m, Rotate(t, p, s))
           /\ c \in S /\ m \in S \cup {nil} /\ c # p /\ m # p /\ m # c
  <1> DEFINE o == Other(s)
             q == t.parent[p]
             l == Linked(t, p, c)
             w == Swapped(l, p, c)
             r == [w EXCEPT !.kid[o][p] = m, !.kid[s][c] = p, !.parent[c] = q, !.parent[p] = c]
  <1>1. /\ t \in Trees /\ S \subseteq Keys /\ nil \notin S /\ nil \notin Keys /\ p \in Keys
        /\ o \in Sides /\ o # s /\ \A a \in Sides : a = s \/ a = o
    BY KeyFacts, SideFacts DEF Shape, Rooted
  <1>2. c \in S /\ c # p /\ c \in Keys
    BY <1>1, NodeSides, OwnPart DEF Shape
  <1>3. m \in S \cup {nil} /\ m # p /\ m # c
    <2>1. NodeOK(t, S, sub, c) /\ NodeOK(t, S, sub, p) /\ p \in sub[p] /\ c \in sub[c]
      BY <1>2, OwnPart DEF Shape
    <2>2. sub[m] \subseteq sub[c] /\ c \notin sub[m] /\ p \notin sub[c] /\ m \in S \cup {nil}
      BY <1>1, <2>1, NodeSides
    <2> QED
      BY <1>1, <2>1, <2>2
  <1>6. /\ l \in Trees /\ l.parent = t.parent /\ l.color = t.color
        /\ l.root = IF t.root = p THEN c ELSE t.root
        /\ \A a \in Sides : l.kid[a] = [x \in Keys |-> IF t.kid[a][x] = p THEN c ELSE t.kid[a][x]]
    BY <1>2, LinkedGives DEF Places
  <1> HIDE DEF l, q
  <1>7. /\ w \in Trees /\ w.parent = t.parent /\ w.root = l.root /\ w.kid = l.kid
        /\ w.color = [x \in Keys |-> IF x = c THEN t.color[p] ELSE IF x = p THEN t.color[c] ELSE t.color[x]]
    BY <1>1, <1>2, <1>6 DEF Swapped, Trees
  <1> HIDE DEF w
  <1>8. q \in Places /\ m \in Places /\ p \in Places /\ c \in Places
    BY <1>1, <1>2, <1>3 DEF q, Trees, Places
  <1>9. /\ r \in Trees /\ r.root = w.root /\ r.color = w.color
        /\ r.kid = [w.kid EXCEPT ![o][p] = m, ![s][c] = p]
        /\ r.parent = [w.parent EXCEPT ![c] = q, ![p] = c]
    BY <1>1, <1>2, <1>7, <1>8 DEF Trees
  <1>10. Rotate(t, p, s) = Parented(r, m, p)
    BY DEF Rotate, r, w, l, q, o
  <1> HIDE DEF r
  <1>11. /\ Rotate(t, p, s) \in Trees /\ Rotate(t, p, s).root = r.root /\ Rotate(t, p, s).color = r.color
         /\ Rotate(t, p, s).kid = r.kid
         /\ Rotate(t, p, s).parent = [x \in Keys |-> IF x = c THEN q ELSE IF x = p THEN c
                                                     ELSE IF x = m THEN p ELSE t.parent[x]]
    <2>1. r.parent = [x \in Keys |-> IF x = c THEN q ELSE IF x = p THEN c ELSE t.parent[x]]
      BY <1>1, <1>2, <1>7, <1>9 DEF Trees
    <2>2. CASE m = nil
      <3>1. Parented(r, m, p) = r
        BY <2>2 DEF Parented
      <3> QED
        BY <1>1, <1>9, <1>10, <2>1, <2>2, <3>1
    <2>3. CASE m # nil
      <3>1. Parented(r, m, p) = [r EXCEPT !.parent[m] = p] /\ m \in Keys
        BY <1>1, <1>3, <2>3 DEF Parented
      <3> DEFINE f == [r.parent EXCEPT ![m] = p]
      <3>2. [r EXCEPT !.parent[m] = p] = [r EXCEPT !.parent = f] /\ f \in [Keys -> Places]
        BY <1>8, <1>9, <3>1, TreeFields
      <3>3. [r.parent EXCEPT ![m] = p] = [x \in Keys |-> IF x = c THEN q ELSE IF x = p THEN c
                                                         ELSE IF x = m THEN p ELSE t.parent[x]]
        BY <1>3, <2>1
      <3> QED
        BY <1>9, <1>10, <3>1, <3>2, <3>3, TreeFields
    <2> QED
      BY <2>2, <2>3
  <1>12. ASSUME NEW a \in Sides
         PROVE  r.kid[a] = [x \in Keys |->
                    IF x = p THEN (IF a = s THEN t.kid[s][p] ELSE m)
                    ELSE IF x = c THEN (IF a = s THEN p ELSE t.kid[a][c])
                    ELSE IF t.kid[a][x] = p THEN c ELSE t.kid[a][x]]
    <2>1. w.kid \in [Sides -> [Keys -> Places]]
      BY <1>7 DEF Trees
    <2>2. \A x \in Keys : w.kid[a][x] = IF t.kid[a][x] = p THEN c ELSE t.kid[a][x]
      <3>1. w.kid[a] = [x \in Keys |-> IF t.kid[a][x] = p THEN c ELSE t.kid[a][x]]
        BY <1>6, <1>7
      <3> QED
        BY <3>1
    <2>3. \A x \in Keys : r.kid[a][x] = IF a = o /\ x = p THEN m ELSE IF a = s /\ x = c THEN p ELSE w.kid[a][x]
      <3> DEFINE k == [w.kid EXCEPT ![o][p] = m]
      <3>1. r.kid = [k EXCEPT ![s][c] = p]
        BY <1>9
      <3>2. /\ k \in [Sides -> [Keys -> Places]]
            /\ \A x \in Keys : k[a][x] = IF x = p /\ a = o THEN m ELSE w.kid[a][x]
        BY <1>1, <1>8, <2>1, KidSet
      <3> HIDE DEF k
      <3>3. \A x \in Keys : r.kid[a][x] = IF x = c /\ a = s THEN p ELSE k[a][x]
        BY <1>2, <1>8, <3>1, <3>2, KidSet
      <3> QED
        BY <1>1, <1>2, <3>2, <3>3
    <2>4. r.kid[a] \in [Keys -> Places]
      BY <1>9 DEF Trees
    <2>5. t.kid[s][p] # p /\ t.kid[o][p] # p /\ t.kid[s][c] # p /\ t.kid[o][c] # p
      <3>1. NodeOK(t, S, sub, c) /\ NodeOK(t, S, sub, p) /\ p \in sub[p] /\ c \in sub[c]
        BY <1>2, OwnPart DEF Shape
      <3>2. /\ sub[c] = {c} \cup sub[t.kid[s][c]] \cup sub[t.kid[o][c]] /\ p \notin sub[c]
            /\ p \notin sub[t.kid[s][p]] /\ p \notin sub[t.kid[o][p]]
        BY <1>1, <3>1, NodeSides
      <3> QED
        BY <3>1, <3>2
    <2>6. \A x \in Keys : r.kid[a][x] =
              IF x = p THEN (IF a = s THEN t.kid[s][p] ELSE m)
              ELSE IF x = c THEN (IF a = s THEN p ELSE t.kid[a][c])
              ELSE IF t.kid[a][x] = p THEN c ELSE t.kid[a][x]
      BY <1>1, <1>2, <2>2, <2>3, <2>5
    <2> QED
      BY <2>4, <2>6
  <1> DEFINE u == Rotate(t, p, s)
  <1> HIDE DEF u
  <1>13. /\ u.root = IF t.root = p THEN c ELSE t.root
         /\ u.parent = [x \in Keys |-> IF x = c THEN t.parent[p] ELSE IF x = p THEN c
                                       ELSE IF x = m THEN p ELSE t.parent[x]]
         /\ u.color = [x \in Keys |-> IF x = c THEN t.color[p] ELSE IF x = p THEN t.color[c] ELSE t.color[x]]
         /\ u.kid = r.kid /\ u \in Trees
    BY <1>6, <1>7, <1>9, <1>11 DEF q, u
  <1>14. Turned(t, p, s, c, m, u)
    BY <1>12, <1>13 DEF Turned
  <1> QED
    BY <1>2, <1>3, <1>13, <1>14 DEF u

\* A rotation keeps the tree and its order; the parts of the two nodes change.
LEMMA RotateKeeps ==
    ASSUME NEW t, NEW S, NEW sub, NEW v, TreeOK(t, S, sub, v), NEW p \in S, NEW s \in Sides,
           NEW c, c = t.kid[Other(s)][p], c # nil, v # p, v # c
    PROVE  \E sub2 : /\ TreeOK(Rotate(t, p, s), S, sub2, v)
                     /\ \A x \in (S \cup {nil}) \ {p, c} : sub2[x] = sub[x]
                     /\ sub2[c] = sub[p]
  <1> DEFINE o == Other(s)
             m == t.kid[s][c]
             u == Rotate(t, p, s)
             sub2 == [x \in S \cup {nil} |->
                         IF x = c THEN sub[p]
                         ELSE IF x = p THEN {p} \cup sub[t.kid[s][p]] \cup sub[m] ELSE sub[x]]
  <1>0. Shape(t, S, sub) /\ Ordered(t, S, sub, v) /\ BlankOutside(t, S)
    BY DEF TreeOK
  <1>1. /\ u \in Trees /\ Turned(t, p, s, c, m, u)
        /\ c \in S /\ m \in S \cup {nil} /\ c # p /\ m # p /\ m # c
    BY <1>0, RotateTurns
  <1>2. /\ o \in Sides /\ o # s /\ \A a \in Sides : a = s \/ a = o
        /\ S \subseteq Keys /\ nil \notin S /\ sub[nil] = {}
        /\ sub \in [S \cup {nil} -> SUBSET S] /\ t \in Trees /\ IsFiniteSet(S)
        /\ t.root \in S \cup {nil} /\ sub[t.root] = S
    BY <1>0, KeyFacts, SideFacts DEF Shape, Rooted
  <1> HIDE DEF u, o
  <1>3. \A x \in S : x \in sub[x] /\ NodeOK(t, S, sub, x)
    BY <1>0, OwnPart DEF Shape
  <1>4. /\ sub[p] = {p} \cup sub[t.kid[s][p]] \cup sub[c] /\ sub[t.kid[s][p]] \cap sub[c] = {}
        /\ p \notin sub[t.kid[s][p]] /\ p \notin sub[c] /\ t.kid[s][p] \in S \cup {nil}
    BY <1>3, NodeSides DEF o
  <1>5. /\ sub[c] = {c} \cup sub[m] \cup sub[t.kid[o][c]] /\ sub[m] \cap sub[t.kid[o][c]] = {}
        /\ c \notin sub[m] /\ c \notin sub[t.kid[o][c]] /\ t.kid[o][c] \in S \cup {nil}
    <2>1. NodeOK(t, S, sub, c)
      BY <1>1, <1>3
    <2> QED
      BY <2>1, NodeSides DEF o
  <1> HIDE DEF m
  <1>6. /\ t.kid[o][p] = c
        /\ \A a \in Sides : u.kid[a][p] = IF a = s THEN t.kid[s][p] ELSE m
        /\ \A a \in Sides : u.kid[a][c] = IF a = s THEN p ELSE t.kid[o][c]
        /\ \A a \in Sides : \A x \in Keys \ {p, c} : u.kid[a][x] = IF t.kid[a][x] = p THEN c ELSE t.kid[a][x]
    <2>1. t.kid[o][p] = c
      BY DEF o
    <2>3. \A a \in Sides : a # s => a = o
      BY <1>2
    <2>4. p \in Keys /\ c \in Keys /\ c # p
      BY <1>1, <1>2
    <2>5. ASSUME NEW a \in Sides
          PROVE  /\ u.kid[a][p] = IF a = s THEN t.kid[s][p] ELSE m
                 /\ u.kid[a][c] = IF a = s THEN p ELSE t.kid[o][c]
                 /\ \A x \in Keys \ {p, c} : u.kid[a][x] = IF t.kid[a][x] = p THEN c ELSE t.kid[a][x]
      <3>1. u.kid[a] = [x \in Keys |->
                IF x = p THEN (IF a = s THEN t.kid[s][p] ELSE m)
                ELSE IF x = c THEN (IF a = s THEN p ELSE t.kid[a][c])
                ELSE IF t.kid[a][x] = p THEN c ELSE t.kid[a][x]]
        BY <1>1 DEF Turned
      <3>2. u.kid[a][p] = IF a = s THEN t.kid[s][p] ELSE m
        BY <2>4, <3>1
      <3>3. u.kid[a][c] = IF a = s THEN p ELSE t.kid[a][c]
        BY <2>4, <3>1
      <3>4. \A x \in Keys \ {p, c} : u.kid[a][x] = IF t.kid[a][x] = p THEN c ELSE t.kid[a][x]
        BY <3>1
      <3> QED
        BY <2>3, <3>2, <3>3, <3>4
    <2> QED
      BY <2>1, <2>5
  <1>7. /\ u.root = IF t.root = p THEN c ELSE t.root
        /\ \A x \in Keys : u.parent[x] = IF x = c THEN t.parent[p] ELSE IF x = p THEN c
                                         ELSE IF x = m THEN p ELSE t.parent[x]
        /\ \A x \in Keys : u.color[x] = IF x = c THEN t.color[p] ELSE IF x = p THEN t.color[c] ELSE t.color[x]
    BY <1>1 DEF Turned
  <1>8. /\ \A n \in S : \A a \in Sides : t.kid[a][n] \in S \cup {nil}
        /\ \A n \in S : \A a \in Sides : t.kid[a][n] # nil => t.parent[t.kid[a][n]] = n
        /\ t.root # nil => t.parent[t.root] = nil
        /\ \A n \in S : n # t.root => t.parent[n] \in S /\ \E a \in Sides : t.kid[a][t.parent[n]] = n
    BY <1>0, <1>3, NodeSides DEF Shape, ParentsOK
  <1>9. t.parent[c] = p /\ (m # nil => t.parent[m] = c)
    BY <1>1, <1>2, <1>6, <1>8 DEF m
  <1>10. /\ sub2[c] = sub[p] /\ sub2[p] = {p} \cup sub[t.kid[s][p]] \cup sub[m] /\ sub2[nil] = {}
         /\ \A x \in (S \cup {nil}) \ {p, c} : sub2[x] = sub[x]
         /\ sub2 \in [S \cup {nil} -> SUBSET S]
    BY <1>1, <1>2, <1>4
  <1> HIDE DEF sub2
  <1>11. Rooted(u, S, sub2)
    BY <1>1, <1>2, <1>7, <1>9, <1>8, <1>10 DEF Rooted
  <1>12. ASSUME NEW n \in S
         PROVE  NodeOK(u, S, sub2, n)
    <2>1. CASE n = p
      <3>1. sub2[t.kid[s][p]] = sub[t.kid[s][p]] /\ sub2[m] = sub[m]
        BY <1>1, <1>3, <1>4, <1>10
      <3>2. u.kid[s][p] = t.kid[s][p] /\ u.kid[o][p] = m
        BY <1>2, <1>6
      <3>3. /\ sub2[p] = {p} \cup sub2[u.kid[s][p]] \cup sub2[u.kid[o][p]]
            /\ sub2[u.kid[s][p]] \cap sub2[u.kid[o][p]] = {}
            /\ p \notin sub2[u.kid[s][p]] /\ p \notin sub2[u.kid[o][p]]
            /\ u.kid[s][p] \in S \cup {nil} /\ u.kid[o][p] \in S \cup {nil}
        BY <1>1, <1>4, <1>5, <1>10, <3>1, <3>2
      <3> QED
        BY <2>1, <3>3, SidesMake DEF o
    <2>2. CASE n = c
      <3>1. sub2[t.kid[o][c]] = sub[t.kid[o][c]]
        BY <1>1, <1>3, <1>4, <1>5, <1>10
      <3>2. u.kid[s][c] = p /\ u.kid[o][c] = t.kid[o][c]
        BY <1>2, <1>6
      <3>3. /\ sub2[c] = {c} \cup sub2[u.kid[s][c]] \cup sub2[u.kid[o][c]]
            /\ sub2[u.kid[s][c]] \cap sub2[u.kid[o][c]] = {}
            /\ c \notin sub2[u.kid[s][c]] /\ c \notin sub2[u.kid[o][c]]
            /\ u.kid[s][c] \in S \cup {nil} /\ u.kid[o][c] \in S \cup {nil}
        <4> DEFINE A == sub[t.kid[s][p]]
                   M == sub[m]
                   C == sub[t.kid[o][c]]
        <4> HIDE DEF A, M, C
        <4>1. /\ sub2[c] = {p} \cup A \cup {c} \cup M \cup C
              /\ sub2[u.kid[s][c]] = {p} \cup A \cup M /\ sub2[u.kid[o][c]] = C
          BY <1>4, <1>5, <1>10, <3>1, <3>2 DEF A, M, C
        <4>2. A \cap C = {} /\ M \cap C = {} /\ p \notin C /\ c \notin C /\ c \notin A /\ c \notin M /\ c # p
          BY <1>1, <1>4, <1>5 DEF A, M, C
        <4>3. u.kid[s][c] \in S \cup {nil} /\ u.kid[o][c] \in S \cup {nil}
          BY <1>5, <3>2
        <4> QED
          BY <4>1, <4>2, <4>3
      <3> QED
        BY <2>2, <3>3, SidesMake DEF o
    <2>3. CASE n # p /\ n # c
      <3>1. ASSUME NEW a \in Sides
            PROVE  sub2[u.kid[a][n]] = sub[t.kid[a][n]] /\ u.kid[a][n] \in S \cup {nil}
        BY <1>1, <1>2, <1>6, <1>8, <1>9, <1>10, <2>3
      <3>2. sub2[n] = sub[n] /\ NodeOK(t, S, sub, n)
        BY <1>3, <1>10, <2>3
      <3> QED
        BY <3>1, <3>2, SideFacts DEF NodeOK
    <2> QED
      BY <2>1, <2>2, <2>3
  <1>13. ASSUME NEW n \in S, NEW a \in Sides, u.kid[a][n] # nil
         PROVE  u.parent[u.kid[a][n]] = n
    <2>1. CASE n = p
      <3>1. t.kid[s][p] # p /\ t.kid[s][p] # c
        BY <1>1, <1>3, <1>4
      <3> QED
        BY <1>1, <1>2, <1>6, <1>7, <1>8, <1>13, <2>1, <3>1
    <2>2. CASE n = c
      <3>1. t.kid[o][c] # p /\ t.kid[o][c] # c /\ (t.kid[o][c] # nil => t.kid[o][c] # m)
        BY <1>1, <1>2, <1>3, <1>4, <1>5
      <3>2. CASE a = s
        BY <1>1, <1>2, <1>6, <1>7, <2>2, <3>2
      <3>3. CASE a = o
        <4>1. u.kid[a][n] = t.kid[o][c] /\ t.kid[o][c] \in S /\ t.kid[o][c] # nil
          BY <1>2, <1>5, <1>6, <1>13, <2>2, <3>3
        <4>2. t.parent[t.kid[o][c]] = c
          BY <1>1, <1>2, <1>8, <4>1
        <4> QED
          BY <1>2, <1>7, <2>2, <3>1, <4>1, <4>2
      <3> QED
        BY <1>2, <3>2, <3>3
    <2>3. CASE n # p /\ n # c
      <3>1. CASE t.kid[a][n] = p
        BY <1>1, <1>2, <1>6, <1>7, <1>8, <2>3, <3>1
      <3>2. CASE t.kid[a][n] # p
        <4>1. u.kid[a][n] = t.kid[a][n] /\ t.kid[a][n] \in S
          BY <1>2, <1>6, <1>8, <1>13, <2>3, <3>2
        <4>2. t.kid[a][n] # c /\ t.kid[a][n] # m /\ t.parent[t.kid[a][n]] = n
          BY <1>2, <1>8, <1>9, <2>3, <4>1
        <4> QED
          BY <1>2, <1>7, <3>2, <4>1, <4>2
      <3> QED
        BY <3>1, <3>2
    <2> QED
      BY <2>1, <2>2, <2>3
  <1>14. u.root # nil => u.parent[u.root] = nil
    BY <1>1, <1>2, <1>7, <1>8, <1>9
  <1>15. ASSUME NEW n \in S, n # u.root
         PROVE  u.parent[n] \in S /\ \E a \in Sides : u.kid[a][u.parent[n]] = n
    <2>1. CASE n = c
      <3>1. p # t.root
        BY <1>7, <1>15, <2>1
      <3>2. PICK a \in Sides : t.kid[a][t.parent[p]] = p
        BY <1>8, <3>1
      <3>3. t.parent[p] \in S /\ t.parent[p] # p /\ t.parent[p] # c
        <4>1. t.parent[p] \in S
          BY <1>8, <3>1
        <4>2. sub[p] \subseteq sub[t.parent[p]] /\ t.parent[p] \notin sub[p]
          BY <1>3, <3>2, <4>1, NodeSides
        <4> QED
          BY <1>3, <1>4, <4>1, <4>2
      <3> QED
        BY <1>1, <1>2, <1>6, <1>7, <2>1, <3>2, <3>3
    <2>2. CASE n = p
      BY <1>1, <1>2, <1>6, <1>7, <2>2
    <2>3. CASE n = m
      BY <1>1, <1>2, <1>6, <1>7, <2>3
    <2>4. CASE n # c /\ n # p /\ n # m
      <3>1. n # t.root /\ u.parent[n] = t.parent[n] /\ t.parent[n] \in S
        BY <1>2, <1>7, <1>8, <1>15, <2>4
      <3>2. PICK a \in Sides : t.kid[a][t.parent[n]] = n
        BY <1>8, <3>1
      <3>3. u.kid[a][t.parent[n]] = n
        BY <1>2, <1>6, <2>4, <3>1, <3>2 DEF m
      <3> QED
        BY <3>1, <3>3
    <2> QED
      BY <2>1, <2>2, <2>3, <2>4
  <1>16. Shape(u, S, sub2)
    BY <1>11, <1>12, <1>13, <1>14, <1>15 DEF Shape, ParentsOK
  <1>17. BlankOutside(u, S)
    <2> SUFFICES ASSUME NEW n \in Keys \ S
                 PROVE  BlankAt(u, n)
      BY DEF BlankOutside
    <2>1. BlankAt(t, n)
      BY <1>0 DEF BlankOutside
    <2>2. n # p /\ n # c /\ n # m /\ p # nil
      BY <1>1, <1>2, KeyFacts
    <2>3. \A a \in Sides : u.kid[a][n] = nil
      BY <1>6, <2>1, <2>2 DEF BlankAt
    <2> QED
      BY <1>7, <2>1, <2>2, <2>3 DEF BlankAt
  <1>18. Ordered(u, S, sub2, v)
    <2>0. S \subseteq Int
      BY <1>2, KeyFacts
    <2>1. \A n \in S \ {v} : \A a \in Sides : \A x \in sub[t.kid[a][n]] \ {v} : Beside(a, x, n)
      BY <1>0 DEF Ordered
    <2>2. c \in sub[c] /\ Beside(o, c, p) /\ Beside(s, p, c)
      <3>1. c \in sub[c]
        BY <1>1, <1>3
      <3>2. Beside(o, c, p)
        BY <1>2, <1>6, <2>1, <3>1
      <3> QED
        BY <1>2, <3>1, <3>2, SideFacts DEF Beside, Sides, Other, o
    <2> SUFFICES ASSUME NEW n \in S \ {v}, NEW a \in Sides, NEW x \in sub2[u.kid[a][n]] \ {v}
                 PROVE  Beside(a, x, n)
      BY DEF Ordered
    <2>3. CASE n = p
      <3>1. sub2[u.kid[a][p]] = IF a = s THEN sub[t.kid[s][p]] ELSE sub[m]
        BY <1>1, <1>3, <1>4, <1>6, <1>10
      <3>2. a = s => t.kid[s][p] = t.kid[a][p]
        OBVIOUS
      <3>3. a = o => sub[m] \subseteq sub[t.kid[a][p]]
        BY <1>5, <1>6
      <3> QED
        BY <1>2, <2>1, <2>3, <3>1, <3>2, <3>3
    <2>4. CASE n = c /\ a = o
      <3>1. sub2[u.kid[a][c]] = sub[t.kid[o][c]]
        BY <1>1, <1>2, <1>3, <1>4, <1>5, <1>6, <1>10, <2>4
      <3> QED
        BY <2>1, <2>4, <3>1
    <2>5. CASE n = c /\ a = s
      <3>1. x = p \/ x \in sub[t.kid[s][p]] \/ x \in sub[m]
        BY <1>2, <1>6, <1>10, <2>5
      <3>2. CASE x = p
        BY <2>2, <2>5, <3>2
      <3>3. CASE x \in sub[m]
        BY <2>1, <2>5, <3>3 DEF m
      <3>4. CASE x \in sub[t.kid[s][p]]
        <4>1. Beside(s, x, p) /\ x \in S
          BY <1>2, <1>4, <2>1, <3>4
        <4> QED
          BY <1>1, <2>0, <2>2, <2>5, <4>1 DEF Beside
      <3> QED
        BY <3>1, <3>2, <3>3, <3>4
    <2>6. CASE n # p /\ n # c
      <3>1. sub2[u.kid[a][n]] = sub[t.kid[a][n]]
        BY <1>1, <1>2, <1>6, <1>8, <1>9, <1>10, <2>6
      <3> QED
        BY <2>1, <3>1
    <2> QED
      BY <1>2, <2>3, <2>4, <2>5, <2>6
  <1>19. TreeOK(u, S, sub2, v)
    BY <1>16, <1>17, <1>18 DEF TreeOK
  <1> QED
    BY <1>10, <1>19 DEF u

-----------------------------------------------------------------------------
(* Colours, and nodes that are left out.                                   *)

LEMMA Recolored ==
    ASSUME NEW t, NEW S, NEW sub, NEW v, TreeOK(t, S, sub, v), NEW u \in Trees,
           u.root = t.root, u.kid = t.kid, u.parent = t.parent, \A n \in Keys \ S : u.color[n] = "black"
    PROVE  TreeOK(u, S, sub, v)
  BY DEF TreeOK, Shape, Rooted, NodeOK, ParentsOK, Ordered, BlankOutside, BlankAt

\* One side of n is free, m is on the other or is nil.
OnlyChild(t, n, m) == \E e \in Sides : t.kid[e][n] = m /\ t.kid[Other(e)][n] = nil

LEMMA KidsCount ==
    ASSUME NEW t, NEW S, NEW sub, Shape(t, S, sub), NEW n \in S
    PROVE  /\ Cardinality(Kids(t, n)) = 2 <=> (t.kid["left"][n] # nil /\ t.kid["right"][n] # nil)
           /\ Cardinality(Kids(t, n)) # 2 =>
                  OnlyChild(t, n, IF Kids(t, n) = {} THEN nil ELSE CHOOSE c \in Kids(t, n) : TRUE)
           /\ Cardinality(Kids(t, n)) \notin {1, 2} => Kids(t, n) = {}
           /\ Kids(t, n) \subseteq S
           /\ \A c : OnlyChild(t, n, c) => Kids(t, n) = {c} \ {nil}
  <1> DEFINE l == t.kid["left"][n]
             r == t.kid["right"][n]
  <1>1. NodeOK(t, S, sub, n) /\ (l # nil => l \in S) /\ (r # nil => r \in S) /\ nil \notin S
    BY SideFacts, OwnPart DEF Shape, NodeOK
  <1>2. l # nil => l # r
    BY <1>1, OwnPart DEF NodeOK
  <1>3. Kids(t, n) = {l, r} \ {nil}
    BY DEF Kids, Sides
  <1>4. \A c : OnlyChild(t, n, c) <=> (l = c /\ r = nil) \/ (r = c /\ l = nil)
    BY DEF OnlyChild, Sides, Other
  <1> HIDE DEF l, r
  <1>5. CASE l = nil /\ r = nil
    <2>1. Kids(t, n) = {} /\ Cardinality(Kids(t, n)) = 0
      BY <1>3, <1>5, FS_EmptySet
    <2> QED
      BY <1>4, <1>5, <2>1 DEF l, r
  <1>6. CASE l = nil /\ r # nil
    <2>0. Kids(t, n) = {r}
      BY <1>3, <1>6
    <2>1. Kids(t, n) = {r} /\ Cardinality(Kids(t, n)) = 1
      BY <2>0, FS_Singleton
    <2>2. (CHOOSE c \in Kids(t, n) : TRUE) = r
      BY <2>1
    <2> QED
      BY <1>1, <1>4, <1>6, <2>1, <2>2 DEF l, r
  <1>7. CASE l # nil /\ r = nil
    <2>0. Kids(t, n) = {l}
      BY <1>3, <1>7
    <2>1. Kids(t, n) = {l} /\ Cardinality(Kids(t, n)) = 1
      BY <2>0, FS_Singleton
    <2>2. (CHOOSE c \in Kids(t, n) : TRUE) = l
      BY <2>1
    <2> QED
      BY <1>1, <1>4, <1>7, <2>1, <2>2 DEF l, r
  <1>8. CASE l # nil /\ r # nil
    <2>1. Kids(t, n) = {l} \cup {r} /\ Kids(t, n) = {l, r}
      BY <1>3, <1>8
    <2>2. IsFiniteSet({l}) /\ Cardinality({l}) = 1
      BY FS_Singleton
    <2>3. Cardinality({l} \cup {r}) = 1 + 1
      BY <1>2, <1>8, <2>2, FS_AddElement
    <2>4. Cardinality(Kids(t, n)) = 2
      BY <2>1, <2>3
    <2> QED
      BY <1>1, <1>4, <1>8, <2>1, <2>4 DEF l, r
  <1> QED
    BY <1>5, <1>6, <1>7, <1>8

LEMMA OnlyKeeps ==
    ASSUME NEW t, NEW S, NEW sub, Shape(t, S, sub), Ordered(t, S, sub, nil), KeysOf(t) = S
    PROVE  /\ TreeOK(Only(t), S, sub, nil) /\ Only(t).root = t.root
           /\ \A n \in S : /\ Only(t).color[n] = t.color[n] /\ Only(t).parent[n] = t.parent[n]
                           /\ \A a \in Sides : Only(t).kid[a][n] = t.kid[a][n]
  <1> DEFINE k == [a \in Sides |-> [n \in Keys |-> IF n \in S THEN t.kid[a][n] ELSE nil]]
             p == [n \in Keys |-> IF n \in S THEN t.parent[n] ELSE nil]
             g == [n \in Keys |-> IF n \in S THEN t.color[n] ELSE "black"]
             u == Only(t)
  <1>1. t \in Trees /\ S \subseteq Keys /\ nil \notin S
    BY KeyFacts DEF Shape, Rooted
  <1>2. u = [t EXCEPT !.kid = k, !.parent = p, !.color = g]
    BY DEF Only
  <1>3. k \in [Sides -> [Keys -> Places]] /\ p \in [Keys -> Places] /\ g \in [Keys -> {"red", "black"}]
    BY <1>1, TreeFields DEF Places
  <1> HIDE DEF u, k, p, g
  <1>4. u \in Trees /\ u.root = t.root /\ u.kid = k /\ u.parent = p /\ u.color = g
    BY <1>1, <1>2, <1>3 DEF Trees
  <1>5. \A n \in S : /\ u.color[n] = t.color[n] /\ u.parent[n] = t.parent[n]
                     /\ \A a \in Sides : u.kid[a][n] = t.kid[a][n]
    BY <1>1, <1>4 DEF k, p, g
  <1>6. BlankOutside(u, S)
    BY <1>4 DEF BlankOutside, BlankAt, k, p, g
  <1>7. \A n \in S : NodeOK(u, S, sub, n)
    <2> SUFFICES ASSUME NEW n \in S
                 PROVE  NodeOK(u, S, sub, n)
      OBVIOUS
    <2>1. u.kid["left"][n] = t.kid["left"][n] /\ u.kid["right"][n] = t.kid["right"][n]
      BY <1>5, SideFacts
    <2>2. \A a \in Sides : u.kid[a][n] = t.kid[a][n]
      BY <1>5
    <2>3. NodeOK(t, S, sub, n)
      BY DEF Shape
    <2> QED
      BY <2>1, <2>2, <2>3 DEF NodeOK
  <1>8. Rooted(u, S, sub)
    BY <1>4 DEF Shape, Rooted
  <1>9. ParentsOK(u, S)
    <2>1. \A n \in S : \A a \in Sides : t.kid[a][n] \in S \cup {nil}
      BY DEF Shape, NodeOK
    <2>2. t.root # nil => t.root \in S
      BY DEF Shape, Rooted
    <2> QED
      BY <1>4, <1>5, <2>1, <2>2 DEF Shape, ParentsOK
  <1>10. Ordered(u, S, sub, nil)
    BY <1>5 DEF Ordered
  <1> QED
    BY <1>4, <1>5, <1>6, <1>7, <1>8, <1>9, <1>10 DEF TreeOK, Shape, u

-----------------------------------------------------------------------------
(* A new node.                                                             *)

LEMMA FirstNode ==
    ASSUME NEW t, NEW sub, TreeOK(t, {}, sub, nil), NEW key \in Keys
    PROVE  \E sub2 : TreeOK([t EXCEPT !.root = key], {key}, sub2, nil)
  <1> DEFINE u == [t EXCEPT !.root = key]
             sub2 == [x \in {key, nil} |-> IF x = key THEN {key} ELSE {}]
  <1>1. t \in Trees /\ key # nil /\ key \in Keys
    BY KeyFacts DEF TreeOK, Shape, Rooted
  <1>2. u \in Trees /\ u.root = key /\ u.kid = t.kid /\ u.parent = t.parent /\ u.color = t.color
    BY <1>1, TreeFields DEF Places
  <1>3. BlankAt(t, key) /\ \A n \in Keys : BlankAt(t, n)
    BY DEF TreeOK, BlankOutside
  <1>4. /\ sub2 \in [{key} \cup {nil} -> SUBSET {key}] /\ sub2[key] = {key} /\ sub2[nil] = {}
        /\ IsFiniteSet({key})
    BY <1>1, FS_Singleton
  <1> HIDE DEF u, sub2
  <1>5. \A a \in Sides : u.kid[a][key] = nil
    BY <1>2, <1>3 DEF BlankAt
  <1>6. Rooted(u, {key}, sub2)
    BY <1>2, <1>4 DEF Rooted
  <1>7. NodeOK(u, {key}, sub2, key)
    BY <1>4, <1>5, SideFacts DEF NodeOK
  <1>8. ParentsOK(u, {key})
    BY <1>2, <1>3, <1>5 DEF ParentsOK, BlankAt
  <1>9. Ordered(u, {key}, sub2, nil)
    BY <1>4, <1>5 DEF Ordered
  <1>10. BlankOutside(u, {key})
    BY <1>2, <1>3 DEF BlankOutside, BlankAt
  <1>11. TreeOK(u, {key}, sub2, nil)
    BY <1>6, <1>7, <1>8, <1>9, <1>10 DEF TreeOK, Shape
  <1> QED
    BY <1>11 DEF u

Hung(t, key, p) ==
    [t EXCEPT !.kid[IF key < p THEN "left" ELSE "right"][p] = key, !.parent[key] = p, !.color[key] = "red"]

LEMMA HangKeeps ==
    ASSUME NEW t, NEW S, NEW sub, TreeOK(t, S, sub, nil), NEW key \in Keys \ S, NEW p,
           MayHang(t, S, sub, key, p), NEW u, u = Hung(t, key, p)
    PROVE  \E sub2 : /\ TreeOK(u, S \cup {key}, sub2, nil)
                     /\ u.root = t.root /\ \A n \in S : u.color[n] = t.color[n]
                     /\ u.color[key] = "red"
  <1> DEFINE S2 == S \cup {key}
             e == Toward(key, p)
             sub2 == [x \in S2 \cup {nil} |->
                         IF x = key THEN {key} ELSE IF p \in sub[x] THEN sub[x] \cup {key} ELSE sub[x]]
             k == [t.kid EXCEPT ![e][p] = key]
             f == [t.parent EXCEPT ![key] = p]
             g == [t.color EXCEPT ![key] = "red"]
  <1>1. /\ t \in Trees /\ S \subseteq Keys /\ nil \notin S /\ sub \in [S \cup {nil} -> SUBSET S]
        /\ sub[nil] = {} /\ t.root \in S \cup {nil} /\ sub[t.root] = S /\ p \in S /\ p \in Keys
        /\ key # p /\ key # nil /\ key \in Keys /\ key \notin S
        /\ IsFiniteSet(S) /\ Shape(t, S, sub)
    BY KeyFacts DEF TreeOK, Shape, Rooted, MayHang
  <1>2. e \in Sides /\ Beside(e, key, p) /\ e = IF key < p THEN "left" ELSE "right"
    BY <1>1, TowardSide, KeyFacts DEF Toward
  <1>3. k \in [Sides -> [Keys -> Places]] /\ f \in [Keys -> Places] /\ g \in [Keys -> {"red", "black"}]
    BY <1>1, <1>2, KidSet, TreeFields DEF Places
  <1>4. \A a \in Sides : \A x \in Keys : k[a][x] = IF x = p /\ a = e THEN key ELSE t.kid[a][x]
    BY <1>1, <1>2, KidSet, TreeFields DEF Places
  <1>5. /\ \A x \in Keys : f[x] = IF x = key THEN p ELSE t.parent[x]
        /\ \A x \in Keys : g[x] = IF x = key THEN "red" ELSE t.color[x]
    BY <1>1, TreeFields
  <1>6. u = [t EXCEPT !.kid = k, !.parent = f, !.color = g]
    BY <1>2 DEF Hung
  <1> HIDE DEF k, f, g, e
  <1>7. u \in Trees /\ u.root = t.root /\ u.kid = k /\ u.parent = f /\ u.color = g
    BY <1>1, <1>3, <1>6 DEF Trees
  <1>8. t.kid[e][p] = nil /\ \A x \in S : \A s \in Sides : p \in sub[t.kid[s][x]] => Beside(s, key, x)
    BY DEF MayHang, e
  <1>9. BlankAt(t, key) /\ \A n \in Keys \ S : BlankAt(t, n)
    BY <1>1 DEF TreeOK, BlankOutside
  <1>10. /\ sub2 \in [S2 \cup {nil} -> SUBSET S2] /\ sub2[key] = {key} /\ sub2[nil] = {}
         /\ \A x \in S : sub2[x] = IF p \in sub[x] THEN sub[x] \cup {key} ELSE sub[x]
    BY <1>1
  <1>11. \A n \in S : /\ n \in sub[n] /\ NodeOK(t, S, sub, n)
                      /\ \A a \in Sides : t.kid[a][n] \in S \cup {nil}
    BY <1>1, OwnPart DEF Shape, NodeOK
  <1> HIDE DEF sub2
  <1>12. Rooted(u, S2, sub2)
    <2>1. t.root \in S
      BY <1>1
    <2>2. sub2[t.root] = S2
      BY <1>1, <1>10, <2>1
    <2>3. IsFiniteSet(S2)
      BY <1>1, FS_AddElement
    <2> QED
      BY <1>1, <1>7, <1>10, <2>1, <2>2, <2>3 DEF Rooted
  <1>13. \A a \in Sides : u.kid[a][key] = nil
    BY <1>1, <1>4, <1>7, <1>9 DEF BlankAt
  <1>21. u.kid[e][p] = key /\ u.parent[key] = p
    <2>1. k[e][p] = key
      BY <1>1, <1>2, <1>4
    <2>2. f[key] = p
      BY <1>1, <1>5
    <2> QED
      BY <1>7, <2>1, <2>2
  <1>14. ASSUME NEW n \in S, NEW a \in Sides
         PROVE  /\ u.kid[a][n] \in S2 \cup {nil}
                /\ sub2[u.kid[a][n]] = IF p \in sub[t.kid[a][n]] \/ (n = p /\ a = e)
                                       THEN sub[t.kid[a][n]] \cup {key} ELSE sub[t.kid[a][n]]
    <2>1. CASE n = p /\ a = e
      <3>1. u.kid[a][n] = key /\ sub[t.kid[a][n]] = {}
        BY <1>1, <1>8, <1>21, <2>1
      <3> QED
        BY <1>1, <1>10, <2>1, <3>1
    <2>2. CASE ~(n = p /\ a = e)
      <3>1. u.kid[a][n] = t.kid[a][n] /\ t.kid[a][n] \in S \cup {nil}
        BY <1>1, <1>4, <1>7, <1>11, <2>2
      <3> QED
        BY <1>1, <1>10, <2>2, <3>1
    <2> QED
      BY <2>1, <2>2
  <1>15. NodeOK(u, S2, sub2, key)
    BY <1>1, <1>10, <1>13, SideFacts DEF NodeOK
  <1>16. ASSUME NEW n \in S
         PROVE  NodeOK(u, S2, sub2, n)
    <2> DEFINE L(a) == sub[t.kid[a][n]]
               with(a) == p \in L(a) \/ (n = p /\ a = e)
    <2>1. \A a \in Sides : u.kid[a][n] \in S2 \cup {nil} /\ sub2[u.kid[a][n]] = IF with(a) THEN L(a) \cup {key} ELSE L(a)
      BY <1>14
    <2>2. ASSUME NEW a \in Sides
          PROVE  /\ sub[n] = {n} \cup L(a) \cup L(Other(a)) /\ L(a) \cap L(Other(a)) = {}
                 /\ n \notin L(a) /\ n \notin L(Other(a)) /\ Other(a) \in Sides
                 /\ key \notin L(a) /\ key \notin L(Other(a))
      BY <1>1, <1>11, NodeSides, SideFacts
    <2>3. \A a \in Sides : ~(with(a) /\ with(Other(a)))
      BY <2>2, SideFacts
    <2>4. (p \in sub[n]) <=> (\E a \in Sides : with(a))
      BY <1>2, <1>11, <2>2, SideFacts
    <2>5. sub2[n] = IF \E a \in Sides : with(a) THEN sub[n] \cup {key} ELSE sub[n]
      BY <1>10, <2>4
    <2>6. n # key
      BY <1>1
    <2> HIDE DEF L, with
    <2>7. CASE \E a \in Sides : with(a)
      <3>1. PICK a \in Sides : with(a)
        BY <2>7
      <3>2. /\ sub2[u.kid[a][n]] = L(a) \cup {key} /\ sub2[u.kid[Other(a)][n]] = L(Other(a))
            /\ sub2[n] = sub[n] \cup {key}
            /\ u.kid[a][n] \in S2 \cup {nil} /\ u.kid[Other(a)][n] \in S2 \cup {nil}
        BY <2>1, <2>2, <2>3, <2>5, <3>1
      <3>3. /\ sub2[n] = {n} \cup sub2[u.kid[a][n]] \cup sub2[u.kid[Other(a)][n]]
            /\ sub2[u.kid[a][n]] \cap sub2[u.kid[Other(a)][n]] = {}
            /\ n \notin sub2[u.kid[a][n]] /\ n \notin sub2[u.kid[Other(a)][n]]
        BY <2>2, <2>6, <3>2
      <3> QED
        BY <3>2, <3>3, SidesMake
    <2>8. CASE ~\E a \in Sides : with(a)
      <3>2. /\ \A a \in Sides : sub2[u.kid[a][n]] = L(a) /\ u.kid[a][n] \in S2 \cup {nil}
            /\ sub2[n] = sub[n]
        BY <2>1, <2>5, <2>8
      <3> QED
        <4>1. NodeOK(t, S, sub, n)
          BY <1>11
        <4> QED
          BY <3>2, <4>1, SideFacts DEF NodeOK, L
    <2> QED
      BY <2>7, <2>8
  <1>17. ParentsOK(u, S2)
    <2>1. ASSUME NEW n \in S2, NEW a \in Sides, u.kid[a][n] # nil
          PROVE  u.parent[u.kid[a][n]] = n
      <3>1. n \in S
        BY <1>13, <2>1
      <3>2. CASE n = p /\ a = e
        BY <1>21, <3>2
      <3>3. CASE ~(n = p /\ a = e)
        <4>1. u.kid[a][n] = t.kid[a][n] /\ t.kid[a][n] \in S
          BY <1>1, <1>4, <1>7, <1>11, <2>1, <3>1, <3>3
        <4>2. t.parent[t.kid[a][n]] = n
          BY <1>1, <2>1, <3>1, <4>1 DEF Shape, ParentsOK
        <4> QED
          BY <1>1, <1>5, <1>7, <4>1, <4>2
      <3> QED
        BY <3>2, <3>3
    <2>2. u.parent[u.root] = nil
      <3>1. t.root \in S /\ t.parent[t.root] = nil
        BY <1>1 DEF Shape, ParentsOK
      <3> QED
        BY <1>1, <1>5, <1>7, <3>1
    <2>3. ASSUME NEW n \in S2, n # u.root
          PROVE  u.parent[n] \in S2 /\ \E a \in Sides : u.kid[a][u.parent[n]] = n
      <3>1. CASE n = key
        BY <1>1, <1>2, <1>21, <3>1
      <3>2. CASE n \in S
        <4>1. t.parent[n] \in S /\ \E a \in Sides : t.kid[a][t.parent[n]] = n
          BY <1>1, <1>7, <2>3, <3>2 DEF Shape, ParentsOK
        <4>2. PICK a \in Sides : t.kid[a][t.parent[n]] = n
          BY <4>1
        <4>3. u.kid[a][t.parent[n]] = n
          BY <1>1, <1>4, <1>7, <1>8, <3>2, <4>1, <4>2
        <4> QED
          BY <1>1, <1>5, <1>7, <3>2, <4>1, <4>3
      <3> QED
        BY <3>1, <3>2
    <2> QED
      BY <2>1, <2>2, <2>3 DEF ParentsOK
  <1>18. Ordered(u, S2, sub2, nil)
    <2> SUFFICES ASSUME NEW n \in S2, NEW a \in Sides, NEW x \in sub2[u.kid[a][n]]
                 PROVE  Beside(a, x, n)
      BY DEF Ordered
    <2>1. n \in S
      BY <1>10, <1>13
    <2>5. sub2[u.kid[a][n]] = IF p \in sub[t.kid[a][n]] \/ (n = p /\ a = e)
                              THEN sub[t.kid[a][n]] \cup {key} ELSE sub[t.kid[a][n]]
      BY <1>14, <2>1
    <2>2. x = key \/ x \in sub[t.kid[a][n]]
      BY <2>5
    <2>3. CASE x \in sub[t.kid[a][n]]
      <3>1. x # nil /\ n # nil
        <4>1. t.kid[a][n] \in S \cup {nil}
          BY <1>11, <2>1
        <4> QED
          BY <1>1, <2>1, <2>3, <4>1
      <3> QED
        BY <2>1, <2>3, <3>1 DEF TreeOK, Ordered
    <2>4. CASE x = key /\ x \notin sub[t.kid[a][n]]
      <3>1. p \in sub[t.kid[a][n]] \/ (n = p /\ a = e)
        BY <2>4, <2>5
      <3> QED
        BY <1>2, <1>8, <2>1, <2>4, <3>1
    <2> QED
      BY <2>2, <2>3, <2>4
  <1>19. BlankOutside(u, S2)
    <2> SUFFICES ASSUME NEW n \in Keys \ S2
                 PROVE  BlankAt(u, n)
      BY DEF BlankOutside
    <2>1. BlankAt(t, n) /\ n # key /\ n # p
      BY <1>1, <1>9
    <2> QED
      BY <1>4, <1>5, <1>7, <2>1 DEF BlankAt
  <1>20. TreeOK(u, S2, sub2, nil)
    BY <1>12, <1>15, <1>16, <1>17, <1>18, <1>19 DEF TreeOK, Shape
  <1> QED
    BY <1>1, <1>5, <1>7, <1>20

-----------------------------------------------------------------------------
(* A node is taken out.                                                    *)

LEMMA UnlinkKeeps ==
    ASSUME NEW t, NEW S, NEW sub, NEW v, TreeOK(t, S, sub, v), NEW n \in S, v \in {n, nil},
           NEW m, OnlyChild(t, n, m), NEW u, u = Unlinked(t, n, m)
    PROVE  \E sub2 : /\ Shape(u, S \ {n}, sub2) /\ Ordered(u, S \ {n}, sub2, nil) /\ OutsideOK(u, S \ {n})
                     /\ u.root = IF t.root = n THEN m ELSE t.root
                     /\ u.color = t.color
  <1> DEFINE S2 == S \ {n}
             sub2 == [x \in S2 \cup {nil} |-> sub[x] \ {n}]
             l == Linked(t, n, m)
  <1>1. /\ t \in Trees /\ S \subseteq Keys /\ nil \notin S /\ nil \notin Keys /\ sub \in [S \cup {nil} -> SUBSET S]
        /\ sub[nil] = {} /\ t.root \in S \cup {nil} /\ sub[t.root] = S /\ t.root \in S
        /\ IsFiniteSet(S) /\ Shape(t, S, sub) /\ BlankOutside(t, S) /\ Ordered(t, S, sub, v)
    BY KeyFacts DEF TreeOK, Shape, Rooted
  <1>2. \A x \in S : /\ x \in sub[x] /\ NodeOK(t, S, sub, x)
                     /\ \A a \in Sides : t.kid[a][x] \in S \cup {nil}
    BY <1>1, OwnPart DEF Shape, NodeOK
  <1>3. m \in S2 \cup {nil} /\ sub[n] = {n} \cup sub[m] /\ n \notin sub[m] /\ (m # nil => t.parent[m] = n)
    <2>1. PICK e \in Sides : t.kid[e][n] = m /\ t.kid[Other(e)][n] = nil
      BY DEF OnlyChild
    <2>2. sub[n] = {n} \cup sub[m] /\ n \notin sub[m] /\ m \in S \cup {nil}
      BY <1>1, <1>2, <2>1, NodeSides
    <2>3. m # n
      BY <1>2, <2>2
    <2>4. m # nil => t.parent[m] = n
      BY <1>1, <2>1 DEF Shape, ParentsOK
    <2> QED
      BY <2>2, <2>3, <2>4
  <1>4. /\ l \in Trees /\ l.parent = t.parent /\ l.color = t.color
        /\ l.root = IF t.root = n THEN m ELSE t.root
        /\ \A a \in Sides : l.kid[a] = [x \in Keys |-> IF t.kid[a][x] = n THEN m ELSE t.kid[a][x]]
    BY <1>1, <1>3, LinkedGives DEF Places
  <1> HIDE DEF l
  <1>5. /\ u \in Trees /\ u.root = l.root /\ u.kid = l.kid /\ u.color = l.color
        /\ \A x \in Keys : u.parent[x] = IF x = m THEN t.parent[n] ELSE t.parent[x]
    <2>1. u = Parented(l, m, t.parent[n])
      BY DEF Unlinked, l
    <2>2. CASE m = nil
      BY <1>1, <1>4, <2>1, <2>2 DEF Parented
    <2>3. CASE m # nil
      <3> DEFINE f == [t.parent EXCEPT ![m] = t.parent[n]]
      <3>1. f \in [Keys -> Places] /\ \A x \in Keys : f[x] = IF x = m THEN t.parent[n] ELSE t.parent[x]
        BY <1>1, <1>3, <2>3, TreeFields
      <3>2. u = [l EXCEPT !.parent = f]
        BY <1>4, <2>1, <2>3 DEF Parented
      <3> HIDE DEF f
      <3> QED
        BY <1>4, <3>1, <3>2, TreeFields
    <2> QED
      BY <2>2, <2>3
  <1>6. ASSUME NEW x \in Keys, NEW a \in Sides
        PROVE  u.kid[a][x] = IF t.kid[a][x] = n THEN m ELSE t.kid[a][x]
    <2>1. u.kid[a] = [y \in Keys |-> IF t.kid[a][y] = n THEN m ELSE t.kid[a][y]]
      BY <1>4, <1>5
    <2> QED
      BY <2>1
  <1>7. /\ sub2 \in [S2 \cup {nil} -> SUBSET S2] /\ sub2[nil] = {}
        /\ \A x \in S2 \cup {nil} : sub2[x] = sub[x] \ {n}
    BY <1>1
  <1> HIDE DEF sub2
  <1>8. sub2[m] = sub[n] \ {n}
    BY <1>3, <1>7
  <1>9. ASSUME NEW x \in S2, NEW a \in Sides
        PROVE  u.kid[a][x] \in S2 \cup {nil} /\ sub2[u.kid[a][x]] = sub[t.kid[a][x]] \ {n}
    <2>1. x \in Keys /\ t.kid[a][x] \in S \cup {nil}
      BY <1>1, <1>2
    <2>2. CASE t.kid[a][x] = n
      BY <1>3, <1>6, <1>8, <2>1, <2>2
    <2>3. CASE t.kid[a][x] # n
      BY <1>6, <1>7, <2>1, <2>3
    <2> QED
      BY <2>2, <2>3
  <1>10. Rooted(u, S2, sub2)
    <2>1. u.root \in S2 \cup {nil} /\ sub2[u.root] = sub[t.root] \ {n}
      <3>1. CASE t.root = n
        BY <1>3, <1>4, <1>5, <1>8, <3>1
      <3>2. CASE t.root # n
        BY <1>1, <1>4, <1>5, <1>7, <3>2
      <3> QED
        BY <3>1, <3>2
    <2>2. IsFiniteSet(S2)
      BY <1>1, FS_Subset
    <2> QED
      BY <1>1, <1>5, <1>7, <2>1, <2>2 DEF Rooted
  <1>11. ASSUME NEW x \in S2
         PROVE  NodeOK(u, S2, sub2, x)
    <2>1. NodeOK(t, S, sub, x) /\ sub2[x] = sub[x] \ {n} /\ x # n
      BY <1>2, <1>7
    <2>2. /\ sub2[u.kid["left"][x]] = sub[t.kid["left"][x]] \ {n}
          /\ sub2[u.kid["right"][x]] = sub[t.kid["right"][x]] \ {n}
      BY <1>9, SideFacts
    <2>3. \A a \in Sides : u.kid[a][x] \in S2 \cup {nil} /\ x \notin sub2[u.kid[a][x]]
      BY <1>9, <2>1 DEF NodeOK
    <2> QED
      BY <2>1, <2>2, <2>3 DEF NodeOK
  <1>12. ParentsOK(u, S2)
    <2>0. /\ \A x \in S : \A a \in Sides : t.kid[a][x] # nil => t.parent[t.kid[a][x]] = x
          /\ t.root # nil => t.parent[t.root] = nil
          /\ \A x \in S : x # t.root => t.parent[x] \in S /\ \E a \in Sides : t.kid[a][t.parent[x]] = x
      BY <1>1 DEF Shape, ParentsOK
    <2>1. ASSUME NEW x \in S2, NEW a \in Sides, u.kid[a][x] # nil
          PROVE  u.parent[u.kid[a][x]] = x
      <3>1. CASE t.kid[a][x] = n
        <4>1. u.kid[a][x] = m /\ m \in Keys /\ t.parent[n] = x
          BY <1>1, <1>3, <1>6, <2>0, <2>1, <3>1
        <4> QED
          BY <1>5, <4>1
      <3>2. CASE t.kid[a][x] # n
        <4>1. u.kid[a][x] = t.kid[a][x] /\ t.kid[a][x] \in Keys /\ t.parent[t.kid[a][x]] = x
          BY <1>1, <1>2, <1>6, <2>0, <2>1, <3>2
        <4>2. t.kid[a][x] # m
          BY <1>3, <2>1, <4>1
        <4> QED
          BY <1>5, <4>1, <4>2
      <3> QED
        BY <3>1, <3>2
    <2>2. u.root # nil => u.parent[u.root] = nil
      <3>1. CASE t.root = n
        BY <1>1, <1>3, <1>4, <1>5, <2>0, <3>1
      <3>2. CASE t.root # n
        <4>1. t.root # m \/ m = nil
          BY <1>1, <1>3, <2>0
        <4> QED
          BY <1>1, <1>4, <1>5, <2>0, <3>2, <4>1
      <3> QED
        BY <3>1, <3>2
    <2>3. ASSUME NEW x \in S2, x # u.root
          PROVE  u.parent[x] \in S2 /\ \E a \in Sides : u.kid[a][u.parent[x]] = x
      <3>1. CASE x = m
        <4>1. n # t.root
          BY <1>4, <1>5, <2>3, <3>1
        <4>2. PICK a \in Sides : t.kid[a][t.parent[n]] = n
          BY <2>0, <4>1
        <4>3. t.parent[n] \in S2 /\ t.parent[n] \in Keys
          <5>1. t.parent[n] \in S
            BY <2>0, <4>1
          <5>2. t.parent[n] # n
            BY <1>2, <4>2, <5>1 DEF NodeOK
          <5> QED
            BY <1>1, <5>1, <5>2
        <4>4. u.kid[a][t.parent[n]] = m /\ u.parent[m] = t.parent[n]
          BY <1>1, <1>5, <1>6, <3>1, <4>2, <4>3
        <4> QED
          BY <3>1, <4>3, <4>4
      <3>2. CASE x # m
        <4>1. x # t.root
          BY <1>4, <1>5, <2>3
        <4>2. PICK a \in Sides : t.kid[a][t.parent[x]] = x
          BY <2>0, <4>1
        <4>3. t.parent[x] \in S /\ t.parent[x] \in Keys /\ u.parent[x] = t.parent[x]
          BY <1>1, <1>5, <2>0, <3>2, <4>1
        <4>4. t.parent[x] # n
          <5>1. \A b \in Sides : t.kid[b][n] = m \/ t.kid[b][n] = nil
            BY SideFacts DEF OnlyChild
          <5> QED
            BY <1>1, <3>2, <4>2, <5>1
        <4>5. u.kid[a][t.parent[x]] = x
          BY <1>6, <4>2, <4>3
        <4> QED
          BY <4>3, <4>4, <4>5
      <3> QED
        BY <3>1, <3>2
    <2> QED
      BY <2>1, <2>2, <2>3 DEF ParentsOK
  <1>13. Ordered(u, S2, sub2, nil)
    <2> SUFFICES ASSUME NEW x \in S2, NEW a \in Sides, NEW y \in sub2[u.kid[a][x]]
                 PROVE  Beside(a, y, x)
      BY DEF Ordered
    <2>1. y \in sub[t.kid[a][x]] \ {n}
      BY <1>9
    <2>2. y # nil
      BY <1>1, <1>2, <2>1
    <2> QED
      BY <1>1, <2>1, <2>2 DEF Ordered
  <1>14. OutsideOK(u, S2)
    <2> SUFFICES ASSUME NEW x \in Keys \ S2, NEW a \in Sides
                 PROVE  u.kid[a][x] \in S2 \cup {nil}
      BY DEF OutsideOK
    <2>1. CASE x = n
      <3>1. t.kid[a][n] = m \/ t.kid[a][n] = nil
        BY SideFacts DEF OnlyChild
      <3> QED
        BY <1>1, <1>3, <1>6, <2>1, <3>1
    <2>2. CASE x # n
      <3>1. t.kid[a][x] = nil
        BY <1>1, <2>2 DEF BlankOutside, BlankAt
      <3> QED
        BY <1>1, <1>6, <3>1
    <2> QED
      BY <2>1, <2>2
  <1>15. Shape(u, S2, sub2)
    BY <1>10, <1>11, <1>12 DEF Shape
  <1> QED
    BY <1>4, <1>5, <1>13, <1>14, <1>15

\* Removed takes out a node with one child or none.
LEMMA RemovedKeeps ==
    ASSUME NEW t, NEW S, NEW sub, NEW v, TreeOK(t, S, sub, v), NEW n \in S, v \in {n, nil},
           Cardinality(Kids(t, n)) # 2, ~IsRed(t, t.root), \A x \in Kids(t, n) : ~IsRed(t, x) \/ n # t.root
    PROVE  \E sub2 : TreeOK(Removed(t, n), S \ {n}, sub2, nil) /\ ~IsRed(Removed(t, n), Removed(t, n).root)
  <1> DEFINE m == IF Kids(t, n) = {} THEN nil ELSE CHOOSE c \in Kids(t, n) : TRUE
             u == Unlinked(t, n, m)
  <1>1. Shape(t, S, sub)
    BY DEF TreeOK
  <1>2. OnlyChild(t, n, m) /\ (m # nil => m \in Kids(t, n))
    BY <1>1, KidsCount
  <1>3. Removed(t, n) = Only(u)
    BY DEF Removed
  <1> HIDE DEF m, u
  <1>4. PICK sub2 : /\ Shape(u, S \ {n}, sub2) /\ Ordered(u, S \ {n}, sub2, nil) /\ OutsideOK(u, S \ {n})
                    /\ u.root = IF t.root = n THEN m ELSE t.root
                    /\ u.color = t.color
    BY <1>2, UnlinkKeeps DEF u
  <1>5. PICK d, b : Downward(u, d, b)
    BY <1>4, TreeDown
  <1>6. KeysOf(u) = S \ {n}
    BY <1>4, <1>5, InOrderLists
  <1>7. /\ TreeOK(Only(u), S \ {n}, sub2, nil) /\ Only(u).root = u.root
        /\ \A x \in S \ {n} : Only(u).color[x] = u.color[x]
    BY <1>4, <1>6, OnlyKeeps
  <1>8. u.root = nil \/ u.root \in S \ {n}
    BY <1>4 DEF Shape, Rooted
  <1>9. ~IsRed(Only(u), Only(u).root)
    <2>1. CASE t.root = n
      BY <1>2, <1>4, <1>7, <1>8, <2>1 DEF IsRed
    <2>2. CASE t.root # n
      BY <1>4, <1>7, <1>8, <2>2 DEF IsRed
    <2> QED
      BY <2>1, <2>2
  <1> QED
    BY <1>3, <1>7, <1>9

-----------------------------------------------------------------------------
(* Two nodes exchange their keys.                                          *)

Ren(n, m, x) == IF x = n THEN m ELSE IF x = m THEN n ELSE x

LEMMA RenTwice ==
    ASSUME NEW S, NEW n \in S, NEW m \in S, nil \notin S
    PROVE  /\ \A x : Ren(n, m, Ren(n, m, x)) = x
           /\ \A x : Ren(n, m, x) \in S <=> x \in S
           /\ \A x, y : Ren(n, m, x) = Ren(n, m, y) <=> x = y
           /\ Ren(n, m, nil) = nil /\ \A x : Ren(n, m, x) = nil <=> x = nil
           /\ Ren(n, m, n) = m /\ Ren(n, m, m) = n
           /\ \A x : x # n /\ x # m => Ren(n, m, x) = x
  BY DEF Ren

LEMMA ExchangeGives ==
    ASSUME NEW t \in Trees, NEW n \in Keys, NEW m \in Keys
    PROVE  LET u == Exchanged(t, n, m) IN
           /\ u \in Trees /\ u.root = Ren(n, m, t.root)
           /\ \A x \in Keys : /\ u.parent[x] = Ren(n, m, t.parent[Ren(n, m, x)])
                              /\ u.color[x] = t.color[Ren(n, m, x)]
                              /\ \A a \in Sides : u.kid[a][x] = Ren(n, m, t.kid[a][Ren(n, m, x)])
  <1> DEFINE r == Ren(n, m, t.root)
             k == [s \in Sides |-> [x \in Keys |-> Ren(n, m, t.kid[s][Ren(n, m, x)])]]
             p == [x \in Keys |-> Ren(n, m, t.parent[Ren(n, m, x)])]
             g == [x \in Keys |-> t.color[Ren(n, m, x)]]
             u == Exchanged(t, n, m)
  <1>1. u = [root |-> r, kid |-> k, parent |-> p, color |-> g]
    BY DEF Exchanged, Ren
  <1>2. \A x \in Places : Ren(n, m, x) \in Places
    BY DEF Ren, Places
  <1>3. \A x \in Keys : Ren(n, m, x) \in Keys
    BY DEF Ren
  <1>4. r \in Places /\ p \in [Keys -> Places] /\ g \in [Keys -> {"red", "black"}]
    BY <1>2, <1>3, TreeFields
  <1>5. k \in [Sides -> [Keys -> Places]]
    BY <1>2, <1>3, TreeFields
  <1> HIDE DEF u, r, k, p, g
  <1>6. u \in Trees /\ u.root = r /\ u.kid = k /\ u.parent = p /\ u.color = g
    BY <1>1, <1>4, <1>5 DEF Trees
  <1>7. \A x \in Keys : p[x] = Ren(n, m, t.parent[Ren(n, m, x)]) /\ g[x] = t.color[Ren(n, m, x)]
    BY DEF p, g
  <1>8. \A x \in Keys : \A a \in Sides : k[a][x] = Ren(n, m, t.kid[a][Ren(n, m, x)])
    BY DEF k
  <1> QED
    BY <1>6, <1>7, <1>8 DEF u, r

LEMMA ExchangeKeeps ==
    ASSUME NEW t, NEW S, NEW sub, TreeOK(t, S, sub, nil), NEW n \in S, NEW m,
           m \in sub[t.kid["right"][n]], t.kid["left"][m] = nil,
           \A x \in sub[t.kid["right"][n]] : x = m \/ m < x
    PROVE  \E sub2 : /\ TreeOK(Exchanged(t, n, m), S, sub2, n)
                     /\ Exchanged(t, n, m).kid["left"][n] = nil
                     /\ IsRed(Exchanged(t, n, m), Exchanged(t, n, m).root) <=> IsRed(t, t.root)
  <1> DEFINE u == Exchanged(t, n, m)
             R(x) == Ren(n, m, x)
             sub2 == [x \in S \cup {nil} |-> {y \in S : Ren(n, m, y) \in sub[Ren(n, m, x)]}]
  <1>1. /\ t \in Trees /\ S \subseteq Keys /\ nil \notin S /\ nil \notin Keys /\ sub \in [S \cup {nil} -> SUBSET S]
        /\ sub[nil] = {} /\ t.root \in S \cup {nil} /\ sub[t.root] = S /\ t.root \in S
        /\ IsFiniteSet(S) /\ Shape(t, S, sub) /\ BlankOutside(t, S) /\ Ordered(t, S, sub, nil)
    BY KeyFacts DEF TreeOK, Shape, Rooted
  <1>2. \A x \in S : /\ x \in sub[x] /\ NodeOK(t, S, sub, x)
                     /\ \A a \in Sides : t.kid[a][x] \in S \cup {nil}
    BY <1>1, OwnPart DEF Shape, NodeOK
  <1>3. m \in S /\ m # n /\ t.kid["right"][n] \in S
    <2>1. t.kid["right"][n] \in S \cup {nil} /\ n \notin sub[t.kid["right"][n]]
      BY <1>2, SideFacts DEF NodeOK
    <2> QED
      BY <1>1, <2>1
  <1>4. /\ \A x : R(R(x)) = x
        /\ \A x : R(x) \in S <=> x \in S
        /\ \A x, y : R(x) = R(y) <=> x = y
        /\ R(nil) = nil /\ \A x : R(x) = nil <=> x = nil
        /\ R(n) = m /\ R(m) = n
        /\ \A x : x # n /\ x # m => R(x) = x
    BY <1>1, <1>3, RenTwice
  <1>5. /\ u \in Trees /\ u.root = R(t.root)
        /\ \A x \in Keys : /\ u.parent[x] = R(t.parent[R(x)])
                           /\ u.color[x] = t.color[R(x)]
                           /\ \A a \in Sides : u.kid[a][x] = R(t.kid[a][R(x)])
    <2>1. m \in Keys /\ n \in Keys
      BY <1>1, <1>3
    <2> QED
      BY <1>1, <2>1, ExchangeGives
  <1> HIDE DEF u, R
  <1>17. /\ u \in Trees /\ u.root = R(t.root)
         /\ \A x \in S : /\ u.parent[x] = R(t.parent[R(x)])
                         /\ u.color[x] = t.color[R(x)]
                         /\ \A a \in Sides : u.kid[a][x] = R(t.kid[a][R(x)])
    BY <1>1, <1>5
  <1>6. /\ sub2 \in [S \cup {nil} -> SUBSET S]
        /\ \A x \in S \cup {nil} : \A y \in S : y \in sub2[x] <=> R(y) \in sub[R(x)]
    BY DEF R
  <1> HIDE DEF sub2
  <1>7. sub2[nil] = {}
    BY <1>1, <1>4, <1>6
  <1>8. ASSUME NEW x \in S, NEW a \in Sides
        PROVE  /\ u.kid[a][x] \in S \cup {nil} /\ R(u.kid[a][x]) = t.kid[a][R(x)]
               /\ \A y \in S : y \in sub2[u.kid[a][x]] <=> R(y) \in sub[t.kid[a][R(x)]]
    <2>1. t.kid[a][R(x)] \in S \cup {nil}
      BY <1>2, <1>4
    <2>2. u.kid[a][x] \in S \cup {nil} /\ R(u.kid[a][x]) = t.kid[a][R(x)]
      BY <1>4, <1>17, <2>1
    <2> QED
      BY <1>6, <2>2
  <1>9. Rooted(u, S, sub2)
    <2>1. u.root \in S /\ R(u.root) = t.root
      BY <1>1, <1>4, <1>17
    <2>2. \A y \in S : y \in sub2[u.root]
      BY <1>1, <1>4, <1>6, <2>1
    <2>3. sub2[u.root] \subseteq S
      BY <1>6, <2>1
    <2>4. sub2[u.root] = S
      BY <2>2, <2>3
    <2> QED
      BY <1>1, <1>17, <1>6, <1>7, <2>1, <2>4 DEF Rooted
  <1>10. ASSUME NEW x \in S
         PROVE  NodeOK(u, S, sub2, x)
    <2> DEFINE L == sub2[u.kid["left"][x]]
               M == sub2[u.kid["right"][x]]
               A == sub[t.kid["left"][R(x)]]
               B == sub[t.kid["right"][R(x)]]
    <2>1. /\ u.kid["left"][x] \in S \cup {nil} /\ u.kid["right"][x] \in S \cup {nil}
          /\ \A y \in S : y \in L <=> R(y) \in A
          /\ \A y \in S : y \in M <=> R(y) \in B
          /\ \A y \in S : y \in sub2[x] <=> R(y) \in sub[R(x)]
      BY <1>6, <1>8, SideFacts
    <2>2. L \subseteq S /\ M \subseteq S /\ sub2[x] \subseteq S
      BY <1>6, <2>1
    <2>3. R(x) \in S /\ NodeOK(t, S, sub, R(x))
      BY <1>2, <1>4
    <2>4. sub[R(x)] = {R(x)} \cup A \cup B /\ A \cap B = {} /\ R(x) \notin A /\ R(x) \notin B
      BY <2>3, SideFacts DEF NodeOK
    <2> HIDE DEF L, M, A, B
    <2>5. \A y \in S : R(y) = R(x) <=> y = x
      BY <1>4
    <2>6. sub2[x] = {x} \cup L \cup M /\ L \cap M = {} /\ x \notin L /\ x \notin M
      BY <2>1, <2>2, <2>4, <2>5
    <2> QED
      BY <2>1, <2>6 DEF NodeOK, Sides, L, M
  <1>11. ParentsOK(u, S)
    <2>0. /\ \A x \in S : \A a \in Sides : t.kid[a][x] # nil => t.parent[t.kid[a][x]] = x
          /\ t.root # nil => t.parent[t.root] = nil
          /\ \A x \in S : x # t.root => t.parent[x] \in S /\ \E a \in Sides : t.kid[a][t.parent[x]] = x
      BY <1>1 DEF Shape, ParentsOK
    <2>1. ASSUME NEW x \in S, NEW a \in Sides, u.kid[a][x] # nil
          PROVE  u.parent[u.kid[a][x]] = x
      <3>1. u.kid[a][x] \in S /\ R(u.kid[a][x]) = t.kid[a][R(x)]
        BY <1>8, <2>1
      <3>2. t.parent[t.kid[a][R(x)]] = R(x)
        BY <1>4, <2>0, <2>1, <3>1
      <3> QED
        BY <1>4, <1>17, <3>1, <3>2
    <2>2. u.parent[u.root] = nil
      <3>1. u.root \in S /\ R(u.root) = t.root
        BY <1>1, <1>4, <1>17
      <3> QED
        BY <1>1, <1>4, <1>17, <2>0, <3>1
    <2>3. ASSUME NEW x \in S, x # u.root
          PROVE  u.parent[x] \in S /\ \E a \in Sides : u.kid[a][u.parent[x]] = x
      <3>1. R(x) \in S /\ R(x) # t.root
        BY <1>4, <1>17, <2>3
      <3>2. t.parent[R(x)] \in S
        BY <2>0, <3>1
      <3>3. PICK a \in Sides : t.kid[a][t.parent[R(x)]] = R(x)
        BY <2>0, <3>1
      <3>4. u.parent[x] \in S /\ R(u.parent[x]) = t.parent[R(x)]
        BY <1>4, <1>17, <3>2
      <3>5. u.kid[a][u.parent[x]] = x
        BY <1>4, <1>17, <3>3, <3>4
      <3> QED
        BY <3>4, <3>5
    <2> QED
      BY <2>1, <2>2, <2>3 DEF ParentsOK
  <1>12. BlankOutside(u, S)
    <2> SUFFICES ASSUME NEW x \in Keys \ S
                 PROVE  BlankAt(u, x)
      BY DEF BlankOutside
    <2>1. R(x) = x /\ BlankAt(t, x)
      BY <1>1, <1>3, <1>4 DEF BlankOutside
    <2> QED
      BY <1>4, <1>5, <2>1 DEF BlankAt
  <1>13. Ordered(u, S, sub2, n)
    <2> SUFFICES ASSUME NEW x \in S \ {n}, NEW a \in Sides, NEW y \in sub2[u.kid[a][x]] \ {n}
                 PROVE  Beside(a, y, x)
      BY DEF Ordered
    <2>1. y \in S /\ R(y) \in sub[t.kid[a][R(x)]] /\ R(y) # m
      BY <1>4, <1>6, <1>8
    <2>2. R(x) \in S /\ R(x) # m /\ R(x) # nil /\ R(y) \in S /\ R(y) # nil
      BY <1>1, <1>4, <2>1
    <2>3. Beside(a, R(y), R(x))
      BY <1>1, <2>1, <2>2 DEF Ordered
    <2>4. CASE x = m
      <3>1. R(x) = n /\ R(y) = y
        <4>1. R(x) = n
          BY <1>4, <2>4
        <4>2. R(y) # n
          BY <1>2, <2>1, <4>1 DEF NodeOK
        <4> QED
          BY <1>4, <2>1, <4>1, <4>2
      <3>2. CASE a = "right"
        <4>1. m < y
          BY <2>1, <3>1, <3>2
        <4> QED
          BY <2>4, <3>2, <4>1 DEF Beside
      <3>3. CASE a = "left"
        <4>1. y < n
          BY <2>3, <3>1, <3>3 DEF Beside
        <4>2. n < m
          <5>1. Beside("right", m, n)
            BY <1>1, <1>3, SideFacts DEF Ordered
          <5> QED
            BY <5>1 DEF Beside
        <4>3. y \in Int /\ n \in Int /\ m \in Int
          BY <1>1, <1>3, <2>1, KeyFacts
        <4> QED
          BY <2>4, <3>3, <4>1, <4>2, <4>3 DEF Beside
      <3> QED
        BY <3>2, <3>3 DEF Sides
    <2>5. CASE x # m
      <3>1. R(x) = x
        BY <1>4, <2>5
      <3>2. CASE y = m
        <4>1. n \in sub[t.kid[a][x]]
          BY <1>4, <2>1, <3>1, <3>2
        <4>2. m \in sub[t.kid[a][x]]
          <5>1. t.kid[a][x] \in S
            BY <1>1, <1>2, <4>1
          <5>2. sub[n] \subseteq sub[t.kid[a][x]]
            BY <1>1, <4>1, <5>1, Within
          <5>3. sub[t.kid["right"][n]] \subseteq sub[n]
            BY <1>2 DEF NodeOK
          <5> QED
            BY <5>2, <5>3
        <4> QED
          BY <1>1, <1>3, <3>2, <4>2 DEF Ordered
      <3>3. CASE y # m
        <4>1. R(y) = y
          BY <1>4, <3>3
        <4> QED
          BY <2>3, <3>1, <4>1
      <3> QED
        BY <3>2, <3>3
    <2> QED
      BY <2>4, <2>5
  <1>14. u.kid["left"][n] = nil
    BY <1>4, <1>17, SideFacts
  <1>15. IsRed(u, u.root) <=> IsRed(t, t.root)
    <2>1. u.root \in S /\ R(u.root) = t.root
      BY <1>1, <1>4, <1>5
    <2> QED
      BY <1>1, <1>17, <2>1 DEF IsRed
  <1>16. TreeOK(u, S, sub2, n)
    BY <1>9, <1>10, <1>11, <1>12, <1>13 DEF TreeOK, Shape
  <1> QED
    BY <1>14, <1>15, <1>16 DEF u

-----------------------------------------------------------------------------
(* What the fixups ask of a rotation.                                      *)

LEMMA RotateMore ==
    ASSUME NEW t, NEW S, NEW sub, NEW v, TreeOK(t, S, sub, v), NEW p \in S, NEW s \in Sides,
           NEW c, c = t.kid[Other(s)][p], c # nil
    PROVE  /\ IsRed(Rotate(t, p, s), Rotate(t, p, s).root) <=> IsRed(t, t.root)
           /\ \A x \in S \ {p, c} : Kids(t, x) = {} => Kids(Rotate(t, p, s), x) = {}
           /\ \A x \in S \ {p, c} : \A a \in Sides : t.kid[a][x] = p => Rotate(t, p, s).kid[a][x] = c
           /\ c \in S /\ c # p
  <1> DEFINE u == Rotate(t, p, s)
             m == t.kid[s][c]
  <1>1. /\ u \in Trees /\ Turned(t, p, s, c, m, u)
        /\ c \in S /\ m \in S \cup {nil} /\ c # p /\ m # p /\ m # c
    BY RotateTurns DEF TreeOK
  <1> HIDE DEF u, m
  <1>2. S \subseteq Keys /\ nil \notin S /\ Shape(t, S, sub) /\ t.root \in S
    BY KeyFacts, OwnPart DEF TreeOK, Shape, Rooted
  <1>3. c # t.root
    <2>1. t.parent[c] = p
      BY <1>2, SideFacts DEF Shape, ParentsOK
    <2> QED
      BY <1>2, <2>1 DEF Shape, ParentsOK
  <1>4. /\ u.root = IF t.root = p THEN c ELSE t.root
        /\ \A x \in Keys : u.color[x] = IF x = c THEN t.color[p] ELSE IF x = p THEN t.color[c] ELSE t.color[x]
    BY <1>1 DEF Turned
  <1>5. IsRed(u, u.root) <=> IsRed(t, t.root)
    <2>1. CASE t.root = p
      BY <1>1, <1>2, <1>4, <2>1 DEF IsRed
    <2>2. CASE t.root # p
      BY <1>1, <1>2, <1>3, <1>4, <2>2 DEF IsRed
    <2> QED
      BY <2>1, <2>2
  <1>6. ASSUME NEW x \in S \ {p, c}, NEW a \in Sides
        PROVE  u.kid[a][x] = IF t.kid[a][x] = p THEN c ELSE t.kid[a][x]
    <2>1. u.kid[a] = [y \in Keys |->
              IF y = p THEN (IF a = s THEN t.kid[s][p] ELSE m)
              ELSE IF y = c THEN (IF a = s THEN p ELSE t.kid[a][c])
              ELSE IF t.kid[a][y] = p THEN c ELSE t.kid[a][y]]
      BY <1>1 DEF Turned
    <2>2. x \in Keys
      BY <1>2
    <2> QED
      BY <2>1, <2>2
  <1>7. \A x \in S \ {p, c} : Kids(t, x) = {} => Kids(u, x) = {}
    <2> SUFFICES ASSUME NEW x \in S \ {p, c}, Kids(t, x) = {}
                 PROVE  Kids(u, x) = {}
      OBVIOUS
    <2>1. \A a \in Sides : t.kid[a][x] = nil
      BY DEF Kids
    <2>2. \A a \in Sides : u.kid[a][x] = nil
      BY <1>2, <1>6, <2>1
    <2> QED
      BY <2>2 DEF Kids
  <1>8. \A x \in S \ {p, c} : \A a \in Sides : t.kid[a][x] = p => u.kid[a][x] = c
    BY <1>6
  <1> QED
    BY <1>1, <1>5, <1>7, <1>8 DEF u

\* A node that has a parent, and what lies on the other side of the parent.
LEMMA Family ==
    ASSUME NEW t, NEW S, NEW sub, Shape(t, S, sub), NEW n \in S, n # t.root
    PROVE  LET p == t.parent[n]
               s == SideOf(t, n)
               b == t.kid[Other(s)][p]
           IN  /\ p \in S /\ p # nil /\ s \in Sides /\ t.kid[s][p] = n /\ n # p
               /\ sub[n] \subseteq sub[p] /\ p \notin sub[n]
               /\ b # nil => b \in S /\ b # p /\ b # n /\ b # t.root /\ t.parent[b] = p /\ p \notin sub[b]
               /\ sub[n] \cap sub[b] = {}
  <1> DEFINE p == t.parent[n]
             s == SideOf(t, n)
             b == t.kid[Other(s)][p]
  <1>1. p \in S /\ s \in Sides /\ t.kid[s][p] = n
    BY OneParent
  <1> HIDE DEF p, s
  <1>2. /\ NodeOK(t, S, sub, p) /\ nil \notin S /\ n \in sub[n] /\ Other(s) \in Sides
    BY <1>1, OwnPart, SideFacts DEF Shape
  <1>3. /\ sub[p] = {p} \cup sub[n] \cup sub[b] /\ sub[n] \cap sub[b] = {} /\ p \notin sub[n] /\ p \notin sub[b]
        /\ b \in S \cup {nil}
    BY <1>1, <1>2, NodeSides
  <1>4. b # nil => b \in S /\ b \in sub[b] /\ t.parent[b] = p
    BY <1>1, <1>2, <1>3, OwnPart DEF Shape, ParentsOK
  <1>5. t.root # nil => t.parent[t.root] = nil
    BY DEF Shape, ParentsOK
  <1> HIDE DEF b
  <1>6. b # nil => b # p /\ b # n /\ b # t.root
    BY <1>1, <1>2, <1>3, <1>4, <1>5
  <1> QED
    BY <1>1, <1>2, <1>3, <1>4, <1>6 DEF p, s, b

\* Colours of nodes of the tree do not matter to its shape.
LEMMA BlackenedKeeps ==
    ASSUME NEW t, NEW S, NEW sub, NEW v, TreeOK(t, S, sub, v), NEW B
    PROVE  /\ TreeOK(Blackened(t, B), S, sub, v)
           /\ Blackened(t, B).kid = t.kid /\ Blackened(t, B).root = t.root /\ Blackened(t, B).parent = t.parent
           /\ \A n \in S : Blackened(t, B).color[n] = IF n \in B THEN "black" ELSE t.color[n]
           /\ ~IsRed(t, t.root) => ~IsRed(Blackened(t, B), Blackened(t, B).root)
  <1> DEFINE g == [n \in Keys |-> IF n \in B THEN "black" ELSE t.color[n]]
             u == Blackened(t, B)
  <1>1. t \in Trees /\ S \subseteq Keys /\ t.root \in Places
    BY TreeFields DEF TreeOK, Shape, Rooted
  <1>2. u = [t EXCEPT !.color = g]
    BY DEF Blackened
  <1>3. g \in [Keys -> {"red", "black"}]
    BY <1>1, TreeFields
  <1>4. \A n \in Keys : g[n] = IF n \in B THEN "black" ELSE t.color[n]
    OBVIOUS
  <1> HIDE DEF g, u
  <1>5. u \in Trees /\ u.root = t.root /\ u.kid = t.kid /\ u.parent = t.parent /\ u.color = g
    BY <1>1, <1>2, <1>3, TreeFields
  <1>6. \A n \in Keys \ S : u.color[n] = "black"
    BY <1>4, <1>5 DEF TreeOK, BlankOutside, BlankAt
  <1>7. TreeOK(u, S, sub, v)
    BY <1>5, <1>6, Recolored
  <1>8. ~IsRed(t, t.root) => ~IsRed(u, u.root)
    BY <1>1, <1>4, <1>5 DEF IsRed, Places
  <1> QED
    BY <1>1, <1>4, <1>5, <1>7, <1>8 DEF u

LEMMA SwappedKeeps ==
    ASSUME NEW t, NEW S, NEW sub, NEW v, TreeOK(t, S, sub, v), NEW n \in S, NEW m \in S
    PROVE  /\ TreeOK(Swapped(t, n, m), S, sub, v)
           /\ Swapped(t, n, m).kid = t.kid /\ Swapped(t, n, m).root = t.root /\ Swapped(t, n, m).parent = t.parent
           /\ \A x \in Keys : Swapped(t, n, m).color[x] =
                  IF x = m THEN t.color[n] ELSE IF x = n THEN t.color[m] ELSE t.color[x]
  <1> DEFINE g == [x \in Keys |-> IF x = m THEN t.color[n] ELSE IF x = n THEN t.color[m] ELSE t.color[x]]
             u == Swapped(t, n, m)
  <1>1. t \in Trees /\ S \subseteq Keys
    BY DEF TreeOK, Shape, Rooted
  <1>2. g \in [Keys -> {"red", "black"}]
    BY <1>1, TreeFields
  <1>3. u = [t EXCEPT !.color = g]
    <2> DEFINE e == [t.color EXCEPT ![n] = t.color[m], ![m] = t.color[n]]
    <2>1. e \in [Keys -> {"red", "black"}]
      BY <1>1, TreeFields
    <2>2. \A x \in Keys : e[x] = g[x]
      BY <1>1, TreeFields
    <2>3. e = g
      BY <1>2, <2>1, <2>2
    <2>4. u = [t EXCEPT !.color = e]
      BY <1>1, TreeFields DEF Swapped, Trees
    <2> QED
      BY <2>3, <2>4
  <1>4. \A x \in Keys : g[x] = IF x = m THEN t.color[n] ELSE IF x = n THEN t.color[m] ELSE t.color[x]
    OBVIOUS
  <1> HIDE DEF g, u
  <1>5. u \in Trees /\ u.root = t.root /\ u.kid = t.kid /\ u.parent = t.parent /\ u.color = g
    BY <1>1, <1>2, <1>3, TreeFields
  <1>6. \A x \in Keys \ S : u.color[x] = "black"
    BY <1>4, <1>5 DEF TreeOK, BlankOutside, BlankAt
  <1>7. TreeOK(u, S, sub, v)
    BY <1>5, <1>6, Recolored
  <1> QED
    BY <1>4, <1>5, <1>7 DEF u

LEMMA ColorSet ==
    ASSUME NEW t, NEW S, NEW sub, NEW v, TreeOK(t, S, sub, v), NEW n \in S, NEW h \in {"red", "black"},
           NEW u, u = [t EXCEPT !.color[n] = h]
    PROVE  /\ TreeOK(u, S, sub, v)
           /\ u.kid = t.kid /\ u.root = t.root /\ u.parent = t.parent
           /\ \A x \in Keys : u.color[x] = IF x = n THEN h ELSE t.color[x]
  <1> DEFINE g == [t.color EXCEPT ![n] = h]
  <1>1. t \in Trees /\ S \subseteq Keys
    BY DEF TreeOK, Shape, Rooted
  <1>2. g \in [Keys -> {"red", "black"}] /\ \A x \in Keys : g[x] = IF x = n THEN h ELSE t.color[x]
    BY <1>1, TreeFields
  <1>3. u = [t EXCEPT !.color = g]
    OBVIOUS
  <1> HIDE DEF g
  <1>5. u \in Trees /\ u.root = t.root /\ u.kid = t.kid /\ u.parent = t.parent /\ u.color = g
    BY <1>1, <1>2, <1>3, TreeFields
  <1>6. \A x \in Keys \ S : u.color[x] = "black"
    BY <1>2, <1>5 DEF TreeOK, BlankOutside, BlankAt
  <1>7. TreeOK(u, S, sub, v)
    BY <1>5, <1>6, Recolored
  <1> QED
    BY <1>2, <1>5, <1>7

-----------------------------------------------------------------------------
(* The invariant.                                                          *)

\* The shape in each phase: the tree is in order at all times, but for the
\* node that is about to go, a leaf whose key is not in its place any more.
Idle(sub) == TreeOK(tree, stored, sub, nil) /\ ~IsRed(tree, tree.root)

Inserting(sub) ==
    /\ TreeOK(tree, stored, sub, nil)
    /\ node \in stored
    /\ IsRed(tree, tree.root) => node = tree.root

Deleting(sub) ==
    /\ TreeOK(tree, stored \cup {victim}, sub, victim) /\ ~IsRed(tree, tree.root)
    /\ node \in stored \cup {victim}
    /\ victim \in sub[node] /\ victim \notin stored /\ Kids(tree, victim) = {}

TreeInv ==
    \/ pc = "crashed"
    \/ \E sub : \/ pc = "idle" /\ Idle(sub)
                \/ pc = "insert" /\ Inserting(sub)
                \/ pc = "delete" /\ Deleting(sub)

LEMMA EmptyOK ==
    /\ TreeOK(EmptyTree, {}, [x \in {nil} |-> {}], nil)
    /\ ~IsRed(EmptyTree, EmptyTree.root)
  <1> DEFINE sub == [x \in {nil} |-> {}]
             t == EmptyTree
  <1>1. /\ t \in Trees /\ t.root = nil
        /\ \A n \in Keys : t.parent[n] = nil /\ t.color[n] = "black" /\ \A s \in Sides : t.kid[s][n] = nil
    BY DEF EmptyTree, Trees, Blank, Places
  <1>2. sub \in [{} \cup {nil} -> SUBSET {}] /\ sub[nil] = {} /\ IsFiniteSet({})
    BY FS_EmptySet
  <1> HIDE DEF t, sub
  <1>3. Rooted(t, {}, sub) /\ ParentsOK(t, {})
    BY <1>1, <1>2 DEF Rooted, ParentsOK
  <1>4. TreeOK(t, {}, sub, nil)
    BY <1>1, <1>3 DEF TreeOK, Shape, Ordered, BlankOutside, BlankAt
  <1> QED
    BY <1>1, <1>4 DEF t, sub, IsRed

LEMMA InsertHolds ==
    ASSUME NEW sub, pc = "idle", Idle(sub), NEW key \in Keys, Insert(key)
    PROVE  TreeInv'
  <1> DEFINE S == stored
             p == LastBefore(tree, key)
  <1>1. TreeOK(tree, S, sub, nil) /\ Shape(tree, S, sub) /\ Ordered(tree, S, sub, nil) /\ ~IsRed(tree, tree.root)
    BY DEF Idle, TreeOK
  <1>2. PICK d, b : Downward(tree, d, b)
    <2>1. OutsideOK(tree, S)
      BY <1>1 DEF TreeOK, BlankOutside, BlankAt, OutsideOK
    <2> QED
      BY <1>1, <2>1, TreeDown
  <1>3. key \notin S
    BY <1>1, <1>2, FindFinds, KeyFacts DEF Insert
  <1>4. IF S = {} THEN p = nil ELSE MayHang(tree, S, sub, key, p)
    BY <1>1, <1>2, <1>3, LastHangs
  <1>5. stored' = S \cup {key} /\ key # nil /\ nil \notin S
    BY <1>1, KeyFacts DEF Insert, Shape, Rooted
  <1>6. CASE S = {}
    <2>1. tree' = [tree EXCEPT !.root = key] /\ p = nil /\ ~IsRed(tree, p) /\ pc' = "idle"
      BY <1>4, <1>6 DEF Insert, IsRed
    <2>2. PICK sub2 : TreeOK(tree', {key}, sub2, nil)
      BY <1>1, <1>6, <2>1, FirstNode
    <2>3. ~IsRed(tree', tree'.root)
      <3>1. tree \in Trees /\ tree.color[key] = "black"
        BY <1>1, <1>6 DEF TreeOK, Shape, Rooted, BlankOutside, BlankAt
      <3> QED
        BY <2>1, <3>1, TreeFields DEF IsRed, Places
    <2>4. Idle(sub2)'
      BY <1>5, <1>6, <2>2, <2>3 DEF Idle
    <2> QED
      BY <2>1, <2>4 DEF TreeInv
  <1>7. CASE S # {}
    <2>0. p # nil /\ p \in S /\ MayHang(tree, S, sub, key, p)
      BY <1>4, <1>5, <1>7 DEF MayHang
    <2>1. tree' = Hung(tree, key, p)
      BY <2>0 DEF Insert, Hung
    <2> HIDE DEF p
    <2>2. PICK sub2 : /\ TreeOK(tree', S \cup {key}, sub2, nil)
                      /\ tree'.root = tree.root /\ \A n \in S : tree'.color[n] = tree.color[n]
                      /\ tree'.color[key] = "red"
      <3>1. key \in Keys \ S /\ MayHang(tree, S, sub, key, p) /\ TreeOK(tree, S, sub, nil)
        BY <1>1, <1>3, <2>0
      <3> HIDE DEF S
      <3>2. PICK u : u = Hung(tree, key, p)
        OBVIOUS
      <3>3. \E sub2 : /\ TreeOK(u, S \cup {key}, sub2, nil)
                      /\ u.root = tree.root /\ \A n \in S : u.color[n] = tree.color[n]
                      /\ u.color[key] = "red"
        BY <3>1, <3>2, HangKeeps
      <3> QED
        BY <2>1, <3>2, <3>3
    <2>3. ~IsRed(tree', tree'.root)
      <3>1. tree.root \in S
        BY <1>1, <1>7 DEF Shape, Rooted
      <3> QED
        BY <1>1, <2>2, <3>1 DEF IsRed
    <2>4. CASE IsRed(tree, p)
      <3>1. pc' = "insert" /\ node' = key
        BY <2>4 DEF Insert, p
      <3>2. Inserting(sub2)'
        BY <1>5, <2>2, <2>3, <3>1 DEF Inserting
      <3> QED
        BY <3>1, <3>2 DEF TreeInv
    <2>5. CASE ~IsRed(tree, p)
      <3>1. pc' = "idle"
        BY <2>5 DEF Insert, p
      <3>2. Idle(sub2)'
        BY <1>5, <2>2, <2>3 DEF Idle
      <3> QED
        BY <3>1, <3>2 DEF TreeInv
    <2> QED
      BY <2>4, <2>5
  <1> QED
    BY <1>6, <1>7

\* The red parent of the node in insert_fixup has a parent itself.
LEMMA RedParent ==
    ASSUME NEW sub, Inserting(sub), NEW p, p = tree.parent[node], IsRed(tree, p)
    PROVE  /\ p \in stored /\ p # tree.root /\ node # tree.root
           /\ ~IsRed(tree, tree.root)
           /\ tree.parent[p] \in stored /\ Shape(tree, stored, sub)
  <1>1. Shape(tree, stored, sub) /\ node \in stored /\ p # nil
    BY DEF Inserting, TreeOK, IsRed
  <1>2. node # tree.root /\ p \in stored
    BY <1>1, OneParent
  <1>3. ~IsRed(tree, tree.root)
    BY <1>2 DEF Inserting
  <1>4. p # tree.root
    BY <1>3
  <1> QED
    BY <1>1, <1>2, <1>3, <1>4, OneParent

LEMMA InsertRecolorHolds ==
    ASSUME NEW sub, pc = "insert", Inserting(sub), InsertRecolor
    PROVE  TreeInv'
  <1> DEFINE p == tree.parent[node]
             g == tree.parent[p]
             c == tree.kid[Other(SideOf(tree, p))][g]
             t == Swapped(tree, p, g)
  <1>1. /\ IsRed(tree, p) /\ IsRed(tree, c) /\ tree' = [t EXCEPT !.color[c] = t.color[p]] /\ node' = g
        /\ pc' = pc /\ stored' = stored
    BY DEF InsertRecolor, Fixing, Uncle, Up
  <1>2. /\ p \in stored /\ p # tree.root /\ g \in stored /\ Shape(tree, stored, sub) /\ ~IsRed(tree, tree.root)
        /\ TreeOK(tree, stored, sub, nil)
    BY <1>1, RedParent DEF Inserting
  <1> HIDE DEF p
  <1>3. c # nil
    BY <1>1 DEF IsRed
  <1>4. c \in stored /\ c # tree.root /\ g # p /\ c # g
    BY <1>2, <1>3, Family
  <1> HIDE DEF g, c
  <1>5. /\ TreeOK(t, stored, sub, nil) /\ t.kid = tree.kid /\ t.root = tree.root /\ t.parent = tree.parent
        /\ \A x \in Keys : t.color[x] = IF x = g THEN tree.color[p] ELSE IF x = p THEN tree.color[g] ELSE tree.color[x]
    BY <1>2, SwappedKeeps
  <1> HIDE DEF t
  <1>6. p \in Keys /\ stored \subseteq Keys /\ tree.root \in Places /\ t \in Trees
    BY <1>2, <1>5, TreeFields DEF Shape, Rooted, TreeOK
  <1>7. t.color[p] \in {"red", "black"}
    BY <1>6, TreeFields
  <1>8. /\ TreeOK(tree', stored, sub, nil) /\ tree'.root = tree.root
        /\ \A x \in Keys : tree'.color[x] = IF x = c THEN t.color[p] ELSE t.color[x]
    BY <1>1, <1>4, <1>5, <1>7, ColorSet
  <1>9. IsRed(tree', tree'.root) => g = tree'.root
    BY <1>2, <1>4, <1>5, <1>6, <1>8 DEF IsRed, Places
  <1>10. Inserting(sub)'
    BY <1>1, <1>2, <1>8, <1>9 DEF Inserting
  <1> QED
    BY <1>1, <1>10 DEF TreeInv

LEMMA InsertRotateHolds ==
    ASSUME NEW sub, pc = "insert", Inserting(sub), InsertRotate
    PROVE  TreeInv'
  <1> DEFINE p == tree.parent[node]
             g == tree.parent[p]
             e == SideOf(tree, p)
             t == Straightened(p)
             k == IF node = tree.kid[e][p] THEN p ELSE node
  <1>1. /\ IsRed(tree, p) /\ tree' = Rotate(t, g, Other(e))
        /\ node' = IF node = tree.kid[e][p] THEN node ELSE p
        /\ pc' = pc /\ stored' = stored
    BY DEF InsertRotate, Fixing
  <1>2. /\ p \in stored /\ p # tree.root /\ g \in stored /\ Shape(tree, stored, sub) /\ ~IsRed(tree, tree.root)
        /\ TreeOK(tree, stored, sub, nil) /\ node \in stored /\ node # tree.root
        /\ nil \notin stored
    BY <1>1, RedParent, KeyFacts DEF Inserting, Shape, Rooted
  <1>3. /\ e \in Sides /\ tree.kid[e][g] = p /\ g # p /\ g \notin sub[p] /\ p # nil
    BY <1>2, Family
  <1>4. node # p /\ node \in sub[p] /\ SideOf(tree, node) \in Sides /\ tree.kid[SideOf(tree, node)][p] = node
    BY <1>2, Family, OwnPart
  <1>5. \E sub2 : /\ TreeOK(t, stored, sub2, nil) /\ ~IsRed(t, t.root)
                  /\ t.kid[e][g] = k /\ k \in stored
    <2>1. CASE node = tree.kid[e][p]
      <3>1. t = tree
        BY <2>1 DEF Straightened
      <3> QED
        BY <1>2, <1>3, <2>1, <3>1
    <2>2. CASE node # tree.kid[e][p]
      <3>1. t = Rotate(tree, p, e)
        BY <2>2 DEF Straightened
      <3>2. tree.kid[Other(e)][p] = node
        BY <1>3, <1>4, <2>2, SideFacts
      <3>3. g # node
        BY <1>3, <1>4
      <3>4. PICK sub2 : TreeOK(t, stored, sub2, nil)
        BY <1>2, <1>3, <3>1, <3>2, RotateKeeps
      <3>5. ~IsRed(t, t.root) /\ t.kid[e][g] = node
        BY <1>2, <1>3, <3>1, <3>2, <3>3, RotateMore
      <3> QED
        BY <1>2, <2>2, <3>4, <3>5
    <2> QED
      BY <2>1, <2>2
  <1> HIDE DEF t, k, e, g, p
  <1>6. PICK sub2 : TreeOK(t, stored, sub2, nil) /\ ~IsRed(t, t.root) /\ t.kid[e][g] = k /\ k \in stored
    BY <1>5
  <1>7. Other(e) \in Sides /\ Other(Other(e)) = e /\ k # nil /\ g # nil
    BY <1>2, <1>3, <1>6, SideFacts
  <1>8. PICK sub3 : TreeOK(tree', stored, sub3, nil)
    BY <1>1, <1>2, <1>6, <1>7, RotateKeeps
  <1>9. ~IsRed(tree', tree'.root)
    BY <1>1, <1>2, <1>6, <1>7, RotateMore
  <1>10. Inserting(sub3)'
    BY <1>1, <1>2, <1>8, <1>9 DEF Inserting
  <1> QED
    BY <1>1, <1>10 DEF TreeInv

LEMMA InsertDoneHolds ==
    ASSUME NEW sub, pc = "insert", Inserting(sub), InsertDone
    PROVE  TreeInv'
  <1>1. TreeOK(tree, stored, sub, nil) /\ tree.root \in stored /\ stored' = stored /\ pc' = "idle"
    BY OwnPart DEF Inserting, TreeOK, InsertDone, Fixing
  <1>2. tree' = [tree EXCEPT !.color[tree.root] = "black"]
    BY DEF InsertDone
  <1>3. /\ TreeOK(tree', stored, sub, nil) /\ tree'.root = tree.root
        /\ \A x \in Keys : tree'.color[x] = IF x = tree.root THEN "black" ELSE tree.color[x]
    BY <1>1, <1>2, ColorSet
  <1>4. ~IsRed(tree', tree'.root)
    BY <1>1, <1>3 DEF IsRed, TreeOK, Shape, Rooted
  <1>5. Idle(sub)'
    BY <1>1, <1>3, <1>4 DEF Idle
  <1> QED
    BY <1>1, <1>5 DEF TreeInv


\* delete_fixup returns: the leaf goes, in a tree that is in order but for it.
LEMMA FinishHolds ==
    ASSUME NEW sub, NEW u, TreeOK(u, stored \cup {victim}, sub, victim), victim \notin stored,
           Kids(u, victim) = {}, ~IsRed(u, u.root), Finish(u), stored' = stored
    PROVE  TreeInv'
  <1> DEFINE S == stored \cup {victim}
             w == Removed(u, victim)
  <1>1. victim \in S /\ S \ {victim} = stored
    OBVIOUS
  <1>2. Cardinality(Kids(u, victim)) # 2
    BY FS_EmptySet
  <1>3. \A x \in Kids(u, victim) : ~IsRed(u, x) \/ victim # u.root
    OBVIOUS
  <1> HIDE DEF S
  <1>4. \E sub2 : TreeOK(w, S \ {victim}, sub2, nil) /\ ~IsRed(w, w.root)
    <2>1. TreeOK(u, S, sub, victim)
      BY DEF S
    <2> QED
      BY <1>1, <1>2, <1>3, <2>1, RemovedKeeps
  <1> HIDE DEF w
  <1>5. PICK sub2 : TreeOK(w, stored, sub2, nil) /\ ~IsRed(w, w.root)
    BY <1>1, <1>4
  <1>6. tree' = w /\ pc' = "idle"
    BY DEF Finish, w
  <1>7. Idle(sub2)'
    BY <1>5, <1>6 DEF Idle
  <1> QED
    BY <1>6, <1>7 DEF TreeInv

\* What Deleting says of the node and its brother.
LEMMA Brothers ==
    ASSUME NEW sub, Deleting(sub), node # tree.root, NEW p, p = tree.parent[node],
           NEW s, s = SideOf(tree, node), Brother # nil
    PROVE  LET S == stored \cup {victim} IN
           /\ TreeOK(tree, S, sub, victim) /\ ~IsRed(tree, tree.root) /\ victim \notin stored
           /\ p \in S /\ s \in Sides /\ Brother = tree.kid[Other(s)][p] /\ Brother \in S
           /\ p # node /\ Brother # node /\ p # Brother /\ p # nil /\ p \notin sub[Brother]
           /\ victim \in S /\ victim # p /\ victim # Brother /\ victim \notin sub[Brother]
           /\ victim \in sub[node] /\ victim \in sub[p] /\ node \in S /\ Kids(tree, victim) = {} /\ Brother # tree.root
  <1> DEFINE S == stored \cup {victim}
  <1>1. /\ TreeOK(tree, S, sub, victim) /\ ~IsRed(tree, tree.root) /\ victim \notin stored /\ node \in S
        /\ victim \in sub[node] /\ Kids(tree, victim) = {} /\ victim \in S
    BY DEF Deleting
  <1> HIDE DEF S
  <1>2. Shape(tree, S, sub)
    BY <1>1 DEF TreeOK
  <1>3. Brother = tree.kid[Other(s)][p]
    BY DEF Brother
  <1>4. /\ p \in S /\ p # nil /\ s \in Sides /\ node # p /\ p \notin sub[node]
        /\ Brother \in S /\ Brother # p /\ Brother # node /\ p \notin sub[Brother]
        /\ sub[node] \subseteq sub[p] /\ sub[node] \cap sub[Brother] = {} /\ Brother # tree.root
    BY <1>1, <1>2, <1>3, Family
  <1>5. Brother \in sub[Brother]
    BY <1>2, <1>4, OwnPart
  <1>6. victim # p /\ victim # Brother /\ victim \notin sub[Brother]
    BY <1>1, <1>4, <1>5
  <1> QED
    BY <1>1, <1>3, <1>4, <1>6 DEF S

LEMMA DeleteRedBrotherHolds ==
    ASSUME NEW sub, pc = "delete", Deleting(sub), DeleteRedBrother
    PROVE  TreeInv'
  <1> DEFINE S == stored \cup {victim}
             p == tree.parent[node]
             s == SideOf(tree, node)
             b == Brother
             v == victim
  <1>1. /\ tree' = Rotate(tree, p, s) /\ node # tree.root /\ b # nil
        /\ node' = node /\ victim' = victim /\ pc' = pc /\ stored' = stored
    BY DEF DeleteRedBrother, Fixing, IsRed
  <1>2. /\ TreeOK(tree, S, sub, v) /\ ~IsRed(tree, tree.root) /\ v \notin stored
        /\ p \in S /\ s \in Sides /\ b = tree.kid[Other(s)][p] /\ b \in S /\ p # node /\ b # node
        /\ v \in S /\ v # p /\ v # b /\ v \in sub[node] /\ node \in S /\ Kids(tree, v) = {}
    BY <1>1, Brothers
  <1>3. S' = S /\ v' = v
    BY <1>1
  <1> HIDE DEF S, p, s, b
  <1>4. PICK sub2 : /\ TreeOK(Rotate(tree, p, s), S, sub2, v)
                    /\ \A x \in (S \cup {nil}) \ {p, b} : sub2[x] = sub[x]
    BY <1>1, <1>2, RotateKeeps
  <1>5. ~IsRed(tree', tree'.root) /\ Kids(tree', v) = {}
    BY <1>1, <1>2, RotateMore
  <1>6. TreeOK(tree', S', sub2, v') /\ v \in sub2[node]
    BY <1>1, <1>2, <1>3, <1>4
  <1>7. Deleting(sub2)'
    BY <1>1, <1>2, <1>5, <1>6, <1>3 DEF Deleting, S
  <1> QED
    BY <1>1, <1>7 DEF TreeInv

LEMMA DeleteBorrowHolds ==
    ASSUME NEW sub, pc = "delete", Deleting(sub), DeleteBorrow
    PROVE  TreeInv'
  <1> DEFINE S == stored \cup {victim}
             p == tree.parent[node]
             s == SideOf(tree, node)
             o == Other(s)
             b == Brother
             v == victim
             outer == tree.kid[o][b]
             inner == tree.kid[s][b]
             x == IF outer # nil THEN outer ELSE inner
             t == Blackened(tree, {x})
  <1>1. /\ node # tree.root /\ b # nil /\ Kids(tree, b) # {} /\ stored' = stored
        /\ Finish(IF outer # nil THEN Rotate(t, p, s) ELSE Rotate(Rotate(t, b, o), p, s))
    BY DEF DeleteBorrow, Fixing, BlackBrother, Nephew
  <1>2. /\ TreeOK(tree, S, sub, v) /\ ~IsRed(tree, tree.root) /\ v \notin stored
        /\ p \in S /\ s \in Sides /\ b = tree.kid[o][p] /\ b \in S /\ p # b /\ p \notin sub[b]
        /\ v \in S /\ v # p /\ v # b /\ v \notin sub[b] /\ Kids(tree, v) = {}
    BY <1>1, Brothers
  <1>3. o \in Sides /\ Other(o) = s /\ s # o
    BY <1>2, SideFacts
  <1>4. /\ TreeOK(t, S, sub, v) /\ t.kid = tree.kid /\ ~IsRed(t, t.root)
    <2> HIDE DEF S, x, p, s, b
    <2> QED
      BY <1>2, BlackenedKeeps
  <1>5. Kids(t, v) = {}
    BY <1>2, <1>4 DEF Kids
  <1> HIDE DEF S, p, s, o, b, t
  <1>6. CASE outer # nil
    <2> DEFINE u == Rotate(t, p, s)
    <2>1. Finish(u)
      BY <1>1, <1>6
    <2>2. PICK sub2 : TreeOK(u, S, sub2, v)
      BY <1>1, <1>2, <1>4, <1>3, RotateKeeps DEF o
    <2>3. ~IsRed(u, u.root) /\ Kids(u, v) = {}
      BY <1>1, <1>2, <1>4, <1>5, <1>3, RotateMore DEF o
    <2> HIDE DEF u
    <2> QED
      BY <1>1, <1>2, <2>1, <2>2, <2>3, FinishHolds DEF S
  <1>7. CASE outer = nil
    <2> DEFINE c == inner
               w == Rotate(t, b, o)
               u == Rotate(w, p, s)
    <2>1. Finish(u)
      BY <1>1, <1>7
    <2>2. c # nil /\ c = t.kid[Other(o)][b]
      BY <1>1, <1>2, <1>3, <1>4, <1>7, SideFacts DEF Kids
    <2>3. c \in S /\ c \in sub[b]
      <3>1. Shape(tree, S, sub) /\ NodeOK(tree, S, sub, b)
        BY <1>2 DEF TreeOK, Shape
      <3>2. c \in S \cup {nil} /\ sub[c] \subseteq sub[b]
        BY <1>2, <3>1, NodeSides
      <3>3. c \in S
        BY <2>2, <3>2
      <3> QED
        BY <3>1, <3>2, <3>3, OwnPart
    <2>4. c # p /\ c # v
      BY <1>2, <2>3
    <2> HIDE DEF c, w
    <2>5. PICK sub2 : TreeOK(w, S, sub2, v)
      BY <1>2, <1>3, <1>4, <2>2, <2>4, RotateKeeps DEF w
    <2>6. ~IsRed(w, w.root) /\ Kids(w, v) = {} /\ w.kid[o][p] = c
      <3>1. \A z \in S \ {b, c} : \A a \in Sides : t.kid[a][z] = b => w.kid[a][z] = c
        BY <1>2, <1>3, <1>4, <2>2, RotateMore DEF w
      <3>2. ~IsRed(w, w.root) /\ Kids(w, v) = {}
        BY <1>2, <1>3, <1>4, <1>5, <2>2, <2>4, RotateMore DEF w
      <3>3. t.kid[o][p] = b
        BY <1>2, <1>4
      <3> QED
        BY <1>2, <1>3, <2>4, <3>1, <3>2, <3>3
    <2>7. PICK sub3 : TreeOK(u, S, sub3, v)
      BY <1>2, <1>3, <2>2, <2>4, <2>5, <2>6, RotateKeeps DEF o
    <2>8. ~IsRed(u, u.root) /\ Kids(u, v) = {}
      BY <1>2, <1>3, <2>2, <2>4, <2>5, <2>6, RotateMore DEF o
    <2> HIDE DEF u
    <2> QED
      BY <1>1, <1>2, <2>1, <2>7, <2>8, FinishHolds DEF S
  <1> QED
    BY <1>6, <1>7

LEMMA DeleteRecolorHolds ==
    ASSUME NEW sub, pc = "delete", Deleting(sub), DeleteRecolor
    PROVE  TreeInv'
  <1> DEFINE S == stored \cup {victim}
             p == tree.parent[node]
             s == SideOf(tree, node)
             b == Brother
             v == victim
  <1>1. node # tree.root /\ b # nil /\ stored' = stored
    BY DEF DeleteRecolor, Fixing, BlackBrother
  <1>2. /\ TreeOK(tree, S, sub, v) /\ ~IsRed(tree, tree.root) /\ v \notin stored
        /\ p \in S /\ b \in S /\ b # tree.root /\ v \in S /\ v \in sub[p] /\ Kids(tree, v) = {}
    BY <1>1, Brothers
  <1>3. tree.root \in S /\ S \subseteq Keys /\ nil \notin Keys
    BY <1>2, OwnPart, KeyFacts DEF TreeOK, Shape, Rooted
  <1>4. \/ IsRed(tree, p) /\ Finish(Swapped(tree, p, b))
        \/ tree' = [tree EXCEPT !.color[b] = "red"] /\ node' = p /\ UNCHANGED <<pc, victim>>
    BY DEF DeleteRecolor
  <1> HIDE DEF p, s, b
  <1>5. CASE IsRed(tree, p) /\ Finish(Swapped(tree, p, b))
    <2> DEFINE u == Swapped(tree, p, b)
    <2> HIDE DEF S
    <2>1. /\ TreeOK(u, S, sub, v) /\ u.kid = tree.kid /\ u.root = tree.root
          /\ \A x \in Keys : u.color[x] = IF x = b THEN tree.color[p] ELSE IF x = p THEN tree.color[b] ELSE tree.color[x]
      BY <1>2, SwappedKeeps
    <2>2. tree.root # p
      BY <1>2, <1>5
    <2> HIDE DEF u
    <2>3. ~IsRed(u, u.root) /\ Kids(u, v) = {}
      BY <1>2, <1>3, <2>1, <2>2 DEF IsRed, Kids
    <2> QED
      BY <1>1, <1>2, <1>5, <2>1, <2>3, FinishHolds DEF S, u
  <1>6. CASE tree' = [tree EXCEPT !.color[b] = "red"] /\ node' = p /\ UNCHANGED <<pc, victim>>
    <2>1. S' = S /\ v' = v
      BY <1>1, <1>6
    <2> HIDE DEF S
    <2>2. PICK u : u = [tree EXCEPT !.color[b] = "red"]
      OBVIOUS
    <2>3. /\ TreeOK(u, S, sub, v) /\ u.kid = tree.kid /\ u.root = tree.root
          /\ \A x \in Keys : u.color[x] = IF x = b THEN "red" ELSE tree.color[x]
      BY <1>2, <2>2, ColorSet
    <2>4. ~IsRed(u, u.root) /\ Kids(u, v) = {}
      BY <1>2, <1>3, <2>3 DEF IsRed, Kids
    <2>5. tree' = u
      BY <1>6, <2>2
    <2>6. Deleting(sub)'
      BY <1>1, <1>2, <1>6, <2>1, <2>3, <2>4, <2>5 DEF Deleting, S
    <2> QED
      BY <1>6, <2>6 DEF TreeInv
  <1> QED
    BY <1>4, <1>5, <1>6

\* The empty tree, whatever the nodes that were in it still hold.
LEMMA NothingLeft ==
    ASSUME NEW u \in Trees, u.root = nil, NEW d, NEW b, Downward(u, d, b)
    PROVE  \E sub : TreeOK(Only(u), {}, sub, nil) /\ ~IsRed(Only(u), Only(u).root)
  <1> DEFINE sub == [x \in {nil} |-> {}]
  <1>1. sub \in [{} \cup {nil} -> SUBSET {}] /\ sub[nil] = {} /\ IsFiniteSet({})
    BY FS_EmptySet
  <1> HIDE DEF sub
  <1>2. Shape(u, {}, sub) /\ Ordered(u, {}, sub, nil)
    BY <1>1 DEF Shape, Rooted, ParentsOK, Ordered
  <1>3. KeysOf(u) = {}
    BY <1>2, InOrderLists
  <1>4. TreeOK(Only(u), {}, sub, nil) /\ Only(u).root = nil
    BY <1>2, <1>3, OnlyKeeps
  <1> QED
    BY <1>4 DEF IsRed

LEMMA DeleteAtRootHolds ==
    ASSUME NEW sub, pc = "delete", Deleting(sub), DeleteAtRoot
    PROVE  TreeInv'
  <1> DEFINE S == stored \cup {victim}
             v == victim
             t == [tree EXCEPT !.root = nil]
             u == Unlinked(t, v, nil)
  <1>1. TreeOK(tree, S, sub, v) /\ Kids(tree, v) = {} /\ v \in S
    BY DEF Deleting
  <1> HIDE DEF S
  <1>2. Shape(tree, S, sub) /\ OutsideOK(tree, S) /\ tree \in Trees /\ v \in Keys /\ nil \notin Keys
    BY <1>1, KeyFacts DEF TreeOK, BlankOutside, BlankAt, OutsideOK, Shape, Rooted
  <1>3. PICK d, b : Downward(tree, d, b)
    BY <1>2, TreeDown
  <1>4. /\ t \in Trees /\ t.root = nil /\ t.kid = tree.kid /\ t.parent = tree.parent
    BY <1>2, TreeFields DEF Places
  <1>5. tree' = Removed(t, v) /\ pc' = "idle" /\ stored' = {}
    BY DEF DeleteAtRoot, Finish
  <1> HIDE DEF t
  <1>6. tree' = Only(u)
    <2>1. Kids(t, v) = {}
      BY <1>1, <1>4 DEF Kids
    <2> QED
      BY <1>5, <2>1 DEF Removed
  <1>7. u = Linked(t, v, nil)
    BY DEF Unlinked, Parented
  <1>8. u \in Trees /\ u.root = nil /\ \A a \in Sides : \A x \in Keys : u.kid[a][x] \in {nil, tree.kid[a][x]}
    <2>1. CASE t.parent[v] = nil
      <3>1. u = [t EXCEPT !.root = nil]
        BY <1>7, <2>1 DEF Linked
      <3> QED
        BY <1>4, <3>1, TreeFields DEF Places
    <2>2. CASE t.parent[v] # nil
      <3> DEFINE q == t.parent[v]
                 e == SideOf(t, v)
                 k == [t.kid EXCEPT ![e][q] = nil]
      <3>1. q \in Keys /\ e \in Sides
        BY <1>2, <1>4, <2>2, TreeFields DEF Places, SideOf, Sides
      <3>2. u = [t EXCEPT !.kid = k]
        BY <1>7, <2>2 DEF Linked
      <3>3. /\ k \in [Sides -> [Keys -> Places]]
            /\ \A a \in Sides : \A x \in Keys : k[a][x] = IF x = q /\ a = e THEN nil ELSE t.kid[a][x]
        BY <1>4, <3>1, KidSet, TreeFields DEF Places
      <3> HIDE DEF k, q, e
      <3> QED
        BY <1>4, <3>2, <3>3, TreeFields
    <2> QED
      BY <2>1, <2>2
  <1> HIDE DEF u
  <1>9. Downward(u, d, b)
    BY <1>3, <1>8 DEF Downward
  <1>10. PICK sub2 : TreeOK(tree', {}, sub2, nil) /\ ~IsRed(tree', tree'.root)
    BY <1>6, <1>8, <1>9, NothingLeft
  <1>11. Idle(sub2)'
    BY <1>5, <1>10 DEF Idle
  <1> QED
    BY <1>5, <1>11 DEF TreeInv

\* rbtree_delete has found a node with one child at most that may go.
LEMMA Prepared ==
    ASSUME NEW sub, Idle(sub), NEW key \in stored, NEW t,
           t = IF Cardinality(Kids(tree, key)) = 2
               THEN Exchanged(tree, key, Successor(tree, key)) ELSE tree
    PROVE  \E sub2 : /\ TreeOK(t, stored, sub2, key) /\ ~IsRed(t, t.root)
                     /\ Cardinality(Kids(t, key)) # 2
  <1>1. /\ TreeOK(tree, stored, sub, nil) /\ ~IsRed(tree, tree.root)
        /\ Shape(tree, stored, sub) /\ Ordered(tree, stored, sub, nil) /\ OutsideOK(tree, stored)
        /\ nil \notin stored
    BY KeyFacts DEF Idle, TreeOK, BlankOutside, BlankAt, OutsideOK, Shape, Rooted
  <1>2. CASE Cardinality(Kids(tree, key)) = 2
    <2> DEFINE m == Successor(tree, key)
    <2>1. PICK d, b : Downward(tree, d, b)
      BY <1>1, TreeDown
    <2>2. tree.kid["right"][key] # nil
      BY <1>1, <1>2, KidsCount
    <2>3. /\ m \in sub[tree.kid["right"][key]] /\ tree.kid["left"][m] = nil
          /\ \A x \in sub[tree.kid["right"][key]] : x = m \/ m < x
      BY <1>1, <2>1, <2>2, SuccessorNext
    <2> HIDE DEF m
    <2> DEFINE u == Exchanged(tree, key, m)
    <2>4. PICK sub2 : /\ TreeOK(u, stored, sub2, key) /\ u.kid["left"][key] = nil
                      /\ IsRed(u, u.root) <=> IsRed(tree, tree.root)
      BY <1>1, <2>3, ExchangeKeeps
    <2>5. t = u
      BY <1>2 DEF m
    <2> HIDE DEF u
    <2>6. Cardinality(Kids(u, key)) # 2
      BY <2>4, KidsCount DEF TreeOK
    <2> QED
      BY <1>1, <2>4, <2>5, <2>6
  <1>3. CASE Cardinality(Kids(tree, key)) # 2
    <2>1. \A n \in stored : \A s \in Sides : nil \notin sub[tree.kid[s][n]]
      BY <1>1 DEF Shape, Rooted, NodeOK
    <2>2. Ordered(tree, stored, sub, key)
      BY <1>1, <2>1 DEF Ordered
    <2>3. TreeOK(tree, stored, sub, key)
      BY <1>1, <2>2 DEF TreeOK
    <2> QED
      BY <1>1, <1>3, <2>3
  <1> QED
    BY <1>2, <1>3

LEMMA DeleteHolds ==
    ASSUME NEW sub, pc = "idle", Idle(sub), NEW key \in Keys, Delete(key)
    PROVE  TreeInv'
  <1> DEFINE t == IF Cardinality(Kids(tree, key)) = 2
                  THEN Exchanged(tree, key, Successor(tree, key)) ELSE tree
             kids == Kids(t, key)
             S == stored
  <1>1. Shape(tree, S, sub) /\ Ordered(tree, S, sub, nil) /\ OutsideOK(tree, S)
    BY DEF Idle, TreeOK, BlankOutside, BlankAt, OutsideOK
  <1>2. key \in S
    <2>1. PICK d, b : Downward(tree, d, b)
      BY <1>1, TreeDown
    <2>2. Find(tree, key) = IF key \in S THEN key ELSE nil
      BY <1>1, <2>1, FindFinds
    <2> QED
      BY <2>2, KeyFacts DEF Delete
  <1>3. stored' = S \ {key} /\ S = stored' \cup {key}
    BY <1>2 DEF Delete
  <1>4. IF Cardinality(kids) = 1 \/ IsRed(t, key)
        THEN tree' = Removed(Blackened(t, kids), key) /\ UNCHANGED <<pc, node, victim>>
        ELSE tree' = t /\ pc' = "delete" /\ node' = key /\ victim' = key
    BY DEF Delete
  <1>5. PICK sub2 : /\ TreeOK(t, S, sub2, key) /\ ~IsRed(t, t.root)
                    /\ Cardinality(Kids(t, key)) # 2
    BY <1>2, Prepared
  <1> HIDE DEF t
  <1>6. kids \subseteq S /\ (Cardinality(kids) \notin {1, 2} => kids = {})
    BY <1>2, <1>5, KidsCount DEF TreeOK
  <1>7. CASE Cardinality(kids) = 1 \/ IsRed(t, key)
    <2> DEFINE u == Blackened(t, kids)
               w == Removed(u, key)
    <2> HIDE DEF S, kids
    <2>1. /\ TreeOK(u, S, sub2, key) /\ u.kid = t.kid /\ ~IsRed(u, u.root)
          /\ \A n \in S : u.color[n] = IF n \in kids THEN "black" ELSE t.color[n]
      BY <1>5, BlackenedKeeps
    <2> HIDE DEF u
    <2>2. Kids(u, key) = kids
      BY <2>1 DEF Kids, kids
    <2>3. \A x \in Kids(u, key) : ~IsRed(u, x)
      BY <1>6, <2>1, <2>2 DEF IsRed
    <2>4. Cardinality(Kids(u, key)) # 2
      BY <1>5, <2>2 DEF kids
    <2>5. \E sub3 : TreeOK(w, S \ {key}, sub3, nil) /\ ~IsRed(w, w.root)
      BY <1>2, <2>1, <2>3, <2>4, RemovedKeeps
    <2>6. tree' = w /\ pc' = pc
      BY <1>4, <1>7 DEF u
    <2> HIDE DEF w
    <2>7. PICK sub3 : TreeOK(w, S \ {key}, sub3, nil) /\ ~IsRed(w, w.root)
      BY <2>5
    <2>8. Idle(sub3)'
      BY <1>3, <2>6, <2>7 DEF Idle
    <2> QED
      BY <2>6, <2>8 DEF TreeInv
  <1>8. CASE ~(Cardinality(kids) = 1 \/ IsRed(t, key))
    <2>1. kids = {}
      BY <1>5, <1>6, <1>8
    <2>2. tree' = t /\ pc' = "delete" /\ node' = key /\ victim' = key
      BY <1>4, <1>8
    <2>3. key \in sub2[key]
      BY <1>2, <1>5, OwnPart DEF TreeOK
    <2>4. stored' \cup {victim'} = S
      BY <1>3, <2>2
    <2>5. TreeOK(tree', stored' \cup {victim'}, sub2, victim')
      BY <1>5, <2>2, <2>4
    <2>6. Deleting(sub2)'
      BY <1>2, <1>3, <1>5, <2>1, <2>2, <2>3, <2>4, <2>5 DEF Deleting
    <2> QED
      BY <2>2, <2>6 DEF TreeInv
  <1> QED
    BY <1>7, <1>8

\* A step that leaves alone what the invariant speaks of.
LEMMA StillHolds ==
    ASSUME TreeInv, UNCHANGED <<tree, pc, node, victim, stored>>
    PROVE  TreeInv'
  <1>1. ASSUME NEW sub, Idle(sub)
        PROVE  Idle(sub)'
    BY <1>1 DEF Idle
  <1>2. ASSUME NEW sub, Inserting(sub)
        PROVE  Inserting(sub)'
    BY <1>2 DEF Inserting
  <1>3. ASSUME NEW sub, Deleting(sub)
        PROVE  Deleting(sub)'
    BY <1>3 DEF Deleting
  <1> QED
    BY <1>1, <1>2, <1>3 DEF TreeInv

LEMMA TreeInit == Init => TreeInv
  <1> SUFFICES ASSUME Init
               PROVE  TreeInv
    OBVIOUS
  <1> DEFINE sub == [x \in {nil} |-> {}]
  <1>1. TreeOK(EmptyTree, {}, sub, nil) /\ ~IsRed(EmptyTree, EmptyTree.root)
    BY EmptyOK
  <1> HIDE DEF sub
  <1>2. Idle(sub)
    BY <1>1 DEF Init, Idle
  <1> QED
    BY <1>2 DEF Init, TreeInv

LEMMA TreeNext == TreeInv /\ [Next]_vars => TreeInv'
  <1> SUFFICES ASSUME TreeInv, [Next]_vars
               PROVE  TreeInv'
    OBVIOUS
  <1>1. ASSUME pc = "idle"
        PROVE  \E sub : Idle(sub)
    BY <1>1 DEF TreeInv
  <1>2. ASSUME pc = "insert"
        PROVE  \E sub : Inserting(sub)
    BY <1>2 DEF TreeInv
  <1>3. ASSUME pc = "delete"
        PROVE  \E sub : Deleting(sub)
    BY <1>3 DEF TreeInv
  <1>4. CASE InsertRecolor
    BY <1>2, <1>4, InsertRecolorHolds DEF InsertRecolor, Fixing
  <1>5. CASE InsertRotate
    BY <1>2, <1>5, InsertRotateHolds DEF InsertRotate, Fixing
  <1>6. CASE InsertDone
    BY <1>2, <1>6, InsertDoneHolds DEF InsertDone, Fixing
  <1>7. CASE DeleteAtRoot
    BY <1>3, <1>7, DeleteAtRootHolds DEF DeleteAtRoot
  <1>8. CASE DeleteRedBrother
    BY <1>3, <1>8, DeleteRedBrotherHolds DEF DeleteRedBrother, Fixing
  <1>9. CASE DeleteBorrow
    BY <1>3, <1>9, DeleteBorrowHolds DEF DeleteBorrow, Fixing
  <1>10. CASE DeleteRecolor
    BY <1>3, <1>10, DeleteRecolorHolds DEF DeleteRecolor, Fixing
  <1>11. CASE Crash
    BY <1>11 DEF Crash, TreeInv
  <1>12. CASE Free
    BY <1>12, StillHolds DEF Free
  <1>13. CASE FreeDone
    <2> DEFINE sub == [x \in {nil} |-> {}]
    <2>1. TreeOK(EmptyTree, {}, sub, nil) /\ ~IsRed(EmptyTree, EmptyTree.root)
      BY EmptyOK
    <2> HIDE DEF sub
    <2>2. Idle(sub)' /\ pc' = "idle"
      BY <1>13, <2>1 DEF FreeDone, Idle
    <2> QED
      BY <2>2 DEF TreeInv
  <1>14. ASSUME NEW key \in Keys, Insert(key)
         PROVE  TreeInv'
    BY <1>1, <1>14, InsertHolds DEF Insert
  <1>15. ASSUME NEW key \in Keys, Delete(key)
         PROVE  TreeInv'
    BY <1>1, <1>15, DeleteHolds DEF Delete
  <1>16. CASE UNCHANGED vars
    BY <1>16, StillHolds DEF vars
  <1> QED
    BY <1>4, <1>5, <1>6, <1>7, <1>8, <1>9, <1>10, <1>11, <1>12, <1>13, <1>14, <1>15, <1>16 DEF Next, Fixup

\* At all times, whatever the deletions did to the balance, the pointers form
\* one tree of the keys that are stored, each the inverse of another, in order
\* but for the leaf that a deletion is about to unlink (c:64-411).
THEOREM TreeKept == Spec => []TreeInv
  BY TreeInit, TreeNext, PTL DEF Spec

\* At rest the walk from the root lists in increasing order exactly the keys
\* that were inserted and not deleted since the tree was last empty, every
\* parent pointer is the inverse of a child pointer and the root is black
\* (c:64-135, c:146-160, c:227-260, c:365-411).
THEOREM KeysKept == Spec => []KeysOK
  <1>1. TreeInv => KeysOK
    <2> SUFFICES ASSUME TreeInv, pc = "idle"
                 PROVE  KeysOK
      BY DEF KeysOK, SearchTree, HoldsStored
    <2>1. PICK sub : Idle(sub)
      BY DEF TreeInv
    <2>2. /\ Shape(tree, stored, sub) /\ Ordered(tree, stored, sub, nil) /\ OutsideOK(tree, stored)
          /\ ~IsRed(tree, tree.root)
      BY <2>1 DEF Idle, TreeOK, BlankOutside, BlankAt, OutsideOK
    <2>3. Lists(InOrder(tree), stored) /\ KeysOf(tree) = stored
      <3>1. PICK d, b : Downward(tree, d, b)
        BY <2>2, TreeDown
      <3> QED
        BY <2>2, <3>1, InOrderLists
    <2>4. LET s == InOrder(tree) IN \A i \in 1 .. Len(s) - 1 : s[i] < s[i + 1]
      <3> DEFINE s == InOrder(tree)
      <3> HIDE DEF s
      <3> SUFFICES ASSUME NEW i \in 1 .. Len(s) - 1
                   PROVE  s[i] < s[i + 1]
        BY DEF s
      <3> QED
        BY <2>3 DEF Lists, s
    <2>5. /\ \A n \in stored : n = tree.root => tree.parent[n] = nil
          /\ \A n \in stored : \A m \in Kids(tree, n) : tree.parent[m] = n
      BY <2>2, OneParent DEF Shape, ParentsOK, Kids
    <2> QED
      BY <2>2, <2>3, <2>4, <2>5 DEF KeysOK, SearchTree, HoldsStored
  <1> QED
    BY <1>1, TreeKept, PTL

-----------------------------------------------------------------------------
(* Colours and black heights.                                              *)

Own(t, n) == IF IsRed(t, n) THEN 0 ELSE 1

\* h counts the black nodes alike on both sides of n.
HeightAt(t, h, n) == \A a \in Sides : h[n] = h[t.kid[a][n]] + Own(t, n)

Heights(t, S, h) == h \in [Places -> Nat] /\ h[nil] = 0 /\ \A n \in S : HeightAt(t, h, n)

Balanced(t, S) == \E h : Heights(t, S, h)

\* No red node of S has a red child but x.
NoRed(t, S, x) ==
    \A n \in S : \A a \in Sides : IsRed(t, n) /\ t.kid[a][n] # x => ~IsRed(t, t.kid[a][n])

\* A rotation, seen from each node.
LEMMA RotateFields ==
    ASSUME NEW t, NEW S, NEW sub, NEW v, TreeOK(t, S, sub, v), NEW p \in S, NEW s \in Sides,
           NEW o, o = Other(s), NEW c, c = t.kid[o][p], c # nil, NEW m, m = t.kid[s][c],
           NEW u, u = Rotate(t, p, s)
    PROVE  /\ c \in S /\ c # p /\ m # p /\ m # c /\ o \in Sides /\ o # s /\ Other(o) = s
           /\ \A a \in Sides : a = s \/ a = o
           /\ nil \notin S /\ S \subseteq Keys
           /\ u.kid[s][p] = t.kid[s][p] /\ u.kid[o][p] = m
           /\ u.kid[s][c] = p /\ u.kid[o][c] = t.kid[o][c]
           /\ \A x \in S \ {p, c} : \A a \in Sides :
                  u.kid[a][x] = IF t.kid[a][x] = p THEN c ELSE t.kid[a][x]
           /\ \A x \in S \ {p} : \A a \in Sides : t.kid[a][x] # c
           /\ t.kid[s][p] # p /\ t.kid[s][p] # c /\ t.kid[o][c] # p /\ t.kid[o][c] # c
           /\ \A x : x \in S \cup {nil} => (x # p /\ x # c => (IsRed(u, x) <=> IsRed(t, x)))
           /\ IsRed(u, c) <=> IsRed(t, p)
           /\ IsRed(u, p) <=> IsRed(t, c)
           /\ \A x \in S : \A a \in Sides : t.kid[a][x] \in S \cup {nil}
           /\ m \in S \cup {nil}
  <1>0. Shape(t, S, sub) /\ BlankOutside(t, S)
    BY DEF TreeOK
  <1>1. o \in Sides /\ o # s /\ Other(o) = s /\ \A a \in Sides : a = s \/ a = o
    BY SideFacts
  <1>2. /\ u \in Trees /\ Turned(t, p, s, c, m, u)
        /\ c \in S /\ m \in S \cup {nil} /\ c # p /\ m # p /\ m # c
    BY <1>0, RotateTurns
  <1>3. S \subseteq Keys /\ nil \notin S /\ p \in Keys /\ c \in Keys
    BY <1>0, <1>2, KeyFacts DEF Shape, Rooted
  <1>4. \A x \in S : x \in sub[x] /\ NodeOK(t, S, sub, x)
    BY <1>0, OwnPart DEF Shape
  <1>5. \A x \in S : \A a \in Sides : t.kid[a][x] \in S \cup {nil} /\ x \notin sub[t.kid[a][x]]
    BY <1>4 DEF NodeOK
  <1>6. \A x \in S \ {p} : \A a \in Sides : t.kid[a][x] # c
    <2>1. t.parent[c] = p
      BY <1>0, <1>1 DEF Shape, ParentsOK
    <2> QED
      BY <1>0, <1>2, <1>3, <2>1 DEF Shape, ParentsOK
  <1>7. t.kid[s][p] # p /\ t.kid[s][p] # c
    <2>1. sub[t.kid[s][p]] \cap sub[c] = {}
      BY <1>1, <1>4, NodeSides
    <2> QED
      BY <1>2, <1>4, <1>5, <2>1
  <1>8. t.kid[o][c] # p /\ t.kid[o][c] # c
    <2>1. sub[t.kid[o][c]] \subseteq sub[c] /\ p \notin sub[c]
      BY <1>1, <1>2, <1>4, NodeSides
    <2> QED
      BY <1>1, <1>2, <1>4, <1>5, <2>1
  <1>9. \A a \in Sides : \A x \in Keys : u.kid[a][x] =
            IF x = p THEN (IF a = s THEN t.kid[s][p] ELSE m)
            ELSE IF x = c THEN (IF a = s THEN p ELSE t.kid[a][c])
            ELSE IF t.kid[a][x] = p THEN c ELSE t.kid[a][x]
    <2> SUFFICES ASSUME NEW a \in Sides
                 PROVE  \A x \in Keys : u.kid[a][x] =
                            IF x = p THEN (IF a = s THEN t.kid[s][p] ELSE m)
                            ELSE IF x = c THEN (IF a = s THEN p ELSE t.kid[a][c])
                            ELSE IF t.kid[a][x] = p THEN c ELSE t.kid[a][x]
      OBVIOUS
    <2>1. u.kid[a] = [y \in Keys |->
              IF y = p THEN (IF a = s THEN t.kid[s][p] ELSE m)
              ELSE IF y = c THEN (IF a = s THEN p ELSE t.kid[a][c])
              ELSE IF t.kid[a][y] = p THEN c ELSE t.kid[a][y]]
      BY <1>2 DEF Turned
    <2> QED
      BY <2>1
  <1>10. \A x \in Keys : u.color[x] = IF x = c THEN t.color[p] ELSE IF x = p THEN t.color[c] ELSE t.color[x]
    BY <1>2 DEF Turned
  <1>11. /\ \A x : x \in S \cup {nil} => (x # p /\ x # c => (IsRed(u, x) <=> IsRed(t, x)))
         /\ IsRed(u, c) <=> IsRed(t, p)
         /\ IsRed(u, p) <=> IsRed(t, c)
    BY <1>2, <1>3, <1>10 DEF IsRed
  <1>12. /\ u.kid[s][p] = t.kid[s][p] /\ u.kid[o][p] = m
         /\ u.kid[s][c] = p /\ u.kid[o][c] = t.kid[o][c]
    BY <1>1, <1>2, <1>3, <1>9
  <1>13. \A x \in S \ {p, c} : \A a \in Sides :
             u.kid[a][x] = IF t.kid[a][x] = p THEN c ELSE t.kid[a][x]
    BY <1>3, <1>9
  <1> HIDE <1>9
  <1> QED
    BY <1>1, <1>2, <1>3, <1>5, <1>6, <1>7, <1>8, <1>11, <1>12, <1>13

\* The upper node is black: red parents have no more red children than before.
LEMMA RotateUnderBlack ==
    ASSUME NEW t, NEW S, NEW sub, NEW v, TreeOK(t, S, sub, v), NEW p \in S, NEW s \in Sides,
           NEW c, c = t.kid[Other(s)][p], c # nil, NEW u, u = Rotate(t, p, s),
           NEW x, NoRed(t, S, x), ~IsRed(t, p),
           IsRed(t, c) => ~IsRed(t, t.kid[s][p]) /\ (t.kid[s][c] # x \/ x = nil)
    PROVE  NoRed(u, S, x)
  <1> DEFINE o == Other(s)
             m == t.kid[s][c]
  <1>1. /\ c \in S /\ c # p /\ m # p /\ m # c /\ nil \notin S
        /\ \A a \in Sides : a = s \/ a = o
        /\ u.kid[s][p] = t.kid[s][p] /\ u.kid[o][p] = m
        /\ u.kid[s][c] = p /\ u.kid[o][c] = t.kid[o][c]
        /\ \A y \in S \ {p, c} : \A a \in Sides :
               u.kid[a][y] = IF t.kid[a][y] = p THEN c ELSE t.kid[a][y]
        /\ \A y \in S \ {p} : \A a \in Sides : t.kid[a][y] # c
        /\ t.kid[s][p] # p /\ t.kid[s][p] # c
        /\ \A y : y \in S \cup {nil} => (y # p /\ y # c => (IsRed(u, y) <=> IsRed(t, y)))
        /\ IsRed(u, c) <=> IsRed(t, p)
        /\ IsRed(u, p) <=> IsRed(t, c)
        /\ \A y \in S : \A a \in Sides : t.kid[a][y] \in S \cup {nil}
        /\ m \in S \cup {nil}
    BY RotateFields
  <1>2. IsRed(t, c) => ~IsRed(t, m)
    BY <1>1 DEF NoRed, IsRed
  <1> HIDE DEF o, m
  <1> SUFFICES ASSUME NEW n \in S, NEW a \in Sides, IsRed(u, n), u.kid[a][n] # x
               PROVE  ~IsRed(u, u.kid[a][n])
    BY DEF NoRed
  <1>3. CASE n = p
    BY <1>1, <1>2, <1>3 DEF m
  <1>4. CASE n # p
    <2>1. n # c
      BY <1>1
    <2>2. IsRed(t, n) /\ t.kid[a][n] \in S \cup {nil} /\ t.kid[a][n] # c
      BY <1>1, <1>4, <2>1
    <2>3. CASE t.kid[a][n] = p
      BY <1>1, <1>4, <2>1, <2>3
    <2>4. CASE t.kid[a][n] # p
      <3>1. u.kid[a][n] = t.kid[a][n]
        BY <1>1, <1>4, <2>1, <2>4
      <3>2. ~IsRed(t, t.kid[a][n])
        BY <2>2, <3>1 DEF NoRed
      <3> QED
        BY <1>1, <2>2, <2>4, <3>1, <3>2
    <2> QED
      BY <2>3, <2>4
  <1> QED
    BY <1>3, <1>4

\* The node that comes up is black.
LEMMA RotateBlackUp ==
    ASSUME NEW t, NEW S, NEW sub, NEW v, TreeOK(t, S, sub, v), NEW p \in S, NEW s \in Sides,
           NEW c, c = t.kid[Other(s)][p], c # nil, NEW u, u = Rotate(t, p, s),
           NoRed(t, S, nil), ~IsRed(t, c), ~IsRed(t, t.kid[Other(s)][c])
    PROVE  NoRed(u, S, nil)
  <1> DEFINE o == Other(s)
             m == t.kid[s][c]
  <1>1. /\ c \in S /\ c # p /\ nil \notin S
        /\ \A a \in Sides : a = s \/ a = o
        /\ u.kid[s][c] = p /\ u.kid[o][c] = t.kid[o][c]
        /\ \A y \in S \ {p, c} : \A a \in Sides :
               u.kid[a][y] = IF t.kid[a][y] = p THEN c ELSE t.kid[a][y]
        /\ \A y \in S \ {p} : \A a \in Sides : t.kid[a][y] # c
        /\ t.kid[o][c] # p /\ t.kid[o][c] # c
        /\ \A y : y \in S \cup {nil} => (y # p /\ y # c => (IsRed(u, y) <=> IsRed(t, y)))
        /\ IsRed(u, c) <=> IsRed(t, p)
        /\ IsRed(u, p) <=> IsRed(t, c)
        /\ \A y \in S : \A a \in Sides : t.kid[a][y] \in S \cup {nil}
    BY RotateFields
  <1>2. ~IsRed(t, t.kid[o][c])
    OBVIOUS
  <1> HIDE DEF o, m
  <1> SUFFICES ASSUME NEW n \in S, NEW a \in Sides, IsRed(u, n)
               PROVE  ~IsRed(u, u.kid[a][n])
    BY DEF NoRed
  <1>0. o \in Sides
    BY SideFacts DEF o
  <1>3. n # p
    BY <1>1
  <1>4. CASE n = c
    <2>1. CASE a = s
      BY <1>1, <1>4, <2>1
    <2>2. CASE a = o
      <3>1. t.kid[o][c] \in S \cup {nil}
        BY <1>0, <1>1
      <3> QED
        BY <1>1, <1>2, <1>4, <2>2, <3>1
    <2> QED
      BY <1>1, <2>1, <2>2
  <1>5. CASE n # c
    <2>2. IsRed(t, n) /\ t.kid[a][n] \in S \cup {nil} /\ t.kid[a][n] # c
      BY <1>1, <1>3, <1>5
    <2>3. ~IsRed(t, t.kid[a][n])
      BY <2>2 DEF NoRed, IsRed
    <2>4. CASE t.kid[a][n] = p
      BY <1>1, <1>3, <1>5, <2>3, <2>4
    <2>5. CASE t.kid[a][n] # p
      BY <1>1, <1>3, <1>5, <2>2, <2>3, <2>5
    <2> QED
      BY <2>4, <2>5
  <1> QED
    BY <1>4, <1>5

\* The heights of the two nodes change; the place at the top keeps its height.
LEMMA RotateHeights ==
    ASSUME NEW t, NEW S, NEW sub, NEW v, TreeOK(t, S, sub, v), NEW p \in S, NEW s \in Sides,
           NEW c, c = t.kid[Other(s)][p], c # nil, NEW u, u = Rotate(t, p, s),
           NEW h, NEW k \in [Places -> Nat], k[nil] = 0, NEW Q \in SUBSET S,
           \A n \in Q \ {p, c} : HeightAt(t, h, n),
           k[c] = h[p], \A x \in (S \cup {nil}) \ {p, c} : k[x] = h[x],
           p \in Q => k[p] = k[t.kid[s][p]] + Own(t, c) /\ k[p] = k[t.kid[s][c]] + Own(t, c),
           c \in Q => k[c] = k[p] + Own(t, p) /\ k[c] = k[t.kid[Other(s)][c]] + Own(t, p)
    PROVE  Heights(u, Q, k)
  <1> DEFINE o == Other(s)
             m == t.kid[s][c]
  <1>1. /\ c \in S /\ c # p /\ nil \notin S
        /\ \A a \in Sides : a = s \/ a = o
        /\ u.kid[s][p] = t.kid[s][p] /\ u.kid[o][p] = m
        /\ u.kid[s][c] = p /\ u.kid[o][c] = t.kid[o][c]
        /\ \A y \in S \ {p, c} : \A a \in Sides :
               u.kid[a][y] = IF t.kid[a][y] = p THEN c ELSE t.kid[a][y]
        /\ \A y \in S \ {p} : \A a \in Sides : t.kid[a][y] # c
        /\ \A y : y \in S \cup {nil} => (y # p /\ y # c => (IsRed(u, y) <=> IsRed(t, y)))
        /\ IsRed(u, c) <=> IsRed(t, p)
        /\ IsRed(u, p) <=> IsRed(t, c)
        /\ \A y \in S : \A a \in Sides : t.kid[a][y] \in S \cup {nil}
    BY RotateFields
  <1>2. ASSUME NEW n \in Q
        PROVE  HeightAt(u, k, n)
    <2>1. CASE n = p
      <3>1. Own(u, p) = Own(t, c)
        BY <1>1 DEF Own
      <3> QED
        BY <1>1, <2>1, <3>1 DEF HeightAt
    <2>2. CASE n = c
      <3>1. Own(u, c) = Own(t, p)
        BY <1>1 DEF Own
      <3> QED
        BY <1>1, <2>2, <3>1 DEF HeightAt
    <2>3. CASE n # p /\ n # c
      <3>1. Own(u, n) = Own(t, n) /\ k[n] = h[n]
        BY <1>1, <2>3 DEF Own
      <3>2. ASSUME NEW a \in Sides
            PROVE  k[u.kid[a][n]] = h[t.kid[a][n]]
        BY <1>1, <2>3
      <3>3. HeightAt(t, h, n)
        BY <2>3
      <3> QED
        BY <3>1, <3>2, <3>3 DEF HeightAt
    <2> QED
      BY <2>1, <2>2, <2>3
  <1> QED
    BY <1>2 DEF Heights

\* Removed takes out a node with one child or none, seen from each other node.
LEMMA RemovedFields ==
    ASSUME NEW t, NEW S, NEW sub, NEW v, TreeOK(t, S, sub, v), NEW n \in S, v \in {n, nil},
           NEW m, OnlyChild(t, n, m), NEW w, w = Removed(t, n)
    PROVE  /\ \A x \in S \ {n} : \A a \in Sides : w.kid[a][x] = IF t.kid[a][x] = n THEN m ELSE t.kid[a][x]
           /\ \A x \in (S \cup {nil}) \ {n} : IsRed(w, x) <=> IsRed(t, x)
           /\ m \in (S \cup {nil}) \ {n} /\ nil \notin S
           /\ \A x \in S : \A a \in Sides : t.kid[a][x] \in S \cup {nil}
  <1> DEFINE l == Linked(t, n, m)
             u == Unlinked(t, n, m)
  <1>1. /\ Shape(t, S, sub) /\ BlankOutside(t, S) /\ S \subseteq Keys /\ nil \notin S
    BY KeyFacts DEF TreeOK, Shape, Rooted
  <1>2. \A x \in S : \A a \in Sides : t.kid[a][x] \in S \cup {nil}
    BY <1>1 DEF Shape, NodeOK
  <1>3. m \in (S \cup {nil}) \ {n}
    <2>1. PICK e \in Sides : t.kid[e][n] = m /\ t.kid[Other(e)][n] = nil
      BY DEF OnlyChild
    <2>2. n \notin sub[m] /\ m \in S \cup {nil}
      BY <1>1, <2>1, NodeSides DEF Shape
    <2> QED
      BY <1>1, <2>2, OwnPart
  <1>4. Kids(t, n) = {m} \ {nil}
    BY <1>1, KidsCount
  <1>5. w = Only(u)
    <2>1. m = IF Kids(t, n) = {} THEN nil ELSE CHOOSE c \in Kids(t, n) : TRUE
      BY <1>4
    <2> QED
      BY <2>1 DEF Removed
  <1>6. PICK sub2 : /\ Shape(u, S \ {n}, sub2) /\ Ordered(u, S \ {n}, sub2, nil) /\ OutsideOK(u, S \ {n})
                    /\ u.color = t.color
    BY UnlinkKeeps
  <1>7. l \in Trees /\ \A a \in Sides : l.kid[a] = [x \in Keys |-> IF t.kid[a][x] = n THEN m ELSE t.kid[a][x]]
    BY <1>1, <1>3, LinkedGives DEF Places
  <1>8. u.kid = l.kid
    <2>1. u = Parented(l, m, t.parent[n])
      BY DEF Unlinked
    <2> HIDE DEF l, u
    <2>2. CASE m = nil
      BY <2>1, <2>2 DEF Parented
    <2>3. CASE m # nil
      <3> DEFINE f == [l.parent EXCEPT ![m] = t.parent[n]]
      <3>1. f \in [Keys -> Places]
        <4>1. t \in Trees /\ n \in Keys /\ m \in Keys
          BY <1>1, <1>3, <2>3 DEF Shape, Rooted
        <4>2. l.parent \in [Keys -> Places] /\ t.parent[n] \in Places
          BY <1>7, <4>1, TreeFields
        <4> QED
          BY <4>2
      <3>2. u = [l EXCEPT !.parent = f]
        BY <2>1, <2>3 DEF Parented
      <3> HIDE DEF f
      <3> QED
        BY <1>7, <3>1, <3>2, TreeFields
    <2> QED
      BY <2>2, <2>3
  <1> HIDE DEF l, u
  <1>9. PICK d, b : Downward(u, d, b)
    BY <1>6, TreeDown
  <1>10. KeysOf(u) = S \ {n}
    BY <1>6, <1>9, InOrderLists
  <1>11. \A x \in S \ {n} : w.color[x] = u.color[x] /\ \A a \in Sides : w.kid[a][x] = u.kid[a][x]
    BY <1>5, <1>6, <1>10, OnlyKeeps
  <1>12. \A x \in S \ {n} : \A a \in Sides : w.kid[a][x] = IF t.kid[a][x] = n THEN m ELSE t.kid[a][x]
    <2> SUFFICES ASSUME NEW x \in S \ {n}, NEW a \in Sides
                 PROVE  w.kid[a][x] = IF t.kid[a][x] = n THEN m ELSE t.kid[a][x]
      OBVIOUS
    <2>1. l.kid[a] = [y \in Keys |-> IF t.kid[a][y] = n THEN m ELSE t.kid[a][y]] /\ x \in Keys
      BY <1>1, <1>7
    <2>2. l.kid[a][x] = IF t.kid[a][x] = n THEN m ELSE t.kid[a][x]
      BY <2>1
    <2> QED
      BY <1>8, <1>11, <2>2
  <1>13. \A x \in (S \cup {nil}) \ {n} : IsRed(w, x) <=> IsRed(t, x)
    BY <1>6, <1>11 DEF IsRed
  <1> QED
    BY <1>1, <1>2, <1>3, <1>12, <1>13

LEMMA RemovedBalance ==
    ASSUME NEW t, NEW S, NEW sub, NEW v, TreeOK(t, S, sub, v), NEW n \in S, v \in {n, nil},
           NEW m, OnlyChild(t, n, m), NoRed(t, S, nil), ~IsRed(t, m), NEW w, w = Removed(t, n)
    PROVE  /\ NoRed(w, S \ {n}, nil)
           /\ \A h : Heights(t, S \ {n}, h) /\ h[m] = h[n] => Heights(w, S \ {n}, h)
  <1>1. /\ \A x \in S \ {n} : \A a \in Sides : w.kid[a][x] = IF t.kid[a][x] = n THEN m ELSE t.kid[a][x]
        /\ \A x \in (S \cup {nil}) \ {n} : IsRed(w, x) <=> IsRed(t, x)
        /\ m \in (S \cup {nil}) \ {n} /\ nil \notin S
        /\ \A x \in S : \A a \in Sides : t.kid[a][x] \in S \cup {nil}
    BY RemovedFields
  <1>2. NoRed(w, S \ {n}, nil)
    <2> SUFFICES ASSUME NEW x \in S \ {n}, NEW a \in Sides, IsRed(w, x)
                 PROVE  ~IsRed(w, w.kid[a][x])
      BY DEF NoRed
    <2>1. ~IsRed(t, t.kid[a][x])
      BY <1>1 DEF NoRed, IsRed
    <2> QED
      BY <1>1, <2>1
  <1>3. ASSUME NEW h, Heights(t, S \ {n}, h), h[m] = h[n]
        PROVE  Heights(w, S \ {n}, h)
    <2>1. ASSUME NEW x \in S \ {n}
          PROVE  HeightAt(w, h, x)
      <3>1. Own(w, x) = Own(t, x) /\ HeightAt(t, h, x)
        BY <1>1, <1>3 DEF Own, Heights
      <3>2. \A a \in Sides : h[w.kid[a][x]] = h[t.kid[a][x]]
        BY <1>1, <1>3
      <3> QED
        BY <3>1, <3>2 DEF HeightAt
    <2> QED
      BY <1>3, <2>1 DEF Heights
  <1> QED
    BY <1>2, <1>3

\* The exchange of two keys renames the nodes.
LEMMA ExchangeBalance ==
    ASSUME NEW t \in Trees, NEW S \in SUBSET Keys, NEW n \in S, NEW m \in S, NEW u, u = Exchanged(t, n, m)
    PROVE  /\ NoRed(t, S, nil) => NoRed(u, S, nil)
           /\ Balanced(t, S) => Balanced(u, S)
  <1> DEFINE R(x) == Ren(n, m, x)
  <1>1. /\ \A x : R(R(x)) = x
        /\ \A x : R(x) \in S <=> x \in S
        /\ R(nil) = nil /\ \A x : R(x) = nil <=> x = nil
    BY KeyFacts, RenTwice
  <1>2. \A x \in Keys : /\ u.color[x] = t.color[R(x)]
                        /\ \A a \in Sides : u.kid[a][x] = R(t.kid[a][R(x)])
    <2>1. n \in Keys /\ m \in Keys
      OBVIOUS
    <2> DEFINE w == Exchanged(t, n, m)
    <2>2. /\ w \in Trees /\ w.root = R(t.root)
          /\ \A x \in Keys : /\ w.parent[x] = R(t.parent[R(x)])
                             /\ w.color[x] = t.color[R(x)]
                             /\ \A a \in Sides : w.kid[a][x] = R(t.kid[a][R(x)])
      BY <2>1, ExchangeGives
    <2> HIDE DEF w, R
    <2>3. u = w
      BY DEF w
    <2> QED
      BY <2>2, <2>3
  <1>3. /\ \A x \in Places : R(x) \in Places
        /\ \A x \in Keys : R(x) \in Keys
        /\ \A x \in Keys : \A a \in Sides : t.kid[a][x] \in Places
    BY TreeFields DEF Ren, Places
  <1> HIDE DEF R
  <1>4. \A x \in Places : IsRed(u, x) <=> IsRed(t, R(x))
    BY <1>1, <1>2 DEF IsRed, Places
  <1>5. ASSUME NEW x \in S, NEW a \in Sides
        PROVE  R(x) \in S /\ R(u.kid[a][x]) = t.kid[a][R(x)] /\ u.kid[a][x] \in Places
    BY <1>1, <1>2, <1>3
  <1>6. ASSUME NoRed(t, S, nil)
        PROVE  NoRed(u, S, nil)
    <2> SUFFICES ASSUME NEW x \in S, NEW a \in Sides, IsRed(u, x)
                 PROVE  ~IsRed(u, u.kid[a][x])
      BY DEF NoRed
    <2>1. IsRed(t, R(x)) /\ R(x) \in S
      BY <1>4, <1>5 DEF Places
    <2>2. ~IsRed(t, t.kid[a][R(x)])
      BY <1>6, <2>1 DEF NoRed, IsRed
    <2> QED
      BY <1>4, <1>5, <2>2
  <1>7. ASSUME NEW h, Heights(t, S, h)
        PROVE  Balanced(u, S)
    <2> DEFINE k == [x \in Places |-> h[R(x)]]
    <2>1. k \in [Places -> Nat] /\ k[nil] = 0 /\ \A x \in Places : k[x] = h[R(x)]
      BY <1>1, <1>3, <1>7 DEF Heights, Places
    <2> HIDE DEF k
    <2>2. ASSUME NEW x \in S
          PROVE  HeightAt(u, k, x)
      <3>1. HeightAt(t, h, R(x))
        BY <1>5, <1>7, SideFacts DEF Heights
      <3>2. Own(u, x) = Own(t, R(x)) /\ k[x] = h[R(x)]
        BY <1>4, <2>1 DEF Own, Places
      <3>3. \A a \in Sides : k[u.kid[a][x]] = h[t.kid[a][R(x)]]
        BY <1>5, <2>1
      <3> QED
        BY <3>1, <3>2, <3>3 DEF HeightAt
    <2>3. Heights(u, S, k)
      BY <2>1, <2>2 DEF Heights
    <2> QED
      BY <2>3 DEF Balanced
  <1> QED
    BY <1>6, <1>7 DEF Balanced

-----------------------------------------------------------------------------
(* The balance in each phase.                                              *)

Calm(S, x) == NoRed(tree, S, x) /\ (~climbed => Balanced(tree, S))

\* While insert_fixup runs its node may be red under a red parent; the node of
\* delete_fixup is black, and the heights count it until it is unlinked.
BalanceInv ==
    /\ pc = "crashed" => climbed
    /\ pc = "idle" => Calm(stored, nil)
    /\ pc = "insert" => Calm(stored, node) /\ IsRed(tree, node)
    /\ pc = "delete" => /\ Calm(stored \cup {victim}, nil)
                        /\ ~IsRed(tree, node) /\ (~climbed => node = victim)

LEMMA HungFields ==
    ASSUME NEW t \in Trees, NEW key \in Keys, NEW p \in Keys, p # key,
           NEW u, u = Hung(t, key, p)
    PROVE  /\ \A a \in Sides : \A x \in Keys :
                  u.kid[a][x] = IF x = p /\ a = Toward(key, p) THEN key ELSE t.kid[a][x]
           /\ \A x \in Keys : u.color[x] = IF x = key THEN "red" ELSE t.color[x]
  <1> DEFINE e == Toward(key, p)
             k == [t.kid EXCEPT ![e][p] = key]
             f == [t.parent EXCEPT ![key] = p]
             g == [t.color EXCEPT ![key] = "red"]
  <1>2. e \in Sides
    BY DEF Toward, Sides
  <1>3. k \in [Sides -> [Keys -> Places]] /\ f \in [Keys -> Places] /\ g \in [Keys -> {"red", "black"}]
    BY <1>2, KidSet, TreeFields DEF Places
  <1>4. \A a \in Sides : \A x \in Keys : k[a][x] = IF x = p /\ a = e THEN key ELSE t.kid[a][x]
    BY <1>2, KidSet, TreeFields DEF Places
  <1>5. \A x \in Keys : g[x] = IF x = key THEN "red" ELSE t.color[x]
    BY TreeFields
  <1>6. e = IF key < p THEN "left" ELSE "right"
    BY KeyFacts DEF Toward
  <1>7. u = [t EXCEPT !.kid = k, !.parent = f, !.color = g]
    BY <1>6 DEF Hung
  <1> HIDE DEF k, f, g, e
  <1>8. u.kid = k /\ u.color = g
    BY <1>3, <1>7 DEF Trees
  <1> QED
    BY <1>4, <1>5, <1>8 DEF e

LEMMA InsertBalance ==
    ASSUME NEW sub, pc = "idle", Idle(sub), BalanceInv, NEW key \in Keys, Insert(key)
    PROVE  BalanceInv'
  <1> DEFINE S == stored
             p == LastBefore(tree, key)
  <1>1. TreeOK(tree, S, sub, nil) /\ Shape(tree, S, sub) /\ Ordered(tree, S, sub, nil) /\ ~IsRed(tree, tree.root)
    BY DEF Idle, TreeOK
  <1>2. PICK d, b : Downward(tree, d, b)
    <2>1. OutsideOK(tree, S)
      BY <1>1 DEF TreeOK, BlankOutside, BlankAt, OutsideOK
    <2> QED
      BY <1>1, <2>1, TreeDown
  <1>3. key \notin S
    BY <1>1, <1>2, FindFinds, KeyFacts DEF Insert
  <1>4. IF S = {} THEN p = nil ELSE MayHang(tree, S, sub, key, p)
    BY <1>1, <1>2, <1>3, LastHangs
  <1>5. stored' = S \cup {key} /\ key # nil /\ nil \notin S /\ climbed' = climbed /\ S \subseteq Keys /\ tree \in Trees
    BY <1>1, KeyFacts DEF Insert, Shape, Rooted
  <1>6. NoRed(tree, S, nil) /\ (~climbed => Balanced(tree, S))
    BY DEF BalanceInv, Calm
  <1>7. tree.color[key] = "black" /\ \A a \in Sides : tree.kid[a][key] = nil
    BY <1>1, <1>3 DEF TreeOK, BlankOutside, BlankAt
  <1>8. \A x \in S : \A a \in Sides : tree.kid[a][x] \in S \cup {nil} /\ tree.kid[a][x] # key
    BY <1>1, <1>3, <1>5 DEF Shape, NodeOK
  <1>9. CASE S = {}
    <2>1. tree' = [tree EXCEPT !.root = key] /\ p = nil /\ ~IsRed(tree, p) /\ pc' = "idle"
      BY <1>4, <1>9 DEF Insert, IsRed
    <2>2. tree'.kid = tree.kid /\ tree'.color = tree.color
      BY <1>5, <2>1, TreeFields DEF Places
    <2>3. ~IsRed(tree', key) /\ Own(tree', key) = 1
      BY <1>5, <1>7, <2>2 DEF IsRed, Own
    <2>4. NoRed(tree', {key}, nil)
      BY <2>3 DEF NoRed
    <2>5. Balanced(tree', {key})
      <3> DEFINE h == [x \in Places |-> IF x = key THEN 1 ELSE 0]
      <3>1. h \in [Places -> Nat] /\ h[nil] = 0 /\ h[key] = 1
        BY <1>5 DEF Places
      <3> HIDE DEF h
      <3>2. HeightAt(tree', h, key)
        BY <1>7, <2>2, <2>3, <3>1 DEF HeightAt
      <3> QED
        BY <3>1, <3>2 DEF Heights, Balanced
    <2>6. stored' = {key}
      BY <1>5, <1>9
    <2> QED
      BY <2>1, <2>4, <2>5, <2>6 DEF BalanceInv, Calm
  <1>10. CASE S # {}
    <2>0. p # nil /\ p \in S /\ MayHang(tree, S, sub, key, p) /\ p \in Keys
      BY <1>4, <1>5, <1>10 DEF MayHang
    <2>1. tree' = Hung(tree, key, p)
      BY <2>0 DEF Insert, Hung
    <2>2. tree.kid[Toward(key, p)][p] = nil
      BY <2>0 DEF MayHang
    <2>3. IF IsRed(tree, p) THEN pc' = "insert" /\ node' = key ELSE pc' = "idle"
      BY DEF Insert, p
    <2> HIDE DEF p
    <2> DEFINE e == Toward(key, p)
    <2>4. /\ \A a \in Sides : \A x \in Keys :
                 tree'.kid[a][x] = IF x = p /\ a = e THEN key ELSE tree.kid[a][x]
          /\ \A x \in Keys : tree'.color[x] = IF x = key THEN "red" ELSE tree.color[x]
      <3> PICK u : u = Hung(tree, key, p)
        OBVIOUS
      <3>1. /\ \A a \in Sides : \A x \in Keys :
                   u.kid[a][x] = IF x = p /\ a = e THEN key ELSE tree.kid[a][x]
            /\ \A x \in Keys : u.color[x] = IF x = key THEN "red" ELSE tree.color[x]
        BY <1>3, <1>5, <2>0, HungFields
      <3> QED
        BY <2>1, <3>1
    <2> HIDE DEF e, S
    <2>5. \A x : x \in S \cup {nil} => (IsRed(tree', x) <=> IsRed(tree, x))
      BY <1>3, <1>5, <2>4 DEF IsRed
    <2>6. IsRed(tree', key)
      BY <1>5, <2>4 DEF IsRed
    <2>7. ASSUME NEW x \in S, NEW a \in Sides
          PROVE  \/ x = p /\ a = e /\ tree'.kid[a][x] = key
                 \/ tree'.kid[a][x] = tree.kid[a][x] /\ tree'.kid[a][x] \in S \cup {nil} /\ tree'.kid[a][x] # key
      BY <1>5, <1>8, <2>4
    <2>8. \A a \in Sides : tree'.kid[a][key] = nil
      BY <1>3, <1>7, <2>0, <2>4
    <2>9. NoRed(tree', S \cup {key}, key)
      <3> SUFFICES ASSUME NEW x \in S \cup {key}, NEW a \in Sides, IsRed(tree', x), tree'.kid[a][x] # key
                   PROVE  ~IsRed(tree', tree'.kid[a][x])
        BY DEF NoRed
      <3>1. CASE x = key
        BY <2>8, <3>1 DEF IsRed
      <3>2. CASE x \in S
        <4>1. IsRed(tree, x) /\ tree'.kid[a][x] = tree.kid[a][x] /\ tree'.kid[a][x] \in S \cup {nil}
          BY <2>5, <2>7, <3>2
        <4>2. ~IsRed(tree, tree.kid[a][x])
          BY <1>6, <3>2, <4>1 DEF NoRed, IsRed
        <4> QED
          BY <2>5, <4>1, <4>2
      <3> QED
        BY <3>1, <3>2
    <2>10. ~IsRed(tree, p) => NoRed(tree', S \cup {key}, nil)
      <3> SUFFICES ASSUME ~IsRed(tree, p), NEW x \in S \cup {key}, NEW a \in Sides, IsRed(tree', x)
                   PROVE  ~IsRed(tree', tree'.kid[a][x])
        BY DEF NoRed
      <3>1. tree'.kid[a][x] # key
        BY <1>5, <2>5, <2>7, <2>8
      <3> QED
        BY <2>9, <3>1 DEF NoRed
    <2>11. ASSUME NEW h, Heights(tree, S, h)
           PROVE  Balanced(tree', S \cup {key})
      <3> DEFINE k == [h EXCEPT ![key] = 0]
      <3>1. /\ k \in [Places -> Nat] /\ k[nil] = 0 /\ k[key] = 0
            /\ \A x \in S \cup {nil} : k[x] = h[x]
        BY <1>3, <1>5, <2>11 DEF Heights, Places
      <3> HIDE DEF k
      <3>2. HeightAt(tree', k, key)
        BY <2>6, <2>8, <3>1 DEF HeightAt, Own
      <3>3. ASSUME NEW x \in S
            PROVE  HeightAt(tree', k, x)
        <4>1. Own(tree', x) = Own(tree, x) /\ HeightAt(tree, h, x)
          BY <2>5, <2>11 DEF Own, Heights
        <4>2. ASSUME NEW a \in Sides
              PROVE  k[tree'.kid[a][x]] = h[tree.kid[a][x]]
          BY <2>2, <2>7, <2>11, <3>1 DEF Heights, e
        <4> QED
          BY <3>1, <4>1, <4>2 DEF HeightAt
      <3> QED
        BY <3>1, <3>2, <3>3 DEF Heights, Balanced
    <2>12. stored' = S \cup {key} /\ (~climbed => Balanced(tree', S \cup {key}))
      BY <1>5, <1>6, <2>11 DEF Balanced
    <2> QED
      BY <1>5, <2>3, <2>6, <2>9, <2>10, <2>12 DEF BalanceInv, Calm
  <1> QED
    BY <1>9, <1>10

\* A red node comes up: both heights are known.
LEMMA RotateRedBalance ==
    ASSUME NEW t, NEW S, NEW sub, NEW v, TreeOK(t, S, sub, v), NEW p \in S, NEW s \in Sides,
           NEW c, c = t.kid[Other(s)][p], c # nil, IsRed(t, c), NEW u, u = Rotate(t, p, s), Balanced(t, S)
    PROVE  Balanced(u, S)
  <1> DEFINE o == Other(s)
             m == t.kid[s][c]
  <1>1. PICK h : Heights(t, S, h)
    BY DEF Balanced
  <1>2. /\ c \in S /\ c # p /\ m # p /\ m # c /\ nil \notin S /\ S \subseteq Keys
        /\ o \in Sides
        /\ t.kid[s][p] # p /\ t.kid[s][p] # c /\ t.kid[o][c] # p /\ t.kid[o][c] # c
        /\ \A y \in S : \A a \in Sides : t.kid[a][y] \in S \cup {nil}
    BY RotateFields
  <1> DEFINE k == [h EXCEPT ![p] = h[c], ![c] = h[p]]
  <1>3. /\ h \in [Places -> Nat] /\ h[nil] = 0 /\ HeightAt(t, h, p) /\ HeightAt(t, h, c)
        /\ \A n \in S : HeightAt(t, h, n)
    BY <1>1, <1>2 DEF Heights
  <1>4. /\ k \in [Places -> Nat] /\ k[nil] = 0 /\ k[p] = h[c] /\ k[c] = h[p]
        /\ \A x \in (S \cup {nil}) \ {p, c} : k[x] = h[x]
    BY <1>2, <1>3 DEF Places
  <1>5. k[t.kid[s][p]] = h[t.kid[s][p]] /\ k[m] = h[m] /\ k[t.kid[o][c]] = h[t.kid[o][c]]
    BY <1>2, <1>4
  <1> HIDE DEF k
  <1>6. /\ h[p] = h[t.kid[s][p]] + Own(t, p) /\ h[p] = h[c] + Own(t, p)
        /\ h[c] = h[m] + Own(t, c) /\ h[c] = h[t.kid[o][c]] + Own(t, c)
    BY <1>2, <1>3 DEF HeightAt
  <1>7. Own(t, c) = 0 /\ Own(t, p) \in {0, 1}
    BY DEF Own
  <1>8. /\ h[p] \in Nat /\ h[c] \in Nat /\ h[m] \in Nat /\ h[t.kid[s][p]] \in Nat /\ h[t.kid[o][c]] \in Nat
    BY <1>2, <1>3 DEF Places
  <1>9. /\ k[p] = k[t.kid[s][p]] + Own(t, c) /\ k[p] = k[m] + Own(t, c)
        /\ k[c] = k[p] + Own(t, p) /\ k[c] = k[t.kid[o][c]] + Own(t, p)
    BY <1>4, <1>5, <1>6, <1>7, <1>8
  <1>10. Heights(u, S, k)
    <2>1. PICK Q \in SUBSET S : Q = S
      OBVIOUS
    <2>2. /\ \A n \in Q \ {p, c} : HeightAt(t, h, n)
          /\ p \in Q => k[p] = k[t.kid[s][p]] + Own(t, c) /\ k[p] = k[t.kid[s][c]] + Own(t, c)
          /\ c \in Q => k[c] = k[p] + Own(t, p) /\ k[c] = k[t.kid[Other(s)][c]] + Own(t, p)
      BY <1>3, <1>9, <2>1
    <2>3. Heights(u, Q, k)
      BY <1>4, <2>2, RotateHeights
    <2> QED
      BY <2>1, <2>3
  <1> QED
    BY <1>10 DEF Balanced

LEMMA InsertRecolorBalance ==
    ASSUME NEW sub, pc = "insert", Inserting(sub), BalanceInv, InsertRecolor
    PROVE  BalanceInv'
  <1> DEFINE S == stored
             p == tree.parent[node]
             g == tree.parent[p]
             c == tree.kid[Other(SideOf(tree, p))][g]
             t == Swapped(tree, p, g)
  <1>1. /\ IsRed(tree, p) /\ IsRed(tree, c) /\ tree' = [t EXCEPT !.color[c] = t.color[p]] /\ node' = g
        /\ pc' = pc /\ stored' = stored /\ climbed' = climbed
    BY DEF InsertRecolor, Fixing, Uncle, Up
  <1>2. /\ p \in S /\ p # tree.root /\ g \in S /\ Shape(tree, S, sub) /\ node # tree.root
        /\ TreeOK(tree, S, sub, nil) /\ S \subseteq Keys /\ nil \notin S /\ node \in S
    BY <1>1, RedParent, KeyFacts DEF Inserting, Shape, Rooted
  <1>3. NoRed(tree, S, node) /\ (~climbed => Balanced(tree, S))
    BY DEF BalanceInv, Calm
  <1>4. /\ \A x \in S : \A a \in Sides : tree.kid[a][x] = node => x = p
        /\ \A x \in S : \A a \in Sides : tree.kid[a][x] \in S \cup {nil}
    <2>1. \A x \in S : \A a \in Sides : tree.kid[a][x] = node <=> node # tree.root /\ x = p /\ a = SideOf(tree, node)
      BY <1>2, OneParent
    <2>2. \A x \in S : NodeOK(tree, S, sub, x)
      BY <1>2 DEF Shape
    <2> HIDE DEF p
    <2> QED
      BY <2>1, <2>2 DEF NodeOK
  <1> HIDE DEF p
  <1>5. /\ c \in S /\ g # p /\ c # g /\ c # p /\ c # tree.root /\ tree.parent[c] = g
        /\ tree.kid[SideOf(tree, p)][g] = p /\ SideOf(tree, p) \in Sides
    <2>1. c # nil
      BY <1>1 DEF IsRed
    <2> QED
      BY <1>2, <2>1, Family
  <1>6. node # p
    BY <1>2, Family DEF p
  <1>7. \A a \in Sides : tree.kid[a][g] \in {p, c}
    BY <1>5, SideFacts
  <1> HIDE DEF g, c
  <1>8. \A x \in S : \A a \in Sides : tree.kid[a][x] \in {p, c} => x = g
    BY <1>2, <1>5, OneParent DEF g
  <1>9. ~IsRed(tree, g)
    BY <1>1, <1>2, <1>3, <1>5, <1>6 DEF NoRed
  <1>10. /\ TreeOK(t, S, sub, nil) /\ t.kid = tree.kid
         /\ \A x \in Keys : t.color[x] = IF x = g THEN tree.color[p] ELSE IF x = p THEN tree.color[g] ELSE tree.color[x]
    BY <1>2, SwappedKeeps
  <1> HIDE DEF t, S
  <1>11. t \in Trees /\ t.color[p] \in {"red", "black"}
    <2>1. t \in Trees /\ p \in Keys
      BY <1>2, <1>10 DEF TreeOK, Shape, Rooted
    <2> QED
      BY <2>1, TreeFields
  <1>12. /\ tree'.kid = tree.kid
         /\ \A x \in Keys : tree'.color[x] = IF x = c THEN t.color[p] ELSE t.color[x]
    <2> PICK u : u = [t EXCEPT !.color[c] = t.color[p]]
      OBVIOUS
    <2>1. /\ u.kid = t.kid
          /\ \A x \in Keys : u.color[x] = IF x = c THEN t.color[p] ELSE t.color[x]
      BY <1>5, <1>10, <1>11, ColorSet
    <2> QED
      BY <1>1, <1>10, <2>1
  <1>13. /\ IsRed(tree', g) /\ ~IsRed(tree', p) /\ ~IsRed(tree', c)
         /\ \A x \in (S \cup {nil}) \ {g, p, c} : IsRed(tree', x) <=> IsRed(tree, x)
    BY <1>1, <1>2, <1>5, <1>9, <1>10, <1>12 DEF IsRed
  <1>14. NoRed(tree', S, g)
    <2> SUFFICES ASSUME NEW x \in S, NEW a \in Sides, IsRed(tree', x), tree'.kid[a][x] # g
                 PROVE  ~IsRed(tree', tree'.kid[a][x])
      BY DEF NoRed
    <2>1. CASE tree.kid[a][x] \in {p, c}
      BY <1>12, <1>13, <2>1
    <2>2. CASE tree.kid[a][x] \notin {p, c}
      <3>1. x # g /\ x # p /\ x # c
        BY <1>7, <1>13, <2>2
      <3>2. IsRed(tree, x) /\ tree.kid[a][x] # node
        BY <1>4, <1>13, <3>1
      <3>3. ~IsRed(tree, tree.kid[a][x])
        BY <1>3, <3>2 DEF NoRed
      <3> QED
        BY <1>4, <1>12, <1>13, <2>2, <3>3
    <2> QED
      BY <2>1, <2>2
  <1>15. ASSUME NEW h, Heights(tree, S, h)
         PROVE  Balanced(tree', S)
    <2> DEFINE k == [h EXCEPT ![p] = h[p] + 1, ![c] = h[c] + 1]
    <2>1. /\ h \in [Places -> Nat] /\ h[nil] = 0 /\ \A n \in S : HeightAt(tree, h, n)
      BY <1>15 DEF Heights
    <2>2. /\ k \in [Places -> Nat] /\ k[nil] = 0 /\ k[p] = h[p] + 1 /\ k[c] = h[c] + 1
          /\ \A x \in (S \cup {nil}) \ {p, c} : k[x] = h[x]
      BY <1>2, <1>5, <2>1 DEF Places
    <2> HIDE DEF k
    <2>3. ASSUME NEW n \in S, NEW a \in Sides
          PROVE  k[n] = k[tree'.kid[a][n]] + Own(tree', n)
      <3> DEFINE y == tree.kid[a][n]
      <3>0. h[n] = h[y] + Own(tree, n) /\ tree'.kid[a][n] = y
        BY <1>12, <2>1 DEF HeightAt
      <3>1. h[n] \in Nat /\ h[y] \in Nat /\ y \in S \cup {nil}
        BY <1>2, <1>4, <2>1 DEF Places
      <3>2. CASE n = g
        <4>1. y \in {p, c} /\ Own(tree', n) = 0 /\ Own(tree, n) = 1
          BY <1>7, <1>9, <1>13, <3>2 DEF Own
        <4>2. k[y] = h[y] + 1 /\ k[n] = h[n]
          BY <1>2, <1>5, <2>2, <3>2, <4>1
        <4> HIDE DEF y
        <4> QED
          BY <3>0, <3>1, <4>1, <4>2
      <3>3. CASE n \in {p, c}
        <4>1. y \notin {p, c} /\ Own(tree', n) = 1 /\ Own(tree, n) = 0
          BY <1>1, <1>5, <1>8, <1>13, <3>3 DEF Own
        <4>2. k[y] = h[y] /\ k[n] = h[n] + 1
          BY <2>2, <3>1, <3>3, <4>1
        <4> HIDE DEF y
        <4> QED
          BY <3>0, <3>1, <4>1, <4>2
      <3>4. CASE n \notin {g, p, c}
        <4>1. y \notin {p, c} /\ Own(tree', n) = Own(tree, n)
          BY <1>8, <1>13, <3>4 DEF Own
        <4>2. k[y] = h[y] /\ k[n] = h[n]
          BY <2>2, <3>1, <3>4, <4>1
        <4> HIDE DEF y
        <4> QED
          BY <3>0, <4>1, <4>2
      <3> QED
        BY <3>2, <3>3, <3>4
    <2> QED
      BY <2>2, <2>3 DEF Heights, HeightAt, Balanced
  <1>16. ~climbed => Balanced(tree', S)
    BY <1>3, <1>15 DEF Balanced
  <1> QED
    BY <1>1, <1>13, <1>14, <1>16 DEF BalanceInv, Calm, S

LEMMA InsertDoneBalance ==
    ASSUME NEW sub, pc = "insert", Inserting(sub), BalanceInv, InsertDone
    PROVE  BalanceInv'
  <1> DEFINE S == stored
             r == tree.root
  <1>1. TreeOK(tree, S, sub, nil) /\ r \in S /\ stored' = stored /\ pc' = "idle" /\ climbed' = climbed /\ node \in S
    BY OwnPart DEF Inserting, TreeOK, InsertDone, Fixing
  <1>2. tree' = [tree EXCEPT !.color[r] = "black"] /\ ~IsRed(tree, tree.parent[node])
    BY DEF InsertDone
  <1>3. NoRed(tree, S, node) /\ (~climbed => Balanced(tree, S))
    BY DEF BalanceInv, Calm
  <1>4. Shape(tree, S, sub) /\ S \subseteq Keys /\ nil \notin S
    BY <1>1, KeyFacts DEF TreeOK, Shape, Rooted
  <1>5. /\ \A x \in S : \A a \in Sides : tree.kid[a][x] = node => x = tree.parent[node]
        /\ \A x \in S : \A a \in Sides : tree.kid[a][x] \in (S \cup {nil}) \ {r}
    <2>1. \A n \in S : \A x \in S : \A a \in Sides : tree.kid[a][x] = n <=> n # r /\ x = tree.parent[n] /\ a = SideOf(tree, n)
      BY <1>1, <1>4, OneParent
    <2>2. \A x \in S : NodeOK(tree, S, sub, x)
      BY <1>4 DEF Shape
    <2> HIDE DEF S, r
    <2>3. \A x \in S : \A a \in Sides : tree.kid[a][x] = node => x = tree.parent[node]
      BY <1>1, <2>1
    <2>4. \A x \in S : \A a \in Sides : tree.kid[a][x] # r
      BY <1>1, <2>1
    <2>5. \A x \in S : \A a \in Sides : tree.kid[a][x] \in S \cup {nil}
      BY <2>2 DEF NodeOK
    <2> QED
      BY <2>3, <2>4, <2>5
  <1> HIDE DEF S, r
  <1>6. /\ tree'.kid = tree.kid
        /\ \A x \in Keys : tree'.color[x] = IF x = r THEN "black" ELSE tree.color[x]
    <2> PICK u : u = [tree EXCEPT !.color[r] = "black"]
      OBVIOUS
    <2>1. /\ u.kid = tree.kid
          /\ \A x \in Keys : u.color[x] = IF x = r THEN "black" ELSE tree.color[x]
      BY <1>1, ColorSet
    <2> QED
      BY <1>2, <2>1
  <1>7. ~IsRed(tree', r) /\ \A x \in (S \cup {nil}) \ {r} : IsRed(tree', x) <=> IsRed(tree, x)
    BY <1>1, <1>4, <1>6 DEF IsRed
  <1>8. NoRed(tree', S, nil)
    <2> SUFFICES ASSUME NEW x \in S, NEW a \in Sides, IsRed(tree', x)
                 PROVE  ~IsRed(tree', tree'.kid[a][x])
      BY DEF NoRed
    <2>1. IsRed(tree, x)
      BY <1>7
    <2>2. tree.kid[a][x] # node
      BY <1>2, <1>5, <2>1
    <2>3. ~IsRed(tree, tree.kid[a][x])
      BY <1>3, <2>1, <2>2 DEF NoRed
    <2> QED
      BY <1>5, <1>6, <1>7, <2>3
  <1>9. ASSUME NEW h, Heights(tree, S, h)
        PROVE  Balanced(tree', S)
    <2> DEFINE k == [h EXCEPT ![r] = h[r] + 1 - Own(tree, r)]
    <2>1. /\ h \in [Places -> Nat] /\ h[nil] = 0 /\ \A n \in S : HeightAt(tree, h, n)
          /\ Own(tree, r) \in {0, 1} /\ Own(tree', r) = 1
      BY <1>7, <1>9 DEF Heights, Own
    <2>2. /\ k \in [Places -> Nat] /\ k[nil] = 0 /\ k[r] = h[r] + 1 - Own(tree, r)
          /\ \A x \in (S \cup {nil}) \ {r} : k[x] = h[x]
      <3>1. r \in Places /\ r # nil
        BY <1>1, <1>4 DEF Places
      <3>2. h[r] + 1 - Own(tree, r) \in Nat
        BY <2>1, <3>1
      <3> QED
        BY <1>4, <2>1, <3>1, <3>2 DEF Places
    <2> HIDE DEF k
    <2>3. ASSUME NEW n \in S, NEW a \in Sides
          PROVE  k[n] = k[tree'.kid[a][n]] + Own(tree', n)
      <3> DEFINE y == tree.kid[a][n]
      <3>0. h[n] = h[y] + Own(tree, n) /\ tree'.kid[a][n] = y /\ k[y] = h[y]
        BY <1>5, <1>6, <2>1, <2>2 DEF HeightAt
      <3>1. h[n] \in Nat /\ h[y] \in Nat
        BY <1>4, <1>5, <2>1 DEF Places
      <3> HIDE DEF y
      <3>2. CASE n = r
        BY <2>1, <2>2, <3>0, <3>1, <3>2
      <3>3. CASE n # r
        <4>1. Own(tree', n) = Own(tree, n)
          BY <1>7, <3>3 DEF Own
        <4> QED
          BY <2>2, <3>0, <3>3, <4>1
      <3> QED
        BY <3>2, <3>3
    <2> QED
      BY <2>2, <2>3 DEF Heights, HeightAt, Balanced
  <1>10. ~climbed => Balanced(tree', S)
    BY <1>3, <1>9 DEF Balanced
  <1> QED
    BY <1>1, <1>8, <1>10 DEF BalanceInv, Calm, S

\* The new node and its red parent brought to one side: the red pair is then
\* the node that came up and the parent.
LEMMA StraightenBalance ==
    ASSUME NEW t, NEW S, NEW sub, NEW v, TreeOK(t, S, sub, v), NEW p \in S, NEW s \in Sides,
           NEW c, c = t.kid[Other(s)][p], c # nil, NEW u, u = Rotate(t, p, s),
           NoRed(t, S, c), IsRed(t, p), IsRed(t, c), ~IsRed(t, t.parent[p])
    PROVE  NoRed(u, S, p)
  <1> DEFINE o == Other(s)
             m == t.kid[s][c]
  <1>1. /\ c \in S /\ c # p /\ m # p /\ m # c /\ nil \notin S
        /\ \A a \in Sides : a = s \/ a = o
        /\ u.kid[s][p] = t.kid[s][p] /\ u.kid[o][p] = m
        /\ u.kid[s][c] = p /\ u.kid[o][c] = t.kid[o][c]
        /\ \A y \in S \ {p, c} : \A a \in Sides :
               u.kid[a][y] = IF t.kid[a][y] = p THEN c ELSE t.kid[a][y]
        /\ \A y \in S \ {p} : \A a \in Sides : t.kid[a][y] # c
        /\ t.kid[s][p] # p /\ t.kid[s][p] # c /\ t.kid[o][c] # p /\ t.kid[o][c] # c
        /\ \A y : y \in S \cup {nil} => (y # p /\ y # c => (IsRed(u, y) <=> IsRed(t, y)))
        /\ \A y \in S : \A a \in Sides : t.kid[a][y] \in S \cup {nil}
        /\ m \in S \cup {nil} /\ o \in Sides
    BY RotateFields
  <1>2. ~IsRed(t, m) /\ ~IsRed(t, t.kid[o][c]) /\ ~IsRed(t, t.kid[s][p])
    BY <1>1 DEF NoRed
  <1>3. \A y \in S : \A a \in Sides : t.kid[a][y] = p => ~IsRed(t, y)
    BY OneParent DEF TreeOK
  <1> HIDE DEF o, m
  <1> SUFFICES ASSUME NEW n \in S, NEW a \in Sides, IsRed(u, n), u.kid[a][n] # p
               PROVE  ~IsRed(u, u.kid[a][n])
    BY DEF NoRed
  <1>4. CASE n = p
    BY <1>1, <1>2, <1>4
  <1>5. CASE n = c
    BY <1>1, <1>2, <1>5
  <1>6. CASE n # p /\ n # c
    <2>1. IsRed(t, n) /\ t.kid[a][n] # p /\ t.kid[a][n] # c
      BY <1>1, <1>3, <1>6
    <2>2. ~IsRed(t, t.kid[a][n])
      BY <2>1 DEF NoRed
    <2> QED
      BY <1>1, <1>6, <2>1, <2>2
  <1> QED
    BY <1>4, <1>5, <1>6

LEMMA InsertRotateBalance ==
    ASSUME NEW sub, pc = "insert", Inserting(sub), BalanceInv, InsertRotate
    PROVE  BalanceInv'
  <1> DEFINE S == stored
             p == tree.parent[node]
             g == tree.parent[p]
             e == SideOf(tree, p)
             t == Straightened(p)
             k == IF node = tree.kid[e][p] THEN p ELSE node
             x == IF node = tree.kid[e][p] THEN node ELSE p
  <1>1. /\ IsRed(tree, p) /\ tree' = Rotate(t, g, Other(e)) /\ node' = x
        /\ ~IsRed(tree, tree.kid[Other(e)][g])
        /\ pc' = pc /\ stored' = stored /\ climbed' = climbed
    BY DEF InsertRotate, Fixing, Uncle
  <1>2. /\ p \in S /\ p # tree.root /\ g \in S /\ Shape(tree, S, sub)
        /\ TreeOK(tree, S, sub, nil) /\ node \in S /\ node # tree.root
        /\ nil \notin S
    BY <1>1, RedParent, KeyFacts DEF Inserting, Shape, Rooted
  <1>3. /\ e \in Sides /\ tree.kid[e][g] = p /\ g # p /\ g \notin sub[p] /\ p # nil
        /\ (tree.kid[Other(e)][g] # nil => tree.kid[Other(e)][g] # p /\ tree.parent[tree.kid[Other(e)][g]] = g)
    BY <1>2, Family
  <1>4. node # p /\ node \in sub[p] /\ SideOf(tree, node) \in Sides /\ tree.kid[SideOf(tree, node)][p] = node
    BY <1>2, Family, OwnPart
  <1>5. NoRed(tree, S, node) /\ (~climbed => Balanced(tree, S)) /\ IsRed(tree, node)
    BY DEF BalanceInv, Calm
  <1>6. ~IsRed(tree, g)
    <2> HIDE DEF p, g, e
    <2> QED
      BY <1>1, <1>2, <1>3, <1>4, <1>5 DEF NoRed
  <1>7. /\ \E sub2 : TreeOK(t, S, sub2, nil)
        /\ t.kid[e][g] = k /\ k \in S /\ IsRed(t, k) /\ IsRed(t, x) /\ x \in S
        /\ t.kid[e][k] = x /\ ~IsRed(t, g) /\ ~IsRed(t, t.kid[Other(e)][g])
        /\ NoRed(t, S, x) /\ (~climbed => Balanced(t, S))
    <2>1. CASE node = tree.kid[e][p]
      <3>1. t = tree /\ k = p /\ x = node
        BY <2>1 DEF Straightened
      <3> HIDE DEF t, p, g, e, k, x, S
      <3> QED
        BY <1>1, <1>2, <1>3, <1>5, <1>6, <2>1, <3>1
    <2>2. CASE node # tree.kid[e][p]
      <3>1. t = Rotate(tree, p, e) /\ k = node /\ x = p
        BY <2>2 DEF Straightened
      <3>2. tree.kid[Other(e)][p] = node
        BY <1>3, <1>4, <2>2, SideFacts
      <3>3. g # node /\ ~IsRed(tree, tree.parent[p])
        BY <1>3, <1>4, <1>6
      <3>4. tree.kid[Other(e)][g] # p
        BY <1>2, <1>3
      <3> HIDE DEF t, p, g, e, k, x, S
      <3>5. \E sub2 : TreeOK(t, S, sub2, nil)
        BY <1>2, <1>3, <3>1, <3>2, RotateKeeps
      <3>6. NoRed(t, S, p)
        BY <1>1, <1>2, <1>3, <1>5, <3>1, <3>2, <3>3, StraightenBalance
      <3>7. ~climbed => Balanced(t, S)
        BY <1>2, <1>3, <1>5, <3>1, <3>2, RotateRedBalance
      <3>8. /\ \A y \in S \ {p, node} : \A a \in Sides :
                   t.kid[a][y] = IF tree.kid[a][y] = p THEN node ELSE tree.kid[a][y]
            /\ t.kid[e][node] = p
            /\ \A y \in S \ {p} : \A a \in Sides : tree.kid[a][y] # node
            /\ \A y : y \in S \cup {nil} => (y # p /\ y # node => (IsRed(t, y) <=> IsRed(tree, y)))
            /\ IsRed(t, node) <=> IsRed(tree, p)
            /\ IsRed(t, p) <=> IsRed(tree, node)
            /\ \A y \in S : \A a \in Sides : tree.kid[a][y] \in S \cup {nil}
            /\ Other(e) \in Sides
        <4> DEFINE m == tree.kid[e][node]
                   o == Other(e)
        <4>1. o = Other(e) /\ node = tree.kid[o][p] /\ node # nil
          BY <1>2, <3>2
        <4> HIDE DEF m, o
        <4>2. m = tree.kid[e][node]
          BY DEF m
        <4> QED
          BY <1>2, <1>3, <3>1, <4>1, <4>2, RotateFields
      <3> QED
        BY <1>1, <1>2, <1>3, <1>5, <1>6, <3>1, <3>3, <3>4, <3>5, <3>6, <3>7, <3>8
    <2> QED
      BY <2>1, <2>2
  <1> HIDE DEF t, k, e, g, p, x, S
  <1>8. PICK sub2 : TreeOK(t, S, sub2, nil)
    BY <1>7
  <1> DEFINE s == Other(e)
  <1>9. s \in Sides /\ Other(s) = e /\ k # nil
    BY <1>2, <1>3, <1>7, SideFacts
  <1> HIDE DEF s
  <1>10. /\ t.kid[e][k] # g /\ t.kid[e][k] # k
         /\ \A y : y \in S \cup {nil} => (y # g /\ y # k => (IsRed(tree', y) <=> IsRed(t, y)))
    <2> DEFINE m == t.kid[s][k]
    <2>1. m = t.kid[s][k] /\ e = Other(s) /\ k = t.kid[e][g] /\ tree' = Rotate(t, g, s)
      BY <1>1, <1>7, <1>9 DEF s
    <2> HIDE DEF m
    <2> QED
      BY <1>2, <1>7, <1>8, <1>9, <2>1, RotateFields
  <1>11. t.kid[s][k] # x
    <2>1. \A y \in S : \A a \in Sides : t.kid[a][y] = x => a = SideOf(t, x)
      BY <1>7, <1>8, OneParent DEF TreeOK
    <2> QED
      BY <1>3, <1>7, <1>9, <2>1, SideFacts
  <1>12. NoRed(tree', S, x)
    <2> PICK u : u = Rotate(t, g, s)
      OBVIOUS
    <2>1. k = t.kid[Other(s)][g] /\ ~IsRed(t, t.kid[s][g])
      BY <1>7, <1>9 DEF s
    <2>2. NoRed(u, S, x)
      BY <1>2, <1>7, <1>8, <1>9, <1>11, <2>1, RotateUnderBlack
    <2> QED
      BY <1>1, <2>2 DEF s
  <1>13. ~climbed => Balanced(tree', S)
    <2> PICK u : u = Rotate(t, g, s)
      OBVIOUS
    <2>1. k = t.kid[Other(s)][g]
      BY <1>7, <1>9
    <2>2. Balanced(t, S) => Balanced(u, S)
      BY <1>2, <1>7, <1>8, <1>9, <2>1, RotateRedBalance
    <2> QED
      BY <1>1, <1>7, <2>2 DEF s
  <1>14. IsRed(tree', x)
    BY <1>7, <1>10
  <1> QED
    BY <1>1, <1>12, <1>13, <1>14 DEF BalanceInv, Calm, S

LEMMA EmptyBalance == \A t, x : NoRed(t, {}, x) /\ Balanced(t, {})
  <1>1. \A t, x : NoRed(t, {}, x)
    BY DEF NoRed
  <1> DEFINE h == [x \in Places |-> 0]
  <1>2. h \in [Places -> Nat] /\ h[nil] = 0
    BY DEF Places
  <1> HIDE DEF h
  <1>3. \A t : Heights(t, {}, h)
    BY <1>2 DEF Heights
  <1> QED
    BY <1>1, <1>3 DEF Balanced

LEMMA PreparedBalance ==
    ASSUME NEW sub, Idle(sub), NEW key \in stored, NEW t,
           t = IF Cardinality(Kids(tree, key)) = 2
               THEN Exchanged(tree, key, Successor(tree, key)) ELSE tree
    PROVE  /\ NoRed(tree, stored, nil) => NoRed(t, stored, nil)
           /\ Balanced(tree, stored) => Balanced(t, stored)
  <1>1. /\ TreeOK(tree, stored, sub, nil) /\ ~IsRed(tree, tree.root)
        /\ Shape(tree, stored, sub) /\ Ordered(tree, stored, sub, nil) /\ OutsideOK(tree, stored)
        /\ nil \notin stored /\ tree \in Trees /\ stored \in SUBSET Keys
    BY KeyFacts DEF Idle, TreeOK, BlankOutside, BlankAt, OutsideOK, Shape, Rooted
  <1>2. CASE Cardinality(Kids(tree, key)) = 2
    <2> DEFINE m == Successor(tree, key)
    <2>1. PICK d, b : Downward(tree, d, b)
      BY <1>1, TreeDown
    <2>2. tree.kid["right"][key] # nil
      BY <1>1, <1>2, KidsCount
    <2>3. m \in sub[tree.kid["right"][key]]
      BY <1>1, <2>1, <2>2, SuccessorNext
    <2> HIDE DEF m
    <2>4. tree.kid["right"][key] \in stored \cup {nil}
      BY <1>1, SideFacts DEF Shape, NodeOK
    <2>5. m \in stored
      BY <1>1, <2>3, <2>4 DEF Shape, Rooted
    <2>6. t = Exchanged(tree, key, m)
      BY <1>2 DEF m
    <2> QED
      BY <1>1, <2>5, <2>6, ExchangeBalance
  <1>3. CASE Cardinality(Kids(tree, key)) # 2
    BY <1>3
  <1> QED
    BY <1>2, <1>3

\* The node that rbtree_delete unlinks without a fixup: its child turns black,
\* or it was red and has none.
LEMMA DropBalance ==
    ASSUME NEW t, NEW S, NEW sub, NEW n \in S, TreeOK(t, S, sub, n), Cardinality(Kids(t, n)) # 2,
           Cardinality(Kids(t, n)) = 1 \/ IsRed(t, n), NoRed(t, S, nil),
           NEW w, w = Removed(Blackened(t, Kids(t, n)), n)
    PROVE  /\ NoRed(w, S \ {n}, nil)
           /\ Balanced(t, S) => Balanced(w, S \ {n})
  <1> DEFINE m == IF Kids(t, n) = {} THEN nil ELSE CHOOSE c \in Kids(t, n) : TRUE
             B == Kids(t, n)
             u == Blackened(t, B)
  <1>1. Shape(t, S, sub) /\ nil \notin S /\ S \subseteq Keys
    BY KeyFacts DEF TreeOK, Shape, Rooted
  <1>2. OnlyChild(t, n, m)
    BY <1>1, KidsCount
  <1> HIDE DEF m
  <1>3. B = {m} \ {nil}
    BY <1>1, <1>2, KidsCount
  <1>4. m = nil => IsRed(t, n)
    BY <1>3, FS_EmptySet
  <1>5. PICK e \in Sides : t.kid[e][n] = m /\ t.kid[Other(e)][n] = nil
    BY <1>2 DEF OnlyChild
  <1>6. m \in S \cup {nil} /\ \A x \in S : \A a \in Sides : t.kid[a][x] \in S \cup {nil} /\ t.kid[a][x] # x
    <2>1. \A x \in S : NodeOK(t, S, sub, x) /\ x \in sub[x]
      BY <1>1, OwnPart DEF Shape
    <2> QED
      BY <1>5, <2>1 DEF NodeOK
  <1>7. m # nil => \A x \in S : \A a \in Sides : t.kid[a][x] = m => x = n
    <2> SUFFICES ASSUME m # nil
                 PROVE  \A x \in S : \A a \in Sides : t.kid[a][x] = m => x = n
      OBVIOUS
    <2>1. \A x \in S : \A a \in Sides : t.kid[a][x] = m <=> m # t.root /\ x = t.parent[m] /\ a = SideOf(t, m)
      BY <1>1, <1>6, OneParent
    <2> QED
      BY <1>5, <2>1
  <1> HIDE DEF B
  <1>8. /\ TreeOK(u, S, sub, n) /\ u.kid = t.kid
        /\ \A x \in S : u.color[x] = IF x \in B THEN "black" ELSE t.color[x]
    BY BlackenedKeeps
  <1>9. w = Removed(u, n)
    BY DEF B
  <1> HIDE DEF u
  <1>10. /\ ~IsRed(u, m) /\ \A x \in (S \cup {nil}) \ {m} : IsRed(u, x) <=> IsRed(t, x)
    BY <1>1, <1>3, <1>6, <1>8 DEF IsRed
  <1>11. OnlyChild(u, n, m)
    BY <1>5, <1>8 DEF OnlyChild
  <1>12. NoRed(u, S, nil)
    <2> SUFFICES ASSUME NEW x \in S, NEW a \in Sides, IsRed(u, x)
                 PROVE  ~IsRed(u, u.kid[a][x])
      BY DEF NoRed
    <2>1. ~IsRed(t, t.kid[a][x])
      BY <1>10 DEF NoRed, IsRed
    <2> QED
      BY <1>6, <1>8, <1>10, <2>1
  <1>13. /\ NoRed(w, S \ {n}, nil)
         /\ \A h : Heights(u, S \ {n}, h) /\ h[m] = h[n] => Heights(w, S \ {n}, h)
    BY <1>8, <1>9, <1>10, <1>11, <1>12, RemovedBalance
  <1>14. ASSUME NEW h, Heights(t, S, h)
         PROVE  Balanced(w, S \ {n})
    <2> DEFINE k == [h EXCEPT ![m] = h[n]]
    <2>1. /\ h \in [Places -> Nat] /\ h[nil] = 0 /\ \A x \in S : HeightAt(t, h, x)
      BY <1>14 DEF Heights
    <2>2. h[n] = h[m] + Own(t, n) /\ h[n] = 0 + Own(t, n) /\ h[m] \in Nat /\ h[n] \in Nat
      <3>1. h[n] = h[t.kid[e][n]] + Own(t, n) /\ h[n] = h[t.kid[Other(e)][n]] + Own(t, n)
        BY <2>1, SideFacts DEF HeightAt
      <3> QED
        BY <1>1, <1>5, <1>6, <2>1, <3>1 DEF Places
    <2>3. h[m] = 0 /\ h[n] = Own(t, n)
      BY <2>2 DEF Own
    <2>4. m = nil => h[n] = 0
      BY <1>4, <2>3 DEF Own
    <2>5. m # nil => h[n] = 1 /\ \A a \in Sides : h[t.kid[a][m]] = 0
      <3> SUFFICES ASSUME m # nil
                   PROVE  h[n] = 1 /\ \A a \in Sides : h[t.kid[a][m]] = 0
        OBVIOUS
      <3>1. m \in S /\ HeightAt(t, h, m) /\ Own(t, m) \in {0, 1}
        BY <1>6, <2>1 DEF Own
      <3>2. \A a \in Sides : h[t.kid[a][m]] \in Nat /\ 0 = h[t.kid[a][m]] + Own(t, m)
        BY <1>1, <1>6, <2>1, <2>3, <3>1 DEF HeightAt, Places
      <3>3. Own(t, m) = 0 /\ \A a \in Sides : h[t.kid[a][m]] = 0
        BY <1>5, <3>1, <3>2
      <3>4. IsRed(t, m)
        BY <3>3 DEF Own
      <3>5. ~IsRed(t, n)
        BY <1>5, <3>4 DEF NoRed
      <3> QED
        BY <2>3, <3>3, <3>5 DEF Own
    <2>6. /\ k \in [Places -> Nat] /\ k[nil] = 0 /\ k[m] = h[n]
          /\ \A x \in (S \cup {nil}) \ {m} : k[x] = h[x]
      BY <1>1, <1>6, <2>1, <2>2, <2>4 DEF Places
    <2>7. m # n
      BY <1>1, <1>5, <1>6
    <2> HIDE DEF k
    <2>8. ASSUME NEW x \in S \ {n}, NEW a \in Sides
          PROVE  k[x] = k[u.kid[a][x]] + Own(u, x)
      <3>1. h[x] = h[t.kid[a][x]] + Own(t, x)
        BY <2>1 DEF HeightAt
      <3>2. t.kid[a][x] # m \/ m = nil
        BY <1>7
      <3>3. k[t.kid[a][x]] = h[t.kid[a][x]]
        BY <1>6, <2>3, <2>6, <2>4, <3>2
      <3>4. CASE x = m
        <4>1. Own(u, x) = 1 /\ k[x] = 1 /\ h[t.kid[a][x]] = 0
          BY <1>1, <1>10, <2>5, <2>6, <3>4 DEF Own
        <4> QED
          BY <1>8, <3>3, <4>1
      <3>5. CASE x # m
        <4>1. Own(u, x) = Own(t, x) /\ k[x] = h[x]
          BY <1>10, <2>6, <3>5 DEF Own
        <4> QED
          BY <1>8, <3>1, <3>3, <4>1
      <3> QED
        BY <3>4, <3>5
    <2>9. Heights(u, S \ {n}, k)
      BY <2>6, <2>8 DEF Heights, HeightAt
    <2>10. k[m] = k[n]
      BY <2>6, <2>7
    <2> QED
      BY <1>13, <2>9, <2>10 DEF Balanced
  <1> QED
    BY <1>13, <1>14 DEF Balanced

LEMMA DeleteBalance ==
    ASSUME NEW sub, pc = "idle", Idle(sub), BalanceInv, NEW key \in Keys, Delete(key)
    PROVE  BalanceInv'
  <1> DEFINE t == IF Cardinality(Kids(tree, key)) = 2
                  THEN Exchanged(tree, key, Successor(tree, key)) ELSE tree
             kids == Kids(t, key)
             S == stored
  <1>1. Shape(tree, S, sub) /\ Ordered(tree, S, sub, nil) /\ OutsideOK(tree, S)
    BY DEF Idle, TreeOK, BlankOutside, BlankAt, OutsideOK
  <1>2. key \in S
    <2>1. PICK d, b : Downward(tree, d, b)
      BY <1>1, TreeDown
    <2>2. Find(tree, key) = IF key \in S THEN key ELSE nil
      BY <1>1, <2>1, FindFinds
    <2> QED
      BY <2>2, KeyFacts DEF Delete
  <1>3. stored' = S \ {key} /\ climbed' = climbed
    BY DEF Delete
  <1>4. IF Cardinality(kids) = 1 \/ IsRed(t, key)
        THEN tree' = Removed(Blackened(t, kids), key) /\ UNCHANGED <<pc, node, victim>>
        ELSE tree' = t /\ pc' = "delete" /\ node' = key /\ victim' = key
    BY DEF Delete
  <1>5. PICK sub2 : /\ TreeOK(t, S, sub2, key) /\ ~IsRed(t, t.root)
                    /\ Cardinality(Kids(t, key)) # 2
    BY <1>2, Prepared
  <1>6. NoRed(t, S, nil) /\ (~climbed => Balanced(t, S))
    <2>1. NoRed(tree, S, nil) /\ (~climbed => Balanced(tree, S))
      BY DEF BalanceInv, Calm
    <2> QED
      BY <1>2, <2>1, PreparedBalance
  <1> HIDE DEF t, S
  <1>7. CASE Cardinality(kids) = 1 \/ IsRed(t, key)
    <2> PICK w : w = Removed(Blackened(t, kids), key)
      OBVIOUS
    <2>1. NoRed(w, S \ {key}, nil) /\ (Balanced(t, S) => Balanced(w, S \ {key}))
      BY <1>2, <1>5, <1>6, <1>7, DropBalance
    <2>2. tree' = w /\ pc' = "idle"
      BY <1>4, <1>7
    <2> HIDE DEF kids
    <2> QED
      BY <1>3, <1>6, <2>1, <2>2 DEF BalanceInv, Calm
  <1>8. CASE ~(Cardinality(kids) = 1 \/ IsRed(t, key))
    <2>1. tree' = t /\ pc' = "delete" /\ node' = key /\ victim' = key /\ ~IsRed(t, key)
      BY <1>4, <1>8
    <2>2. stored' \cup {victim'} = S
      BY <1>2, <1>3, <2>1
    <2> HIDE DEF kids
    <2> QED
      BY <1>3, <1>6, <2>1, <2>2 DEF BalanceInv, Calm
  <1> QED
    BY <1>7, <1>8

\* delete_fixup returns, with the leaf that goes counted as nil already.
LEMMA FinishBalance ==
    ASSUME NEW sub, NEW u, NEW S, S = stored \cup {victim}, TreeOK(u, S, sub, victim), victim \notin stored,
           Kids(u, victim) = {}, Finish(u), stored' = stored, climbed' = climbed, NoRed(u, S, nil),
           ~climbed => \E k : Heights(u, stored, k) /\ k[victim] = 0
    PROVE  BalanceInv'
  <1>1. victim \in S /\ S \ {victim} = stored
    OBVIOUS
  <1>2. OnlyChild(u, victim, nil) /\ ~IsRed(u, nil)
    BY SideFacts DEF Kids, OnlyChild, IsRed
  <1> PICK w : w = Removed(u, victim)
    OBVIOUS
  <1>3. /\ NoRed(w, S \ {victim}, nil)
        /\ \A h : Heights(u, S \ {victim}, h) /\ h[nil] = h[victim] => Heights(w, S \ {victim}, h)
    BY <1>1, <1>2, RemovedBalance
  <1>4. NoRed(w, stored, nil) /\ (~climbed => Balanced(w, stored))
    BY <1>1, <1>3 DEF Heights, Balanced
  <1>5. tree' = w /\ pc' = "idle"
    BY DEF Finish
  <1> QED
    BY <1>4, <1>5 DEF BalanceInv, Calm

\* The heights beside a leaf that is to go: its brother counts one black node.
LEMMA BesideLeaf ==
    ASSUME NEW t, NEW S, NEW h, Heights(t, S, h), nil \notin S, S \subseteq Keys, NEW p \in S, NEW v \in S, NEW s \in Sides,
           t.kid[s][p] = v, Kids(t, v) = {}, ~IsRed(t, v), NEW b, b = t.kid[Other(s)][p], b \in S \cup {nil}
    PROVE  /\ h[v] = 1 /\ h[b] = 1 /\ h[p] = 1 + Own(t, p)
           /\ h \in [Places -> Nat] /\ h[nil] = 0 /\ \A x \in S : HeightAt(t, h, x)
  <1>1. h \in [Places -> Nat] /\ h[nil] = 0 /\ \A x \in S : HeightAt(t, h, x)
    BY DEF Heights
  <1>2. \A a \in Sides : t.kid[a][v] = nil
    BY DEF Kids
  <1>3. h[v] = 1
    BY <1>1, <1>2, SideFacts DEF HeightAt, Own
  <1>4. h[p] = h[v] + Own(t, p) /\ h[p] = h[b] + Own(t, p) /\ h[b] \in Nat /\ Own(t, p) \in {0, 1}
    <2>1. h[p] = h[t.kid[s][p]] + Own(t, p) /\ h[p] = h[t.kid[Other(s)][p]] + Own(t, p)
      BY <1>1, SideFacts DEF HeightAt
    <2> QED
      BY <1>1, <2>1 DEF Own, Places
  <1> QED
    BY <1>1, <1>3, <1>4

LEMMA DeleteRedBrotherBalance ==
    ASSUME NEW sub, pc = "delete", Deleting(sub), BalanceInv, DeleteRedBrother
    PROVE  BalanceInv'
  <1> DEFINE S == stored \cup {victim}
             p == tree.parent[node]
             s == SideOf(tree, node)
             b == Brother
             v == victim
  <1>1. /\ tree' = Rotate(tree, p, s) /\ node # tree.root /\ b # nil /\ IsRed(tree, b)
        /\ node' = node /\ victim' = victim /\ pc' = pc /\ stored' = stored /\ climbed' = climbed
    BY DEF DeleteRedBrother, Fixing, IsRed
  <1>2. /\ TreeOK(tree, S, sub, v)
        /\ p \in S /\ s \in Sides /\ b = tree.kid[Other(s)][p] /\ b \in S /\ p # node /\ b # node /\ node \in S
    BY <1>1, Brothers
  <1>3. tree.kid[s][p] = node
    BY <1>1, <1>2, OneParent DEF TreeOK
  <1>4. NoRed(tree, S, nil) /\ ~IsRed(tree, node) /\ (~climbed => node = v /\ Balanced(tree, S))
    BY DEF BalanceInv, Calm
  <1>5. S' = S
    BY <1>1
  <1> HIDE DEF S, p, s, b
  <1>6. ~IsRed(tree, p)
    BY <1>1, <1>2, <1>4, SideFacts DEF NoRed
  <1> PICK u : u = Rotate(tree, p, s)
    OBVIOUS
  <1>7. NoRed(u, S, nil)
    BY <1>1, <1>2, <1>3, <1>4, <1>6, RotateUnderBlack
  <1>8. Balanced(tree, S) => Balanced(u, S)
    BY <1>1, <1>2, RotateRedBalance
  <1>9. ~IsRed(u, node)
    <2> DEFINE o == Other(s)
               m == tree.kid[s][b]
    <2>1. o = Other(s) /\ m = tree.kid[s][b] /\ b = tree.kid[o][p]
      BY <1>2
    <2> HIDE DEF o, m
    <2>2. \A y : y \in S \cup {nil} => (y # p /\ y # b => (IsRed(u, y) <=> IsRed(tree, y)))
      BY <1>1, <1>2, <2>1, RotateFields
    <2> QED
      BY <1>2, <1>4, <2>2
  <1>10. Calm(S, nil)'
    BY <1>1, <1>4, <1>5, <1>7, <1>8 DEF Calm
  <1>11. (stored \cup {victim})' = S
    BY <1>1 DEF S
  <1> QED
    BY <1>1, <1>4, <1>5, <1>7, <1>8, <1>9, <1>11 DEF BalanceInv, Calm

LEMMA DeleteRecolorBalance ==
    ASSUME NEW sub, pc = "delete", Deleting(sub), BalanceInv, DeleteRecolor
    PROVE  BalanceInv'
  <1> DEFINE S == stored \cup {victim}
             p == tree.parent[node]
             s == SideOf(tree, node)
             b == Brother
             v == victim
  <1>1. node # tree.root /\ b # nil /\ ~IsRed(tree, b) /\ Kids(tree, b) = {} /\ stored' = stored
    BY DEF DeleteRecolor, Fixing, BlackBrother
  <1>2. /\ TreeOK(tree, S, sub, v) /\ v \notin stored /\ s \in Sides
        /\ p \in S /\ b \in S /\ v \in S /\ Kids(tree, v) = {} /\ node \in S
        /\ b = tree.kid[Other(s)][p] /\ p # b /\ v # p /\ v # b /\ p # nil
    BY <1>1, Brothers
  <1>3. S \subseteq Keys /\ nil \notin S /\ nil \notin Keys
    BY <1>2, KeyFacts DEF TreeOK, Shape, Rooted
  <1>4. \/ IsRed(tree, p) /\ Finish(Swapped(tree, p, b)) /\ climbed' = climbed
        \/ /\ ~IsRed(tree, p) /\ tree' = [tree EXCEPT !.color[b] = "red"] /\ node' = p
           /\ climbed' = TRUE /\ UNCHANGED <<pc, victim>>
    BY DEF DeleteRecolor
  <1>5. tree.kid[s][p] = node
    BY <1>1, <1>2, OneParent DEF TreeOK
  <1>6. NoRed(tree, S, nil) /\ ~IsRed(tree, node) /\ (~climbed => node = v /\ Balanced(tree, S))
    BY DEF BalanceInv, Calm
  <1>7. \A x \in S : \A a \in Sides : /\ tree.kid[a][x] \in {node, b} => x = p
                                      /\ tree.kid[a][x] \in S \cup {nil}
    <2>1. Shape(tree, S, sub)
      BY <1>2 DEF TreeOK
    <2>2. tree.parent[b] = p
      BY <1>1, <1>2, <2>1, SideFacts DEF Shape, ParentsOK
    <2>3. \A x \in S : NodeOK(tree, S, sub, x)
      BY <2>1 DEF Shape
    <2>4. \A n \in S : \A x \in S : \A a \in Sides : tree.kid[a][x] = n => x = tree.parent[n]
      BY <2>1, OneParent
    <2> HIDE DEF S, s, b
    <2>5. \A x \in S : \A a \in Sides : tree.kid[a][x] \in {node, b} => x = p
      BY <1>2, <2>2, <2>4
    <2> QED
      BY <2>3, <2>5 DEF NodeOK
  <1>8. \A a \in Sides : tree.kid[a][b] = nil /\ tree.kid[a][v] = nil
    BY <1>1, <1>2 DEF Kids
  <1>9. \A a \in Sides : tree.kid[a][p] \in {node, b}
    BY <1>2, <1>5, SideFacts
  <1> HIDE DEF p, s, b
  <1>10. CASE IsRed(tree, p) /\ Finish(Swapped(tree, p, b)) /\ climbed' = climbed
    <2> HIDE DEF S
    <2> DEFINE u == Swapped(tree, p, b)
    <2>1. /\ TreeOK(u, S, sub, v) /\ u.kid = tree.kid /\ u.root = tree.root
          /\ \A x \in Keys : u.color[x] = IF x = b THEN tree.color[p] ELSE IF x = p THEN tree.color[b] ELSE tree.color[x]
      <3>1. TreeOK(tree, S, sub, v) /\ p \in S /\ b \in S
        BY <1>2
      <3> QED
        BY <3>1, SwappedKeeps
    <2> HIDE DEF u
    <2>2. /\ IsRed(u, b) /\ ~IsRed(u, p) /\ \A x \in (S \cup {nil}) \ {p, b} : IsRed(u, x) <=> IsRed(tree, x)
      BY <1>1, <1>2, <1>3, <1>10, <2>1 DEF IsRed
    <2>3. NoRed(u, S, nil)
      <3> SUFFICES ASSUME NEW x \in S, NEW a \in Sides, IsRed(u, x)
                   PROVE  ~IsRed(u, u.kid[a][x])
        BY DEF NoRed
      <3>1. CASE x = b
        BY <1>8, <2>1, <3>1 DEF IsRed
      <3>2. CASE x # b
        <4>1. x # p /\ IsRed(tree, x)
          BY <2>2, <3>2
        <4>2. ~IsRed(tree, tree.kid[a][x])
          BY <1>6, <4>1 DEF NoRed, IsRed
        <4>3. tree.kid[a][x] # b /\ tree.kid[a][x] \in S \cup {nil}
          BY <1>7, <4>1
        <4> QED
          BY <2>1, <2>2, <4>2, <4>3
      <3> QED
        BY <3>1, <3>2
    <2>4. ASSUME ~climbed
          PROVE  \E k : Heights(u, stored, k) /\ k[v] = 0
      <3>1. node = v
        BY <1>6, <2>4
      <3>2. PICK h : Heights(tree, S, h)
        BY <1>6, <2>4 DEF Balanced
      <3>3. /\ h[v] = 1 /\ h[b] = 1 /\ h[p] = 1
            /\ h \in [Places -> Nat] /\ h[nil] = 0 /\ \A x \in S : HeightAt(tree, h, x)
        <4>1. /\ h[v] = 1 /\ h[b] = 1 /\ h[p] = 1 + Own(tree, p)
              /\ h \in [Places -> Nat] /\ h[nil] = 0 /\ \A x \in S : HeightAt(tree, h, x)
          BY <1>2, <1>3, <1>5, <1>6, <3>1, <3>2, BesideLeaf
        <4>2. Own(tree, p) = 0
          BY <1>10 DEF Own
        <4> QED
          BY <4>1, <4>2
      <3> DEFINE k == [h EXCEPT ![v] = 0, ![b] = 0]
      <3>4. /\ k \in [Places -> Nat] /\ k[nil] = 0 /\ k[v] = 0 /\ k[b] = 0 /\ k[p] = 1
            /\ \A x \in (S \cup {nil}) \ {v, b} : k[x] = h[x]
        BY <1>2, <1>3, <3>3 DEF Places
      <3> HIDE DEF k
      <3>5. ASSUME NEW x \in stored, NEW a \in Sides
            PROVE  k[x] = k[u.kid[a][x]] + Own(u, x)
        <4>0. x \in S /\ x # v
          BY <1>2 DEF S
        <4>1. CASE x = p
          <5>1. u.kid[a][x] \in {v, b} /\ Own(u, x) = 1
            BY <1>9, <2>1, <2>2, <3>1, <4>1 DEF Own
          <5> QED
            BY <3>4, <4>1, <5>1
        <4>2. CASE x = b
          <5>1. u.kid[a][x] = nil /\ Own(u, x) = 0
            BY <1>8, <2>1, <2>2, <4>2 DEF Own
          <5> QED
            BY <3>4, <4>2, <5>1
        <4>3. CASE x # p /\ x # b
          <5>1. Own(u, x) = Own(tree, x) /\ k[x] = h[x] /\ HeightAt(tree, h, x)
            BY <2>2, <3>3, <3>4, <4>0, <4>3 DEF Own
          <5>2. tree.kid[a][x] \notin {v, b} /\ tree.kid[a][x] \in S \cup {nil}
            BY <1>7, <3>1, <4>0, <4>3
          <5> QED
            BY <2>1, <3>4, <5>1, <5>2 DEF HeightAt
        <4> QED
          BY <4>1, <4>2, <4>3
      <3> QED
        BY <3>4, <3>5 DEF Heights, HeightAt
    <2>5. Kids(u, v) = {}
      BY <1>2, <2>1 DEF Kids
    <2>6. Finish(u) /\ climbed' = climbed
      BY <1>10 DEF u
    <2>7. S = stored \cup {victim}
      BY DEF S
    <2> QED
      BY <1>1, <1>2, <2>1, <2>3, <2>4, <2>5, <2>6, <2>7, FinishBalance
  <1>11. CASE /\ ~IsRed(tree, p) /\ tree' = [tree EXCEPT !.color[b] = "red"] /\ node' = p
              /\ climbed' = TRUE /\ UNCHANGED <<pc, victim>>
    <2>1. (stored \cup {victim})' = S
      BY <1>1, <1>11
    <2> HIDE DEF S
    <2> PICK u : u = [tree EXCEPT !.color[b] = "red"]
      OBVIOUS
    <2>2. /\ u.kid = tree.kid
          /\ \A x \in Keys : u.color[x] = IF x = b THEN "red" ELSE tree.color[x]
      BY <1>2, ColorSet
    <2>3. \A x \in (S \cup {nil}) \ {b} : IsRed(u, x) <=> IsRed(tree, x)
      BY <1>3, <2>2 DEF IsRed
    <2>4. NoRed(u, S, nil)
      <3> SUFFICES ASSUME NEW x \in S, NEW a \in Sides, IsRed(u, x)
                   PROVE  ~IsRed(u, u.kid[a][x])
        BY DEF NoRed
      <3>1. CASE x = b
        BY <1>8, <2>2, <3>1 DEF IsRed
      <3>2. CASE x # b
        <4>1. IsRed(tree, x) /\ x # p
          BY <1>11, <2>3, <3>2
        <4>2. ~IsRed(tree, tree.kid[a][x])
          BY <1>6, <4>1 DEF NoRed, IsRed
        <4>3. tree.kid[a][x] # b /\ tree.kid[a][x] \in S \cup {nil}
          BY <1>7, <4>1
        <4> QED
          BY <2>2, <2>3, <4>2, <4>3
      <3> QED
        BY <3>1, <3>2
    <2>5. ~IsRed(u, p)
      BY <1>2, <1>11, <2>3
    <2>6. tree' = u
      BY <1>11
    <2> QED
      BY <1>11, <2>1, <2>4, <2>5, <2>6 DEF BalanceInv, Calm
  <1> QED
    BY <1>4, <1>10, <1>11

\* A node that counts one black node has a brother.
LEMMA CrashBalance ==
    ASSUME NEW sub, pc = "delete", Deleting(sub), BalanceInv, Crash
    PROVE  BalanceInv'
  <1> DEFINE S == stored \cup {victim}
             p == tree.parent[node]
             s == SideOf(tree, node)
  <1>1. node # tree.root /\ Brother = nil /\ pc' = "crashed" /\ climbed' = climbed
    BY DEF Crash, Fixing
  <1>2. TreeOK(tree, S, sub, victim) /\ node \in S /\ Kids(tree, victim) = {} /\ Brother = tree.kid[Other(s)][p]
    BY DEF Deleting, Brother
  <1>3. Balanced(tree, S) \/ climbed
    BY DEF BalanceInv, Calm
  <1>4. ~IsRed(tree, node) /\ (~climbed => node = victim)
    BY DEF BalanceInv
  <1> HIDE DEF S
  <1>5. S \subseteq Keys /\ nil \notin S /\ Shape(tree, S, sub)
    BY <1>2, KeyFacts DEF TreeOK, Shape, Rooted
  <1>6. p \in S /\ s \in Sides /\ tree.kid[s][p] = node
    BY <1>1, <1>2, <1>5, OneParent
  <1> HIDE DEF p, s
  <1>7. climbed
    <2> SUFFICES ASSUME ~climbed
                 PROVE  FALSE
      OBVIOUS
    <2>1. PICK h : Heights(tree, S, h)
      BY <1>3 DEF Balanced
    <2>2. h[nil] = 1 /\ h[nil] = 0
      <3> PICK b : b = tree.kid[Other(s)][p]
        OBVIOUS
      <3>1. b = nil
        BY <1>1, <1>2
      <3>2. Kids(tree, node) = {} /\ b \in S \cup {nil}
        BY <1>2, <1>4, <3>1
      <3>3. h[b] = 1 /\ h[nil] = 0
        BY <1>2, <1>4, <1>5, <1>6, <2>1, <3>2, BesideLeaf
      <3> QED
        BY <3>1, <3>3
    <2> QED
      BY <2>2
  <1> QED
    BY <1>1, <1>7 DEF BalanceInv

\* A black brother b with a child x, which has turned black in t.
NephewFacts(t, S, sub, p, s, b, x) ==
    /\ TreeOK(t, S, sub, victim) /\ NoRed(t, S, nil) /\ ~IsRed(t, b) /\ ~IsRed(t, x)
    /\ S = stored \cup {victim} /\ victim \notin stored /\ nil \notin S /\ S \subseteq Keys
    /\ p \in S /\ b \in S /\ x \in S /\ victim \in S /\ s \in Sides
    /\ p # b /\ p # x /\ b # x /\ victim # p /\ victim # b /\ victim # x
    /\ t.kid[s][p] = node /\ t.kid[Other(s)][p] = b /\ node # b
    /\ Kids(t, victim) = {}
    /\ \A n \in S : \A a \in Sides : t.kid[a][n] \in S \cup {nil} /\ t.kid[a][n] # n
    /\ \A n \in S : \A a \in Sides : t.kid[a][n] = x => n = b
    /\ \A n \in S : \A a \in Sides : t.kid[a][n] = node => n = p
    /\ \A a \in Sides : t.kid[a][b] # p /\ t.kid[a][b] # victim /\ t.kid[a][x] # p /\ t.kid[a][x] # b
    /\ ~climbed => node = victim

NephewHeights(t, S, p, b, x, h) ==
    /\ h \in [Places -> Nat] /\ h[nil] = 0 /\ h[victim] = 1 /\ h[b] = 1 /\ h[p] = 1 + Own(t, p)
    /\ \A a \in Sides : h[t.kid[a][b]] = 0 /\ h[t.kid[a][x]] = 0
    /\ \A n \in S \ {x} : HeightAt(t, h, n)

LEMMA NephewMade ==
    ASSUME NEW sub, pc = "delete", Deleting(sub), BalanceInv, node # tree.root,
           NEW p, p = tree.parent[node], NEW s, s = SideOf(tree, node),
           NEW b, b = Brother, b # nil, ~IsRed(tree, b), NEW x \in Kids(tree, b),
           NEW t, t = Blackened(tree, {x}), NEW S, S = stored \cup {victim}
    PROVE  /\ NephewFacts(t, S, sub, p, s, b, x) /\ t.kid = tree.kid
           /\ ~climbed => \E h : NephewHeights(t, S, p, b, x, h)
  <1> DEFINE v == victim
  <1>1. /\ TreeOK(tree, S, sub, v) /\ v \notin stored
        /\ p \in S /\ s \in Sides /\ b = tree.kid[Other(s)][p] /\ b \in S /\ p # b /\ p \notin sub[b]
        /\ v \in S /\ v # p /\ v # b /\ v \notin sub[b] /\ Kids(tree, v) = {} /\ node \in S /\ node # b
    BY Brothers
  <1>2. NoRed(tree, S, nil) /\ ~IsRed(tree, node) /\ (~climbed => node = v /\ Balanced(tree, S))
    BY DEF BalanceInv, Calm
  <1>3. Shape(tree, S, sub) /\ S \subseteq Keys /\ nil \notin S
    BY <1>1, KeyFacts DEF TreeOK, Shape, Rooted
  <1>4. /\ \A n \in S : n \in sub[n] /\ \A a \in Sides : tree.kid[a][n] \in S \cup {nil} /\ n \notin sub[tree.kid[a][n]]
        /\ \A n \in S : \A a \in Sides : sub[tree.kid[a][n]] \subseteq sub[n]
    <2>1. \A n \in S : n \in sub[n] /\ NodeOK(tree, S, sub, n)
      BY <1>3, OwnPart DEF Shape
    <2>2. ASSUME NEW n \in S, NEW a \in Sides
          PROVE  /\ tree.kid[a][n] \in S \cup {nil} /\ n \notin sub[tree.kid[a][n]]
                 /\ sub[tree.kid[a][n]] \subseteq sub[n]
      <3>1. NodeOK(tree, S, sub, n)
        BY <2>1
      <3> HIDE DEF NodeOK
      <3> QED
        BY <3>1, NodeSides
    <2> QED
      BY <2>1, <2>2
  <1>5. x \in S /\ x \in sub[b] /\ x # b /\ x # p /\ x # v /\ \E a \in Sides : tree.kid[a][b] = x
    <2>1. PICK a \in Sides : tree.kid[a][b] = x /\ x # nil
      BY DEF Kids
    <2>2. x \in S /\ x \in sub[x] /\ b \notin sub[x] /\ sub[x] \subseteq sub[b]
      BY <1>1, <1>4, <2>1
    <2> QED
      BY <1>1, <2>1, <2>2
  <1>6. \A n \in S : \A m \in S : \A a \in Sides : tree.kid[a][n] = m => n = tree.parent[m]
    BY <1>3, OneParent
  <1>7. tree.kid[s][p] = node
    BY <1>1, <1>3, OneParent
  <1>8. \A a \in Sides : /\ tree.kid[a][b] # p /\ tree.kid[a][b] # v
                         /\ tree.kid[a][x] # p /\ tree.kid[a][x] # b
    <2> SUFFICES ASSUME NEW a \in Sides
                 PROVE  /\ tree.kid[a][b] # p /\ tree.kid[a][b] # v
                        /\ tree.kid[a][x] # p /\ tree.kid[a][x] # b
      OBVIOUS
    <2>1. sub[tree.kid[a][b]] \subseteq sub[b] /\ b \notin sub[tree.kid[a][b]]
      BY <1>1, <1>4
    <2>2. sub[tree.kid[a][x]] \subseteq sub[x]
      BY <1>4, <1>5
    <2>3. sub[x] \subseteq sub[b] /\ b \notin sub[x]
      BY <1>1, <1>4, <1>5
    <2> QED
      BY <1>1, <1>4, <2>1, <2>2, <2>3
  <1>9. /\ TreeOK(t, S, sub, v) /\ t.kid = tree.kid
        /\ \A n \in S : t.color[n] = IF n \in {x} THEN "black" ELSE tree.color[n]
    <2> DEFINE w == Blackened(tree, {x})
    <2>1. /\ TreeOK(w, S, sub, v)
          /\ w.kid = tree.kid /\ w.root = tree.root /\ w.parent = tree.parent
          /\ \A n \in S : w.color[n] = IF n \in {x} THEN "black" ELSE tree.color[n]
      BY <1>1, BlackenedKeeps
    <2> HIDE DEF w
    <2>2. t = w
      BY DEF w
    <2> QED
      BY <2>1, <2>2
  <1>10. ~IsRed(t, x) /\ \A n \in (S \cup {nil}) \ {x} : IsRed(t, n) <=> IsRed(tree, n)
    BY <1>3, <1>5, <1>9 DEF IsRed
  <1>11. NoRed(t, S, nil)
    <2> SUFFICES ASSUME NEW n \in S, NEW a \in Sides, IsRed(t, n)
                 PROVE  ~IsRed(t, t.kid[a][n])
      BY DEF NoRed
    <2>1. ~IsRed(tree, tree.kid[a][n])
      BY <1>2, <1>10 DEF NoRed, IsRed
    <2> QED
      BY <1>4, <1>9, <1>10, <2>1
  <1>12. NephewFacts(t, S, sub, p, s, b, x)
    <2>1. Kids(t, v) = {}
      BY <1>1, <1>9 DEF Kids
    <2>2. \A n \in S : \A a \in Sides : tree.kid[a][n] # n
      BY <1>4
    <2>3. \A n \in S : \A a \in Sides : tree.kid[a][n] = x => n = b
      BY <1>1, <1>5, <1>6
    <2>4. \A n \in S : \A a \in Sides : tree.kid[a][n] = node => n = p
      BY <1>1, <1>6
    <2>5. ~IsRed(t, b)
      BY <1>1, <1>5, <1>10
    <2>6. /\ p \in S /\ b \in S /\ x \in S /\ v \in S /\ s \in Sides
          /\ p # b /\ p # x /\ b # x /\ v # p /\ v # b /\ v # x
          /\ v \notin stored /\ nil \notin S /\ S \subseteq Keys /\ (~climbed => node = v) /\ node # b
      BY <1>1, <1>2, <1>3, <1>5
    <2>7. /\ t.kid[s][p] = node /\ t.kid[Other(s)][p] = b
          /\ \A n \in S : \A a \in Sides : t.kid[a][n] \in S \cup {nil} /\ t.kid[a][n] # n
          /\ \A n \in S : \A a \in Sides : t.kid[a][n] = x => n = b
          /\ \A n \in S : \A a \in Sides : t.kid[a][n] = node => n = p
          /\ \A a \in Sides : t.kid[a][b] # p /\ t.kid[a][b] # v /\ t.kid[a][x] # p /\ t.kid[a][x] # b
      <3>1. t.kid = tree.kid
        BY <1>9
      <3>2. t.kid[s][p] = node /\ t.kid[Other(s)][p] = b
        BY <1>1, <1>7, <3>1
      <3>3. \A n \in S : \A a \in Sides : t.kid[a][n] \in S \cup {nil} /\ t.kid[a][n] # n
        BY <1>4, <2>2, <3>1
      <3>4. \A n \in S : \A a \in Sides : t.kid[a][n] = x => n = b
        BY <2>3, <3>1
      <3>5. \A n \in S : \A a \in Sides : t.kid[a][n] = node => n = p
        BY <2>4, <3>1
      <3>6. \A a \in Sides : t.kid[a][b] # p /\ t.kid[a][b] # v /\ t.kid[a][x] # p /\ t.kid[a][x] # b
        BY <1>8, <3>1
      <3> QED
        BY <3>2, <3>3, <3>4, <3>5, <3>6
    <2> QED
      BY <1>9, <1>10, <1>11, <2>1, <2>5, <2>6, <2>7 DEF NephewFacts
  <1>13. ASSUME ~climbed
         PROVE  \E h : NephewHeights(t, S, p, b, x, h)
    <2>1. PICK h : Heights(tree, S, h)
      BY <1>2, <1>13 DEF Balanced
    <2>2. /\ h[v] = 1 /\ h[b] = 1 /\ h[p] = 1 + Own(tree, p)
          /\ h \in [Places -> Nat] /\ h[nil] = 0 /\ \A n \in S : HeightAt(tree, h, n)
      <3>1. node = v /\ ~IsRed(tree, v) /\ b \in S \cup {nil}
        BY <1>1, <1>2, <1>13
      <3>2. tree.kid[s][p] = v
        BY <1>7, <3>1
      <3> QED
        BY <1>1, <1>3, <2>1, <3>1, <3>2, BesideLeaf
    <2>3. \A a \in Sides : h[tree.kid[a][b]] = 0
      <3>1. Own(tree, b) = 1 /\ HeightAt(tree, h, b)
        BY <1>1, <2>2 DEF Own
      <3>2. \A a \in Sides : h[tree.kid[a][b]] \in Nat
        BY <1>1, <1>3, <1>4, <2>2 DEF Places
      <3> QED
        BY <2>2, <3>1, <3>2 DEF HeightAt
    <2>4. \A a \in Sides : h[tree.kid[a][x]] = 0
      <3>1. h[x] = 0 /\ HeightAt(tree, h, x) /\ Own(tree, x) \in {0, 1}
        BY <1>5, <2>2, <2>3 DEF Own
      <3>2. \A a \in Sides : h[tree.kid[a][x]] \in Nat
        BY <1>3, <1>4, <1>5, <2>2 DEF Places
      <3> QED
        BY <3>1, <3>2 DEF HeightAt
    <2>5. \A n \in S \ {x} : Own(t, n) = Own(tree, n)
      BY <1>10 DEF Own
    <2>6. ASSUME NEW n \in S \ {x}
          PROVE  HeightAt(t, h, n)
      <3>1. Own(t, n) = Own(tree, n) /\ HeightAt(tree, h, n) /\ t.kid = tree.kid
        BY <1>9, <2>2, <2>5
      <3> QED
        BY <3>1 DEF HeightAt
    <2>7. Own(t, p) = Own(tree, p) /\ \A a \in Sides : h[t.kid[a][b]] = 0 /\ h[t.kid[a][x]] = 0
      BY <1>1, <1>5, <1>9, <2>3, <2>4, <2>5
    <2> QED
      BY <2>2, <2>6, <2>7 DEF NephewHeights
  <1> QED
    BY <1>9, <1>12, <1>13

\* The outer nephew: one rotation at the parent.
LEMMA BorrowOuter ==
    ASSUME NEW t, NEW S, NEW sub, NEW p, NEW s, NEW b, NEW x, NephewFacts(t, S, sub, p, s, b, x),
           x = t.kid[Other(s)][b], NEW u, u = Rotate(t, p, s)
    PROVE  /\ NoRed(u, S, nil)
           /\ ~climbed => \A h : NephewHeights(t, S, p, b, x, h) => \E k : Heights(u, stored, k) /\ k[victim] = 0
  <1> DEFINE v == victim
  <1>1. b = t.kid[Other(s)][p] /\ b # nil /\ s \in Sides /\ p \in S /\ TreeOK(t, S, sub, v)
    BY DEF NephewFacts
  <1>2. NoRed(u, S, nil)
    BY <1>1, RotateBlackUp DEF NephewFacts
  <1>3. ASSUME ~climbed, NEW h, NephewHeights(t, S, p, b, x, h)
        PROVE  \E k : Heights(u, stored, k) /\ k[v] = 0
    <2> DEFINE h1 == [h EXCEPT ![v] = 0, ![x] = 1]
               k == [h1 EXCEPT ![p] = 1, ![b] = h[p]]
    <2>1. /\ h \in [Places -> Nat] /\ h[nil] = 0 /\ h[v] = 1 /\ h[b] = 1 /\ h[p] = 1 + Own(t, p)
          /\ \A a \in Sides : h[t.kid[a][b]] = 0 /\ h[t.kid[a][x]] = 0
          /\ \A n \in S \ {x} : HeightAt(t, h, n)
      BY <1>3 DEF NephewHeights
    <2>2. /\ p # b /\ p # x /\ b # x /\ v # p /\ v # b /\ v # x /\ nil \notin S /\ S \subseteq Keys
          /\ p \in S /\ b \in S /\ x \in S /\ v \in S /\ node = v
          /\ \A n \in S : \A a \in Sides : t.kid[a][n] \in S \cup {nil} /\ t.kid[a][n] # n
      BY <1>3 DEF NephewFacts
    <2>3. /\ h1 \in [Places -> Nat] /\ h1[nil] = 0 /\ h1[v] = 0 /\ h1[x] = 1
          /\ \A n \in (S \cup {nil}) \ {v, x} : h1[n] = h[n]
      BY <2>1, <2>2 DEF Places
    <2> HIDE DEF h1
    <2>4. /\ k \in [Places -> Nat] /\ k[nil] = 0 /\ k[p] = 1 /\ k[b] = h[p]
          /\ \A n \in (S \cup {nil}) \ {p, b} : k[n] = h1[n]
      BY <2>1, <2>2, <2>3 DEF Places
    <2> HIDE DEF k
    <2>5. ASSUME NEW n \in stored \ {p, b}, NEW a \in Sides
          PROVE  h1[n] = h1[t.kid[a][n]] + Own(t, n)
      <3>1. n \in S /\ n # v
        BY DEF NephewFacts
      <3>2. t.kid[a][n] \in S \cup {nil} /\ t.kid[a][n] # x /\ t.kid[a][n] # v
        BY <2>2, <3>1 DEF NephewFacts
      <3>3. h1[t.kid[a][n]] = h[t.kid[a][n]]
        BY <2>3, <3>2
      <3>4. CASE n = x
        BY <2>1, <2>3, <3>3, <3>4 DEF NephewFacts, Own
      <3>5. CASE n # x
        BY <2>1, <2>3, <3>1, <3>3, <3>5 DEF HeightAt
      <3> QED
        BY <3>4, <3>5
    <2>6. Own(t, b) = 1 /\ t.kid[s][p] = v /\ Own(t, p) \in {0, 1}
      BY <2>2 DEF NephewFacts, Own
    <2>7. k[t.kid[s][b]] = 0
      <3>1. t.kid[s][b] # t.kid[Other(s)][b]
        <4>1. NodeOK(t, S, sub, b) /\ x \in sub[x]
          BY <1>1, <2>2, OwnPart DEF TreeOK, Shape
        <4>2. sub[t.kid[s][b]] \cap sub[x] = {}
          BY <1>1, <4>1, NodeSides
        <4> QED
          BY <4>1, <4>2
      <3>2. t.kid[s][b] \in S \cup {nil} /\ t.kid[s][b] \notin {x, v, p, b} /\ h[t.kid[s][b]] = 0
        BY <1>1, <2>1, <2>2, <3>1 DEF NephewFacts
      <3> QED
        BY <2>3, <2>4, <3>2
    <2>8. k[v] = 0 /\ k[x] = 1
      BY <2>2, <2>3, <2>4
    <2>9. /\ k[p] = k[t.kid[s][p]] + Own(t, b) /\ k[p] = k[t.kid[s][b]] + Own(t, b)
          /\ k[b] = k[p] + Own(t, p) /\ k[b] = k[t.kid[Other(s)][b]] + Own(t, p)
      BY <2>1, <2>4, <2>6, <2>7, <2>8
    <2>10. stored \in SUBSET S /\ \A n \in stored \ {p, b} : HeightAt(t, h1, n)
      BY <2>5 DEF NephewFacts, HeightAt
    <2>11. k[b] = h1[p]
      BY <2>2, <2>3, <2>4
    <2> PICK Q \in SUBSET S : Q = stored
      BY <2>10
    <2>12. \A n \in Q \ {p, b} : HeightAt(t, h1, n)
      BY <2>10
    <2>13. Heights(u, Q, k)
      BY <1>1, <2>4, <2>9, <2>11, <2>12, RotateHeights
    <2> QED
      BY <2>8, <2>13
  <1> QED
    BY <1>2, <1>3

\* The inner nephew: a rotation at the brother first, which leaves the parent
\* and the nephew out of balance.
LEMMA BorrowInner ==
    ASSUME NEW t, NEW S, NEW sub, NEW p, NEW s, NEW b, NEW x, NephewFacts(t, S, sub, p, s, b, x),
           x = t.kid[s][b], t.kid[Other(s)][b] = nil,
           NEW w, w = Rotate(t, b, Other(s)), NEW u, u = Rotate(w, p, s)
    PROVE  /\ NoRed(u, S, nil)
           /\ ~climbed => \A h : NephewHeights(t, S, p, b, x, h) => \E k : Heights(u, stored, k) /\ k[victim] = 0
  <1> DEFINE v == victim
             o == Other(s)
  <1>1. /\ s \in Sides /\ p \in S /\ b \in S /\ TreeOK(t, S, sub, v) /\ o \in Sides /\ Other(o) = s
        /\ x # nil /\ p # nil /\ b # nil
        /\ p # b /\ p # x /\ b # x /\ v # p /\ v # b /\ v # x
        /\ nil \notin S /\ S \subseteq Keys /\ x \in S /\ v \in S
    BY SideFacts DEF NephewFacts
  <1>2. t.kid[o][p] = b /\ t.kid[s][p] = node /\ t.kid[o][b] = nil /\ t.kid[s][b] = x
    BY DEF NephewFacts
  <1>3. /\ NoRed(t, S, nil) /\ ~IsRed(t, b) /\ ~IsRed(t, x)
        /\ \A n \in S : \A a \in Sides : t.kid[a][n] \in S \cup {nil} /\ t.kid[a][n] # n
        /\ \A a \in Sides : t.kid[a][b] # p /\ t.kid[a][b] # v /\ t.kid[a][x] # p /\ t.kid[a][x] # b
    BY DEF NephewFacts
  <1>4. /\ \A n \in S : \A a \in Sides : t.kid[a][n] = x => n = b
        /\ \A n \in S : \A a \in Sides : t.kid[a][n] = node => n = p
        /\ (~climbed => node = v) /\ S = stored \cup {v} /\ v \notin stored
    BY DEF NephewFacts
  <1> HIDE DEF o
  <1> DEFINE m == t.kid[o][x]
  <1>5. /\ \A n \in S \ {b, x} : \A a \in Sides :
               w.kid[a][n] = IF t.kid[a][n] = b THEN x ELSE t.kid[a][n]
        /\ w.kid[o][x] = b /\ w.kid[s][x] = t.kid[s][x]
        /\ \A n : n \in S \cup {nil} => (n # b /\ n # x => (IsRed(w, n) <=> IsRed(t, n)))
        /\ IsRed(w, x) <=> IsRed(t, b)
        /\ IsRed(w, b) <=> IsRed(t, x)
    <2>1. w = Rotate(t, b, o) /\ m = t.kid[o][x] /\ s = Other(o)
      BY <1>1 DEF o
    <2> HIDE DEF m
    <2> QED
      BY <1>1, <1>2, <2>1, RotateFields
  <1>6. node # b
    BY DEF NephewFacts
  <1>7. w.kid[s][p] = node /\ w.kid[o][p] = x
    BY <1>1, <1>2, <1>5, <1>6
  <1>8. PICK sub2 : TreeOK(w, S, sub2, v)
    <2>1. x = t.kid[Other(o)][b]
      BY <1>1, <1>2
    <2>2. \E sub2 : TreeOK(Rotate(t, b, o), S, sub2, v)
      BY <1>1, <2>1, RotateKeeps
    <2> QED
      BY <2>2 DEF o
  <1>9. NoRed(w, S, nil)
    <2>1. x = t.kid[Other(o)][b] /\ w = Rotate(t, b, o)
      BY <1>1, <1>2 DEF o
    <2> QED
      BY <1>1, <1>3, <2>1, RotateUnderBlack
  <1>10. NoRed(u, S, nil)
    <2>1. x = w.kid[Other(s)][p] /\ ~IsRed(w, x) /\ ~IsRed(w, w.kid[Other(s)][x])
      BY <1>3, <1>5, <1>7 DEF o
    <2> QED
      BY <1>1, <1>8, <1>9, <2>1, RotateBlackUp
  <1>11. ASSUME ~climbed, NEW h, NephewHeights(t, S, p, b, x, h)
         PROVE  \E k : Heights(u, stored, k) /\ k[v] = 0
    <2>0. node = v
      BY <1>4, <1>11
    <2> DEFINE h1 == [h EXCEPT ![v] = 0]
               k1 == [h1 EXCEPT ![x] = 1]
               k2 == [k1 EXCEPT ![p] = 1, ![x] = h[p]]
    <2>1. /\ h \in [Places -> Nat] /\ h[nil] = 0 /\ h[v] = 1 /\ h[b] = 1 /\ h[p] = 1 + Own(t, p)
          /\ \A a \in Sides : h[t.kid[a][b]] = 0 /\ h[t.kid[a][x]] = 0
          /\ \A n \in S \ {x} : HeightAt(t, h, n)
      BY <1>11 DEF NephewHeights
    <2>2. /\ h1 \in [Places -> Nat] /\ h1[nil] = 0 /\ h1[v] = 0
          /\ \A n \in (S \cup {nil}) \ {v} : h1[n] = h[n]
      BY <1>1, <2>1 DEF Places
    <2> HIDE DEF h1
    <2>3. /\ k1 \in [Places -> Nat] /\ k1[nil] = 0 /\ k1[x] = 1
          /\ \A n \in (S \cup {nil}) \ {x} : k1[n] = h1[n]
      BY <1>1, <2>2 DEF Places
    <2> HIDE DEF k1
    <2>4. /\ k2 \in [Places -> Nat] /\ k2[nil] = 0 /\ k2[p] = 1 /\ k2[x] = h[p]
          /\ \A n \in (S \cup {nil}) \ {p, x} : k2[n] = k1[n]
      BY <1>1, <2>1, <2>3 DEF Places
    <2> HIDE DEF k2
    <2>5. Own(t, b) = 1 /\ Own(t, x) = 1 /\ Own(w, x) = 1 /\ Own(w, p) = Own(t, p) /\ Own(t, p) \in {0, 1}
      BY <1>1, <1>3, <1>5 DEF Own
    <2>6. \A a \in Sides : /\ t.kid[a][x] \in S \cup {nil}
                           /\ t.kid[a][x] \notin {x, p, b, v} /\ h[t.kid[a][x]] = 0
      BY <1>1, <1>3, <1>4, <2>0, <2>1
    <2>7. \A a \in Sides : k1[t.kid[a][x]] = 0 /\ k2[t.kid[a][x]] = 0
      BY <2>2, <2>3, <2>4, <2>6
    <2>8. /\ k1[b] = 1 /\ k2[b] = 1 /\ k1[p] = h[p] /\ k2[v] = 0 /\ h1[b] = 1
      BY <1>1, <2>1, <2>2, <2>3, <2>4
    <2>9. ASSUME NEW n \in stored \ {p, x}
          PROVE  HeightAt(t, h1, n)
      <3>1. n \in S /\ n # v /\ HeightAt(t, h, n)
        BY <1>4, <2>1
      <3>2. \A a \in Sides : t.kid[a][n] \in S \cup {nil} /\ t.kid[a][n] # v
        BY <1>3, <1>4, <2>0, <3>1
      <3>3. h1[n] = h[n] /\ \A a \in Sides : h1[t.kid[a][n]] = h[t.kid[a][n]]
        BY <2>2, <3>1, <3>2
      <3> QED
        BY <3>1, <3>3 DEF HeightAt
    <2>10. \A n \in stored \ {p, x} : HeightAt(w, k1, n)
      <3> PICK Q \in SUBSET S : Q = stored \ {p, x}
        BY <1>4
      <3>1. /\ x = t.kid[Other(o)][b] /\ w = Rotate(t, b, o)
        BY <1>1, <1>2 DEF o
      <3>2. /\ \A n \in Q \ {b, x} : HeightAt(t, h1, n)
            /\ k1[x] = h1[b] /\ \A n \in (S \cup {nil}) \ {b, x} : k1[n] = h1[n]
            /\ x \notin Q
        BY <2>3, <2>8, <2>9
      <3>3. k1[b] = k1[t.kid[o][b]] + Own(t, x) /\ k1[b] = k1[t.kid[o][x]] + Own(t, x)
        BY <1>1, <1>2, <2>3, <2>5, <2>7, <2>8
      <3>4. Heights(w, Q, k1)
        BY <1>1, <2>3, <3>1, <3>2, <3>3, RotateHeights
      <3> QED
        BY <3>4 DEF Heights
    <2>11. /\ k2[p] = k2[w.kid[s][p]] + Own(w, x) /\ k2[p] = k2[w.kid[s][x]] + Own(w, x)
      BY <1>1, <1>5, <1>7, <2>0, <2>4, <2>5, <2>7, <2>8
    <2>12. /\ k2[x] = k2[p] + Own(w, p) /\ k2[x] = k2[w.kid[o][x]] + Own(w, p)
      BY <1>5, <2>1, <2>4, <2>5, <2>8
    <2> PICK Q \in SUBSET S : Q = stored
      BY <1>4
    <2>13. Heights(u, Q, k2)
      <3>1. x = w.kid[Other(s)][p]
        BY <1>7 DEF o
      <3>2. k2[x] = k2[p] + Own(w, p) /\ k2[x] = k2[w.kid[Other(s)][x]] + Own(w, p)
        BY <2>12 DEF o
      <3>3. /\ \A n \in Q \ {p, x} : HeightAt(w, k1, n)
            /\ k2[x] = k1[p]
        BY <2>4, <2>8, <2>10
      <3> QED
        BY <1>1, <1>8, <2>4, <2>11, <3>1, <3>2, <3>3, RotateHeights
    <2> QED
      BY <2>8, <2>13
  <1> QED
    BY <1>10, <1>11

LEMMA DeleteBorrowBalance ==
    ASSUME NEW sub, pc = "delete", Deleting(sub), BalanceInv, DeleteBorrow
    PROVE  BalanceInv'
  <1> DEFINE S == stored \cup {victim}
             p == tree.parent[node]
             s == SideOf(tree, node)
             o == Other(s)
             b == Brother
             v == victim
             outer == tree.kid[o][b]
             inner == tree.kid[s][b]
             x == IF outer # nil THEN outer ELSE inner
             t == Blackened(tree, {x})
             w == Rotate(t, b, o)
             u == IF outer # nil THEN Rotate(t, p, s) ELSE Rotate(w, p, s)
  <1>1. /\ node # tree.root /\ b # nil /\ ~IsRed(tree, b) /\ Kids(tree, b) # {} /\ stored' = stored
        /\ climbed' = climbed /\ Finish(u)
    BY DEF DeleteBorrow, Fixing, BlackBrother, Nephew
  <1>2. x \in Kids(tree, b) /\ s \in Sides
    <2>1. /\ s \in Sides /\ o \in Sides /\ \A a \in Sides : a = s \/ a = o
      BY <1>1, Brothers, SideFacts
    <2> HIDE DEF s, o, b
    <2>2. inner # nil \/ outer # nil
      BY <1>1, <2>1 DEF Kids
    <2> QED
      BY <2>1, <2>2 DEF Kids
  <1> HIDE DEF x, t, u
  <1>3. /\ NephewFacts(t, S, sub, p, s, b, x) /\ t.kid = tree.kid
        /\ ~climbed => \E h : NephewHeights(t, S, p, b, x, h)
    <2>1. t = Blackened(tree, {x})
      BY DEF t
    <2> HIDE DEF S, p, s, o, b
    <2>2. p = tree.parent[node] /\ s = SideOf(tree, node) /\ b = Brother /\ S = stored \cup {victim}
      BY DEF p, s, b, S
    <2> QED
      BY <1>1, <1>2, <2>1, <2>2, NephewMade
  <1>4. b = tree.kid[o][p] /\ o = Other(s)
    BY DEF Brother
  <1> HIDE DEF S, p, s, o, b
  <1>5. /\ NoRed(u, S, nil)
        /\ ~climbed => \A h : NephewHeights(t, S, p, b, x, h) => \E k : Heights(u, stored, k) /\ k[victim] = 0
    <2>1. CASE outer # nil
      <3>1. x = t.kid[Other(s)][b] /\ u = Rotate(t, p, s)
        BY <1>3, <1>4, <2>1 DEF x, u
      <3> QED
        BY <1>3, <3>1, BorrowOuter
    <2>2. CASE outer = nil
      <3>1. x = t.kid[s][b] /\ t.kid[Other(s)][b] = nil /\ w = Rotate(t, b, Other(s)) /\ u = Rotate(w, p, s)
        BY <1>3, <1>4, <2>2 DEF x, u
      <3> HIDE DEF w
      <3> QED
        BY <1>3, <3>1, BorrowInner
    <2> QED
      BY <2>1, <2>2
  <1>6. \E sub2 : TreeOK(u, S, sub2, v) /\ Kids(u, v) = {}
    <2>1. /\ TreeOK(t, S, sub, v) /\ p \in S /\ s \in Sides /\ b \in S /\ x \in S /\ v \in S
          /\ p # b /\ p # x /\ b # x /\ v # p /\ v # b /\ v # x /\ t.kid[o][p] = b /\ Kids(t, v) = {}
          /\ nil \notin S /\ o \in Sides /\ Other(o) = s /\ p # nil /\ b # nil /\ x # nil
      BY <1>3, <1>4, SideFacts DEF NephewFacts
    <2>2. CASE outer # nil
      <3>1. u = Rotate(t, p, s)
        BY <2>2 DEF u
      <3>2. \E sub2 : TreeOK(u, S, sub2, v)
        BY <1>4, <2>1, <3>1, RotateKeeps
      <3>3. Kids(u, v) = {}
        BY <1>4, <2>1, <3>1, RotateMore
      <3> QED
        BY <3>2, <3>3
    <2>3. CASE outer = nil
      <3>1. u = Rotate(w, p, s) /\ x = t.kid[Other(o)][b]
        BY <1>3, <2>1, <2>3 DEF x, u
      <3>2. PICK sub2 : TreeOK(w, S, sub2, v)
        BY <2>1, <3>1, RotateKeeps
      <3>3. /\ \A z \in S \ {b, x} : \A a \in Sides : t.kid[a][z] = b => w.kid[a][z] = x
            /\ Kids(w, v) = {}
        BY <2>1, <3>1, RotateMore
      <3> HIDE DEF w
      <3>4. w.kid[o][p] = x
        BY <2>1, <3>3
      <3>5. \E sub3 : TreeOK(u, S, sub3, v)
        BY <1>4, <2>1, <3>1, <3>2, <3>4, RotateKeeps
      <3>6. Kids(u, v) = {}
        BY <1>4, <2>1, <3>1, <3>2, <3>3, <3>4, RotateMore
      <3> QED
        BY <3>5, <3>6
    <2> QED
      BY <2>2, <2>3
  <1>7. PICK sub2 : TreeOK(u, S, sub2, v) /\ Kids(u, v) = {}
    BY <1>6
  <1>8. v \notin stored /\ S = stored \cup {victim}
    BY <1>3 DEF NephewFacts
  <1> QED
    BY <1>1, <1>3, <1>5, <1>7, <1>8, FinishBalance

-----------------------------------------------------------------------------
(* The red-black rules.                                                    *)

IsCount(w, t) ==
    w = [n \in Keys \cup {nil} |->
            IF n = nil THEN {0}
            ELSE {i + Own(t, n) : i \in w[t.kid["left"][n]] \cup w[t.kid["right"][n]]}]

LEMMA CountExists ==
    ASSUME NEW t, NEW d, NEW b, Downward(t, d, b)
    PROVE  \E w : IsCount(w, t)
  <1> DEFINE V == SUBSET Nat
             base == {0}
             E == [n \in Keys |-> [x \in V |-> [y \in V |-> {i + Own(t, n) : i \in x \cup y}]]]
  <1>1. \A n \in Keys : Own(t, n) \in Nat
    BY DEF Own
  <1>2. \A n \in Keys : \A x, y \in V : {i + Own(t, n) : i \in x \cup y} \in V
    BY <1>1
  <1>3. \A n \in Keys : \A x, y \in V : E[n][x][y] = {i + Own(t, n) : i \in x \cup y}
    OBVIOUS
  <1>4. E \in [Keys -> [V -> [V -> V]]] /\ base \in V
    <2> DEFINE F(n) == [x \in V |-> [y \in V |-> {i + Own(t, n) : i \in x \cup y}]]
    <2>1. ASSUME NEW n \in Keys
          PROVE  F(n) \in [V -> [V -> V]]
      <3>1. ASSUME NEW x \in V
            PROVE  [y \in V |-> {i + Own(t, n) : i \in x \cup y}] \in [V -> V]
        BY <1>2
      <3> HIDE DEF V
      <3> QED
        BY <3>1
    <2>2. E = [n \in Keys |-> F(n)]
      OBVIOUS
    <2> HIDE DEF E, F, V
    <2>3. E \in [Keys -> [V -> [V -> V]]]
      BY <2>1, <2>2
    <2> QED
      BY <2>3 DEF V
  <1> HIDE DEF E, V, base
  <1>5. PICK f \in [Places -> V] : IsComputed(f, t, base, E)
    BY <1>4, Computed
  <1>6. ASSUME NEW n \in Keys
        PROVE  E[n][f[t.kid["left"][n]]][f[t.kid["right"][n]]]
                   = {i + Own(t, n) : i \in f[t.kid["left"][n]] \cup f[t.kid["right"][n]]}
    <2>1. t.kid["left"][n] \in Places /\ t.kid["right"][n] \in Places
      BY SideFacts DEF Downward, Trees
    <2>2. f[t.kid["left"][n]] \in V /\ f[t.kid["right"][n]] \in V
      BY <2>1
    <2> QED
      BY <1>3, <2>2
  <1>7. f = [n \in Places |-> IF n = nil THEN {0} ELSE E[n][f[t.kid["left"][n]]][f[t.kid["right"][n]]]]
    BY <1>5 DEF IsComputed, base
  <1>8. IsCount(f, t)
    BY <1>6, <1>7 DEF IsCount, Places
  <1> QED
    BY <1>8

\* Equal heights on both sides of every node: one count of black nodes.
LEMMA CountOne ==
    ASSUME NEW t, NEW S, NEW sub, Shape(t, S, sub), NEW d, NEW b, Downward(t, d, b), NEW h, Heights(t, S, h)
    PROVE  Cardinality(BlackHeights(t)) = 1
  <1> DEFINE w == CHOOSE f : IsCount(f, t)
  <1>1. IsCount(w, t)
    BY CountExists
  <1>2. BlackHeights(t) = w[t.root]
    BY DEF BlackHeights, w, IsCount, Own
  <1> HIDE DEF w
  <1> DEFINE G == {x \in S \cup {nil} : w[x] = {h[x]}}
  <1>3. nil \in G
    BY <1>1 DEF IsCount, Heights
  <1>4. ASSUME NEW n \in S, \A s \in Sides : t.kid[s][n] \in G
        PROVE  n \in G
    <2>1. n \in Keys /\ n # nil
      BY KeyFacts DEF Shape, Rooted
    <2>2. w[n] = {i + Own(t, n) : i \in w[t.kid["left"][n]] \cup w[t.kid["right"][n]]}
      BY <1>1, <2>1 DEF IsCount
    <2>3. w[t.kid["left"][n]] = {h[t.kid["left"][n]]} /\ w[t.kid["right"][n]] = {h[t.kid["right"][n]]}
      BY <1>4, SideFacts
    <2>4. h[n] = h[t.kid["left"][n]] + Own(t, n) /\ h[n] = h[t.kid["right"][n]] + Own(t, n)
      BY SideFacts DEF Heights, HeightAt
    <2>5. w[n] = {h[n]}
      BY <2>2, <2>3, <2>4
    <2> QED
      BY <2>5
  <1> HIDE DEF G
  <1>5. S \subseteq G
    BY <1>3, <1>4, BottomUp
  <1>6. t.root \in G
    BY <1>3, <1>5 DEF Shape, Rooted
  <1>7. BlackHeights(t) = {h[t.root]}
    BY <1>2, <1>6 DEF G
  <1> QED
    BY <1>7, FS_Singleton

\* A step that leaves alone what the balance speaks of.
LEMMA StillBalanced ==
    ASSUME BalanceInv, UNCHANGED <<tree, pc, node, victim, stored, climbed>>
    PROVE  BalanceInv'
  BY DEF BalanceInv, Calm

LEMMA BalanceInit == Init => BalanceInv
  BY EmptyBalance DEF Init, BalanceInv, Calm

LEMMA BalanceNext == TreeInv /\ BalanceInv /\ [Next]_vars => BalanceInv'
  <1> SUFFICES ASSUME TreeInv, BalanceInv, [Next]_vars
               PROVE  BalanceInv'
    OBVIOUS
  <1>1. ASSUME pc = "idle"
        PROVE  \E sub : Idle(sub)
    BY <1>1 DEF TreeInv
  <1>2. ASSUME pc = "insert"
        PROVE  \E sub : Inserting(sub)
    BY <1>2 DEF TreeInv
  <1>3. ASSUME pc = "delete"
        PROVE  \E sub : Deleting(sub)
    BY <1>3 DEF TreeInv
  <1>4. CASE InsertRecolor
    BY <1>2, <1>4, InsertRecolorBalance DEF InsertRecolor, Fixing
  <1>5. CASE InsertRotate
    BY <1>2, <1>5, InsertRotateBalance DEF InsertRotate, Fixing
  <1>6. CASE InsertDone
    BY <1>2, <1>6, InsertDoneBalance DEF InsertDone, Fixing
  <1>7. CASE DeleteAtRoot
    <2>1. stored' = {} /\ pc' = "idle"
      BY <1>7 DEF DeleteAtRoot, Finish
    <2> QED
      BY <2>1, EmptyBalance DEF BalanceInv, Calm
  <1>8. CASE DeleteRedBrother
    BY <1>3, <1>8, DeleteRedBrotherBalance DEF DeleteRedBrother, Fixing
  <1>9. CASE DeleteBorrow
    BY <1>3, <1>9, DeleteBorrowBalance DEF DeleteBorrow, Fixing
  <1>10. CASE DeleteRecolor
    BY <1>3, <1>10, DeleteRecolorBalance DEF DeleteRecolor, Fixing
  <1>11. CASE Crash
    BY <1>3, <1>11, CrashBalance DEF Crash, Fixing
  <1>12. CASE Free
    BY <1>12, StillBalanced DEF Free
  <1>13. CASE FreeDone
    <2>1. stored' = {} /\ pc' = "idle"
      BY <1>13 DEF FreeDone
    <2> QED
      BY <2>1, EmptyBalance DEF BalanceInv, Calm
  <1>14. ASSUME NEW key \in Keys, Insert(key)
         PROVE  BalanceInv'
    BY <1>1, <1>14, InsertBalance DEF Insert
  <1>15. ASSUME NEW key \in Keys, Delete(key)
         PROVE  BalanceInv'
    BY <1>1, <1>15, DeleteBalance DEF Delete
  <1>16. CASE UNCHANGED vars
    BY <1>16, StillBalanced DEF vars
  <1> QED
    BY <1>4, <1>5, <1>6, <1>7, <1>8, <1>9, <1>10, <1>11, <1>12, <1>13, <1>14, <1>15, <1>16 DEF Next, Fixup

LEMMA BalanceKept == Spec => [](TreeInv /\ BalanceInv)
  BY TreeInit, TreeNext, BalanceInit, BalanceNext, PTL DEF Spec

\* From the time the tree was last empty until a deletion climbs a level, the
\* tree at rest has a black root, no red node under a red one and the same
\* number of black nodes on every path, and no fixup meets a node without a
\* brother (c:163-224, c:289-362).
THEOREM RulesKept == Spec => []RulesUntilClimb
  <1>1. TreeInv /\ BalanceInv => RulesUntilClimb
    <2> SUFFICES ASSUME TreeInv, BalanceInv, ~climbed, pc = "idle"
                 PROVE  RedBlackRules
      BY DEF RulesUntilClimb, BalanceInv
    <2>1. PICK sub : Idle(sub)
      BY DEF TreeInv
    <2>2. /\ Shape(tree, stored, sub) /\ Ordered(tree, stored, sub, nil) /\ OutsideOK(tree, stored)
          /\ ~IsRed(tree, tree.root)
      BY <2>1 DEF Idle, TreeOK, BlankOutside, BlankAt, OutsideOK
    <2>3. PICK d, b : Downward(tree, d, b)
      BY <2>2, TreeDown
    <2>4. KeysOf(tree) = stored
      BY <2>2, <2>3, InOrderLists
    <2>5. NoRed(tree, stored, nil) /\ Balanced(tree, stored)
      BY DEF BalanceInv, Calm
    <2>6. PICK h : Heights(tree, stored, h)
      BY <2>5 DEF Balanced
    <2>7. Cardinality(BlackHeights(tree)) = 1
      BY <2>2, <2>3, <2>6, CountOne
    <2>8. \A n \in stored : IsRed(tree, n) => \A m \in Kids(tree, n) : ~IsRed(tree, m)
      BY <2>5 DEF NoRed, Kids
    <2> QED
      BY <2>2, <2>4, <2>7, <2>8 DEF RedBlackRules
  <1> QED
    BY <1>1, BalanceKept, PTL

-----------------------------------------------------------------------------
(* The rounds of the fixups.                                               *)

IsLevels(f, t) == f = [m \in Keys \cup {nil} |-> IF m = nil THEN 0 ELSE 1 + f[t.parent[m]]]

\* The parent pointers lead upwards: they are the child pointers of a tree that
\* is read from its leaves.
LEMMA LevelsExist ==
    ASSUME NEW t, NEW S, NEW sub, NEW v, TreeOK(t, S, sub, v)
    PROVE  \E f \in [Places -> Nat] : IsLevels(f, t)
  <1>1. Shape(t, S, sub) /\ BlankOutside(t, S) /\ t \in Trees /\ S \subseteq Keys /\ nil \notin Keys
    BY KeyFacts DEF TreeOK, Shape, Rooted
  <1> DEFINE b == Cardinality(S)
             d == [n \in Keys |-> IF n \in S THEN b - Cardinality(sub[n]) ELSE 0]
             k == [s \in Sides |-> t.parent]
             r == [t EXCEPT !.kid = k]
             E == [n \in Keys |-> [x \in Nat |-> [y \in Nat |-> 1 + x]]]
  <1>2. b \in Nat /\ \A n \in S : Cardinality(sub[n]) \in 0 .. b
    BY <1>1, ShapeDown
  <1>3. k \in [Sides -> [Keys -> Places]] /\ \A s \in Sides : k[s] = t.parent
    BY <1>1, TreeFields
  <1> HIDE DEF k
  <1>4. r \in Trees /\ r.kid = k
    BY <1>1, <1>3, TreeFields
  <1> HIDE DEF b, r
  <1>5. d \in [Keys -> 0 .. b] /\ \A n \in Keys : d[n] = IF n \in S THEN b - Cardinality(sub[n]) ELSE 0
    BY <1>2
  <1> HIDE DEF d
  <1>6. ASSUME NEW n \in Keys, NEW s \in Sides, r.kid[s][n] # nil
        PROVE  d[r.kid[s][n]] < d[n]
    <2>1. r.kid[s][n] = t.parent[n]
      BY <1>3, <1>4
    <2>2. n \in S
      BY <1>1, <1>6, <2>1 DEF BlankOutside, BlankAt
    <2>3. n # t.root
      BY <1>1, <1>6, <2>1, <2>2, OneParent
    <2>4. t.parent[n] \in S /\ SideOf(t, n) \in Sides /\ t.kid[SideOf(t, n)][t.parent[n]] = n
      BY <1>1, <2>2, <2>3, OneParent
    <2>5. Cardinality(sub[n]) < Cardinality(sub[t.parent[n]])
      <3> DEFINE q == t.parent[n]
                 e == SideOf(t, n)
      <3>1. q \in S /\ e \in Sides /\ t.kid[e][q] = n /\ n # nil
        BY <1>1, <2>2, <2>4
      <3> HIDE DEF q, e
      <3>2. Cardinality(sub[n]) < Cardinality(sub[q])
        BY <1>1, <3>1, ShapeDown
      <3> QED
        BY <3>2 DEF q
    <2> QED
      BY <1>1, <1>2, <1>5, <2>1, <2>2, <2>4, <2>5
  <1>7. Downward(r, d, b)
    BY <1>2, <1>4, <1>5, <1>6 DEF Downward
  <1>8. E \in [Keys -> [Nat -> [Nat -> Nat]]] /\ \A n \in Keys : \A x, y \in Nat : E[n][x][y] = 1 + x
    OBVIOUS
  <1> HIDE DEF E
  <1> DEFINE base == 0
  <1> HIDE DEF base
  <1>9. PICK f \in [Places -> Nat] : IsComputed(f, r, base, E)
    <2>1. base \in Nat
      BY DEF base
    <2> QED
      BY <1>7, <1>8, <2>1, Computed
  <1>10. ASSUME NEW n \in Keys
         PROVE  E[n][f[r.kid["left"][n]]][f[r.kid["right"][n]]] = 1 + f[t.parent[n]]
    <2> DEFINE q == t.parent[n]
    <2>1. r.kid["left"][n] = q /\ r.kid["right"][n] = q /\ q \in Places
      BY <1>1, <1>3, <1>4, SideFacts, TreeFields
    <2> HIDE DEF q
    <2> DEFINE a == f[q]
    <2>2. a \in Nat
      BY <2>1
    <2> HIDE DEF a
    <2>3. E[n][a][a] = 1 + a
      BY <1>8, <2>2
    <2> QED
      BY <2>1, <2>3 DEF a, q
  <1>11. f = [n \in Places |-> IF n = nil THEN base ELSE E[n][f[r.kid["left"][n]]][f[r.kid["right"][n]]]]
    BY <1>9 DEF IsComputed
  <1>12. IsLevels(f, t)
    BY <1>10, <1>11 DEF IsLevels, Places, base
  <1> QED
    BY <1>12

LEMMA DepthIs ==
    ASSUME NEW t, NEW S, NEW sub, NEW v, TreeOK(t, S, sub, v)
    PROVE  /\ Depth(t, nil) = 0
           /\ \A n \in Keys : Depth(t, n) = 1 + Depth(t, t.parent[n])
           /\ \A n \in Places : Depth(t, n) \in Nat
  <1> DEFINE w == CHOOSE f : IsLevels(f, t)
  <1>1. IsLevels(w, t)
    BY LevelsExist
  <1>2. \A n : Depth(t, n) = w[n]
    BY DEF Depth, w, IsLevels
  <1> HIDE DEF w
  <1>3. Depth(t, nil) = 0 /\ \A n \in Keys : Depth(t, n) = 1 + Depth(t, t.parent[n])
    BY <1>1, <1>2, KeyFacts DEF IsLevels
  <1>4. \A n \in Places : Depth(t, n) \in Nat
    <2>1. PICK f \in [Places -> Nat] : IsLevels(f, t)
      BY LevelsExist
    <2> DEFINE bad == {n \in Places : w[n] # f[n]}
               R == {f[n] : n \in bad}
    <2> SUFFICES ASSUME bad # {} PROVE FALSE
      BY <1>2
    <2>7. R \in SUBSET Nat /\ R # {}
      BY <2>1
    <2>2. PICK i \in R : \A j \in R : i <= j
      BY <2>7, LeastExists
    <2>3. PICK n \in Places : w[n] # f[n] /\ \A x \in bad : f[n] <= f[x]
      BY <2>2
    <2>4. n \in Keys /\ t.parent[n] \in Places
      BY <1>1, <2>1, <2>3, TreeFields DEF IsLevels, Places, TreeOK, Shape, Rooted
    <2>5. f[n] = 1 + f[t.parent[n]] /\ w[n] = 1 + w[t.parent[n]]
      BY <1>1, <2>1, <2>4, KeyFacts DEF IsLevels
    <2>6. f[t.parent[n]] \in Nat
      BY <2>1, <2>4
    <2> QED
      BY <2>3, <2>4, <2>5, <2>6
  <1> QED
    BY <1>3, <1>4

\* A change of the tree below the nodes of A.
LEMMA SameAbove ==
    ASSUME NEW t, NEW S, NEW sub, NEW v, TreeOK(t, S, sub, v),
           NEW u, NEW sub2, TreeOK(u, S, sub2, v), NEW A, A \subseteq Places,
           \A x \in A \ {nil} : u.parent[x] = t.parent[x] /\ t.parent[x] \in A
    PROVE  \A x \in A : Depth(u, x) = Depth(t, x)
  <1> DEFINE B == {x \in A : Depth(u, x) # Depth(t, x)}
             R == {Depth(t, x) : x \in B}
  <1> SUFFICES ASSUME B # {} PROVE FALSE
    OBVIOUS
  <1>1. /\ Depth(t, nil) = 0 /\ Depth(u, nil) = 0 /\ \A n \in Places : Depth(t, n) \in Nat /\ Depth(u, n) \in Nat
        /\ \A n \in Keys : Depth(t, n) = 1 + Depth(t, t.parent[n]) /\ Depth(u, n) = 1 + Depth(u, u.parent[n])
    BY DepthIs
  <1>2. PICK i \in R : \A j \in R : i <= j
    BY <1>1, LeastExists
  <1>3. PICK n \in A : Depth(u, n) # Depth(t, n) /\ \A x \in B : Depth(t, n) <= Depth(t, x)
    BY <1>2
  <1>4. n # nil /\ n \in Keys /\ u.parent[n] = t.parent[n] /\ t.parent[n] \in A /\ t.parent[n] \in Places
    BY <1>1, <1>3 DEF Places
  <1> QED
    BY <1>1, <1>3, <1>4

LEMMA DepthRotate ==
    ASSUME NEW t, NEW S, NEW sub, NEW v, TreeOK(t, S, sub, v), NEW p \in S, NEW s \in Sides,
           NEW c, c = t.kid[Other(s)][p], c # nil, v # p, v # c, NEW u, u = Rotate(t, p, s)
    PROVE  /\ \A x \in (S \cup {nil}) \ sub[p] : Depth(u, x) = Depth(t, x)
           /\ Depth(u, c) = Depth(t, p)
  <1> DEFINE m == t.kid[s][c]
             A == (S \cup {nil}) \ sub[p]
             q == t.parent[p]
  <1>1. Shape(t, S, sub) /\ BlankOutside(t, S) /\ S \subseteq Keys /\ nil \notin S /\ sub[p] \subseteq S /\ p \in sub[p]
    BY KeyFacts, OwnPart DEF TreeOK, Shape, Rooted
  <1>2. Turned(t, p, s, c, m, u) /\ c \in S /\ m \in S \cup {nil} /\ c # p
    BY <1>1, RotateTurns
  <1>3. PICK sub2 : TreeOK(u, S, sub2, v)
    BY RotateKeeps
  <1>4. c \in sub[p] /\ (m # nil => m \in sub[p])
    <2>1. NodeOK(t, S, sub, p) /\ NodeOK(t, S, sub, c) /\ c \in sub[c]
      BY <1>1, <1>2, OwnPart DEF Shape
    <2>2. sub[c] \subseteq sub[p] /\ sub[m] \subseteq sub[c]
      BY <2>1, NodeSides
    <2>3. m # nil => m \in sub[m]
      BY <1>1, <1>2, OwnPart
    <2> QED
      BY <2>1, <2>2, <2>3
  <1>5. /\ \A x \in A \ {nil} : u.parent[x] = t.parent[x]
        /\ u.parent[c] = q
    BY <1>1, <1>2, <1>4 DEF Turned
  <1>6. \A x \in A \ {nil} : t.parent[x] \in A
    <2> TAKE x \in A \ {nil}
    <2>1. x = t.root => t.parent[x] = nil
      BY <1>1, OneParent
    <2>2. x # t.root => /\ t.parent[x] \in S /\ sub[x] \subseteq sub[t.parent[x]] /\ x \in sub[x]
      BY <1>1, Family, OwnPart
    <2>3. x # t.root => t.parent[x] \notin sub[p]
      BY <1>1, <2>2, Within
    <2> QED
      BY <1>1, <2>1, <2>2, <2>3
  <1>7. A \subseteq Places
    BY <1>1 DEF Places
  <1>8. q \in A
    <2>1. p = t.root => q = nil
      BY <1>1, OneParent
    <2>2. p # t.root => q \in S /\ q \notin sub[p]
      BY <1>1, Family
    <2> QED
      BY <1>1, <2>1, <2>2
  <1> HIDE DEF A, m, q
  <1>9. \A x \in A : Depth(u, x) = Depth(t, x)
    BY <1>3, <1>5, <1>6, <1>7, SameAbove
  <1>10. Depth(u, c) = 1 + Depth(u, u.parent[c]) /\ Depth(t, p) = 1 + Depth(t, t.parent[p])
    BY <1>1, <1>2, <1>3, DepthIs
  <1>11. Depth(u, c) = Depth(t, p)
    BY <1>5, <1>8, <1>9, <1>10 DEF q
  <1> QED
    BY <1>9, <1>11 DEF A

\* What a further round of a loop gains.
Round ==
    \/ Depth(tree', node') < Depth(tree, node)
    \/ node' = node /\ IsRed(tree, Brother) /\ ~IsRed(tree, Brother)'

LEMMA SameParents ==
    ASSUME NEW t, NEW S, NEW sub, NEW v, TreeOK(t, S, sub, v), NEW u, TreeOK(u, S, sub, v),
           u.parent = t.parent
    PROVE  \A x \in Places : Depth(u, x) = Depth(t, x)
  <1>1. \A x \in Places \ {nil} : u.parent[x] = t.parent[x] /\ t.parent[x] \in Places
    BY TreeFields DEF TreeOK, Shape, Rooted, Places
  <1>2. Places \subseteq Places
    OBVIOUS
  <1> QED
    BY <1>1, <1>2, SameAbove

LEMMA InsertRecolorRound ==
    ASSUME NEW sub, Inserting(sub), InsertRecolor
    PROVE  Round
  <1> DEFINE S == stored
             p == tree.parent[node]
             g == tree.parent[p]
             c == tree.kid[Other(SideOf(tree, p))][g]
             t == Swapped(tree, p, g)
  <1>1. IsRed(tree, p) /\ IsRed(tree, c) /\ tree' = [t EXCEPT !.color[c] = t.color[p]] /\ node' = g
    BY DEF InsertRecolor, Uncle, Up
  <1>2. /\ p \in S /\ p # tree.root /\ g \in S /\ Shape(tree, S, sub) /\ node # tree.root
        /\ TreeOK(tree, S, sub, nil) /\ S \subseteq Keys /\ nil \notin S /\ node \in S
    BY <1>1, RedParent, KeyFacts DEF Inserting, Shape, Rooted
  <1>3. c \in S
    <2>1. c # nil
      BY <1>1 DEF IsRed
    <2> QED
      BY <1>2, <2>1, Family
  <1>4. Depth(tree, node) = 2 + Depth(tree, g) /\ Depth(tree, g) \in Nat
    <2>1. Depth(tree, node) = 1 + Depth(tree, p) /\ Depth(tree, p) = 1 + Depth(tree, g) /\ Depth(tree, g) \in Nat
      BY <1>2, DepthIs DEF Places
    <2> QED
      BY <2>1
  <1> HIDE DEF g, c, p
  <1>5. TreeOK(t, S, sub, nil) /\ t.parent = tree.parent
    BY <1>2, SwappedKeeps
  <1> HIDE DEF t, S
  <1>6. t.color[p] \in {"red", "black"}
    <2>1. t \in Trees /\ p \in Keys
      BY <1>2, <1>5 DEF TreeOK, Shape, Rooted
    <2> QED
      BY <2>1, TreeFields
  <1>7. TreeOK(tree', S, sub, nil) /\ tree'.parent = tree.parent
    <2> PICK u : u = [t EXCEPT !.color[c] = t.color[p]]
      OBVIOUS
    <2>1. TreeOK(u, S, sub, nil) /\ u.parent = t.parent
      BY <1>3, <1>5, <1>6, ColorSet
    <2> QED
      BY <1>1, <1>5, <2>1
  <1>8. Depth(tree', g) = Depth(tree, g)
    BY <1>2, <1>7, SameParents DEF Places
  <1> QED
    BY <1>1, <1>4, <1>8 DEF Round

LEMMA DeleteRecolorRound ==
    ASSUME NEW sub, Deleting(sub), DeleteRecolor, pc' = pc, pc = "delete"
    PROVE  Round
  <1> DEFINE S == stored \cup {victim}
             p == tree.parent[node]
             b == Brother
             v == victim
  <1>1. node # tree.root /\ b # nil /\ tree' = [tree EXCEPT !.color[b] = "red"] /\ node' = p
    BY DEF DeleteRecolor, BlackBrother, Finish
  <1>2. TreeOK(tree, S, sub, v) /\ p \in S /\ b \in S /\ node \in S
    BY <1>1, Brothers
  <1>3. S \subseteq Keys
    BY <1>2 DEF TreeOK, Shape, Rooted
  <1>4. Depth(tree, node) = 1 + Depth(tree, p) /\ Depth(tree, p) \in Nat
    BY <1>2, <1>3, DepthIs DEF Places
  <1> HIDE DEF S, p, b
  <1>5. TreeOK(tree', S, sub, v) /\ tree'.parent = tree.parent
    <2> PICK u : u = [tree EXCEPT !.color[b] = "red"]
      OBVIOUS
    <2>1. TreeOK(u, S, sub, v) /\ u.parent = tree.parent
      BY <1>2, ColorSet
    <2> QED
      BY <1>1, <2>1
  <1>6. Depth(tree', p) = Depth(tree, p)
    BY <1>2, <1>3, <1>5, SameParents DEF Places
  <1> QED
    BY <1>1, <1>4, <1>6 DEF Round

LEMMA DeleteRedBrotherRound ==
    ASSUME NEW sub, pc = "delete", Deleting(sub), BalanceInv, DeleteRedBrother
    PROVE  Round
  <1> DEFINE S == stored \cup {victim}
             p == tree.parent[node]
             s == SideOf(tree, node)
             b == Brother
             v == victim
  <1>1. /\ tree' = Rotate(tree, p, s) /\ node # tree.root /\ b # nil /\ IsRed(tree, b) /\ node' = node
    BY DEF DeleteRedBrother, Fixing, IsRed
  <1>2. /\ TreeOK(tree, S, sub, v) /\ v # p /\ v # b
        /\ p \in S /\ s \in Sides /\ b = tree.kid[Other(s)][p] /\ b \in S /\ p # node /\ b # node /\ node \in S
    BY <1>1, Brothers
  <1>3. tree.kid[s][p] = node
    BY <1>1, <1>2, OneParent DEF TreeOK
  <1>4. NoRed(tree, S, nil)
    BY DEF BalanceInv, Calm
  <1> HIDE DEF S, p, s, b
  <1> DEFINE o == Other(s)
             m == tree.kid[s][b]
  <1>5. o = Other(s) /\ m = tree.kid[s][b] /\ b = tree.kid[o][p]
    BY <1>2
  <1> HIDE DEF o, m
  <1>6. ~IsRed(tree, m)
    BY <1>1, <1>2, <1>4, <1>5 DEF NoRed, IsRed
  <1>7. /\ o \in Sides /\ tree'.kid[s][p] = node /\ tree'.kid[o][p] = m /\ m # p /\ m # b
        /\ nil \notin S
        /\ \A y : y \in S \cup {nil} => (y # p /\ y # b => (IsRed(tree', y) <=> IsRed(tree, y)))
    <2> PICK u : u = Rotate(tree, p, s)
      OBVIOUS
    <2>1. /\ o \in Sides /\ u.kid[s][p] = tree.kid[s][p] /\ u.kid[o][p] = m /\ m # p /\ m # b
          /\ nil \notin S
          /\ \A y : y \in S \cup {nil} => (y # p /\ y # b => (IsRed(u, y) <=> IsRed(tree, y)))
      BY <1>1, <1>2, <1>5, RotateFields
    <2> QED
      BY <1>1, <1>3, <2>1
  <1>8. m \in S \cup {nil}
    <2>1. NodeOK(tree, S, sub, b)
      BY <1>2 DEF TreeOK, Shape
    <2> QED
      BY <1>2, <1>5, <2>1 DEF NodeOK
  <1>9. PICK sub2 : TreeOK(tree', S, sub2, v)
    BY <1>1, <1>2, RotateKeeps
  <1>10. tree'.parent[node] = p /\ SideOf(tree', node) = s
    <2>1. Shape(tree', S, sub2)
      BY <1>9 DEF TreeOK
    <2>2. \A x \in S : \A a \in Sides :
              tree'.kid[a][x] = node <=> node # tree'.root /\ x = tree'.parent[node] /\ a = SideOf(tree', node)
      BY <1>2, <2>1, OneParent
    <2> QED
      BY <1>2, <1>7, <2>2
  <1>11. Brother' = m
    BY <1>1, <1>5, <1>7, <1>10 DEF Brother
  <1>12. ~IsRed(tree', m)
    BY <1>6, <1>7, <1>8
  <1>13. ~IsRed(tree, Brother)' /\ IsRed(tree, Brother)
    BY <1>1, <1>11, <1>12 DEF IsRed, b
  <1> QED
    BY <1>1, <1>13 DEF Round

LEMMA InsertRotateRound ==
    ASSUME NEW sub, pc = "insert", Inserting(sub), InsertRotate
    PROVE  Round
  <1> DEFINE S == stored
             p == tree.parent[node]
             g == tree.parent[p]
             e == SideOf(tree, p)
             t == Straightened(p)
             k == IF node = tree.kid[e][p] THEN p ELSE node
             x == IF node = tree.kid[e][p] THEN node ELSE p
  <1>1. IsRed(tree, p) /\ tree' = Rotate(t, g, Other(e)) /\ node' = x
    BY DEF InsertRotate
  <1>2. /\ p \in S /\ p # tree.root /\ g \in S /\ Shape(tree, S, sub)
        /\ TreeOK(tree, S, sub, nil) /\ node \in S /\ node # tree.root
        /\ nil \notin S /\ S \subseteq Keys
    BY <1>1, RedParent, KeyFacts DEF Inserting, Shape, Rooted
  <1>3. /\ e \in Sides /\ tree.kid[e][g] = p /\ g # p /\ g \notin sub[p] /\ p # nil
        /\ (tree.kid[Other(e)][g] # nil => tree.kid[Other(e)][g] # p)
    BY <1>2, Family
  <1>4. node # p /\ node \in sub[p] /\ SideOf(tree, node) \in Sides /\ tree.kid[SideOf(tree, node)][p] = node
    BY <1>2, Family, OwnPart
  <1>5. Depth(tree, node) = 2 + Depth(tree, g) /\ Depth(tree, g) \in Nat
    <2>1. Depth(tree, node) = 1 + Depth(tree, p) /\ Depth(tree, p) = 1 + Depth(tree, g) /\ Depth(tree, g) \in Nat
      BY <1>2, DepthIs DEF Places
    <2> QED
      BY <2>1
  <1>6. /\ \E sub2 : TreeOK(t, S, sub2, nil)
        /\ t.kid[e][g] = k /\ k \in S /\ x \in S /\ t.kid[e][k] = x
        /\ Depth(t, g) = Depth(tree, g)
    <2>1. CASE node = tree.kid[e][p]
      <3>1. t = tree /\ k = p /\ x = node
        BY <2>1 DEF Straightened
      <3> HIDE DEF t, p, g, e, k, x, S
      <3> QED
        BY <1>2, <1>3, <2>1, <3>1
    <2>2. CASE node # tree.kid[e][p]
      <3>1. t = Rotate(tree, p, e) /\ k = node /\ x = p
        BY <2>2 DEF Straightened
      <3>2. tree.kid[Other(e)][p] = node
        BY <1>3, <1>4, <2>2, SideFacts
      <3>3. g # node
        BY <1>3, <1>4
      <3> HIDE DEF t, p, g, e, k, x, S
      <3>4. \E sub2 : TreeOK(t, S, sub2, nil)
        BY <1>2, <1>3, <3>1, <3>2, RotateKeeps
      <3>5. /\ \A y \in S \ {p, node} : \A a \in Sides :
                   t.kid[a][y] = IF tree.kid[a][y] = p THEN node ELSE tree.kid[a][y]
            /\ t.kid[e][node] = p
        <4> DEFINE m == tree.kid[e][node]
                   o == Other(e)
        <4>1. o = Other(e) /\ node = tree.kid[o][p] /\ node # nil
          BY <1>2, <3>2
        <4> HIDE DEF m, o
        <4>2. m = tree.kid[e][node]
          BY DEF m
        <4> QED
          BY <1>2, <1>3, <3>1, <4>1, <4>2, RotateFields
      <3>6. \A y \in (S \cup {nil}) \ sub[p] : Depth(t, y) = Depth(tree, y)
        BY <1>2, <1>3, <3>1, <3>2, DepthRotate
      <3> QED
        BY <1>2, <1>3, <3>1, <3>3, <3>4, <3>5, <3>6
    <2> QED
      BY <2>1, <2>2
  <1> HIDE DEF t, k, e, g, p, x, S
  <1>7. PICK sub2 : TreeOK(t, S, sub2, nil)
    BY <1>6
  <1> DEFINE s == Other(e)
  <1>8. s \in Sides /\ Other(s) = e /\ k # nil
    BY <1>2, <1>3, <1>6, SideFacts
  <1> HIDE DEF s
  <1>9. k = t.kid[Other(s)][g] /\ k # nil /\ nil # g /\ nil # k
    BY <1>2, <1>6, <1>8
  <1>10. PICK sub3 : TreeOK(tree', S, sub3, nil)
    BY <1>1, <1>2, <1>7, <1>8, <1>9, RotateKeeps DEF s
  <1>11. Depth(tree', k) = Depth(t, g)
    <2> PICK u : u = Rotate(t, g, s)
      OBVIOUS
    <2>1. Depth(u, k) = Depth(t, g)
      BY <1>2, <1>7, <1>8, <1>9, DepthRotate
    <2> QED
      BY <1>1, <2>1 DEF s
  <1>12. tree'.kid[e][k] = x
    <2> PICK u : u = Rotate(t, g, s)
      OBVIOUS
    <2> DEFINE m == t.kid[s][k]
    <2>1. m = t.kid[s][k] /\ e = Other(s) /\ k = t.kid[e][g]
      BY <1>6, <1>8
    <2> HIDE DEF m
    <2>2. u.kid[e][k] = t.kid[e][k]
      BY <1>2, <1>7, <1>8, <2>1, RotateFields
    <2> QED
      BY <1>1, <1>6, <2>2 DEF s
  <1>13. tree'.parent[x] = k
    BY <1>2, <1>3, <1>6, <1>10, <1>12 DEF TreeOK, Shape, ParentsOK
  <1>14. Depth(tree', x) = 1 + Depth(tree', k)
    BY <1>2, <1>6, <1>10, <1>13, DepthIs
  <1> QED
    BY <1>1, <1>5, <1>6, <1>11, <1>14 DEF Round

\* Every further round of insert_fixup and delete_fixup starts closer to the
\* root, or at the same node with a black brother instead of a red one: the loops
\* end (c:169-220, c:292-357).
THEOREM RoundsKept == Spec => RoundsEnd
  <1>1. ASSUME TreeInv, BalanceInv, [Next]_vars
        PROVE  [pc # "idle" /\ pc' = pc => Round]_vars
    <2> SUFFICES ASSUME Next, pc # "idle", pc' = pc
                 PROVE  Round
      BY <1>1
    <2>1. PICK f \in {"insert", "delete"} : pc = f
      <3>1. pc # "crashed"
        BY DEF Next, Fixup, Fixing, InsertRecolor, InsertRotate, InsertDone, DeleteAtRoot, DeleteRedBrother,
               DeleteBorrow, DeleteRecolor, Crash, Free, FreeDone, Insert, Delete
      <3> QED
        BY <1>1, <3>1 DEF TreeInv
    <2>2. \/ InsertRecolor \/ InsertRotate \/ DeleteRedBrother \/ DeleteRecolor
      BY <2>1 DEF Next, Fixup, Fixing, Finish, InsertDone, DeleteAtRoot, DeleteBorrow, Crash, Free, FreeDone,
                  Insert, Delete
    <2>3. CASE InsertRecolor
      <3>1. pc = "insert"
        BY <2>3 DEF InsertRecolor, Fixing
      <3>2. PICK sub : Inserting(sub)
        BY <1>1, <3>1 DEF TreeInv
      <3> QED
        BY <2>3, <3>2, InsertRecolorRound
    <2>4. CASE InsertRotate
      <3>1. pc = "insert"
        BY <2>4 DEF InsertRotate, Fixing
      <3>2. PICK sub : Inserting(sub)
        BY <1>1, <3>1 DEF TreeInv
      <3> QED
        BY <2>4, <3>1, <3>2, InsertRotateRound
    <2>5. CASE DeleteRedBrother
      <3>1. pc = "delete"
        BY <2>5 DEF DeleteRedBrother, Fixing
      <3>2. PICK sub : Deleting(sub)
        BY <1>1, <3>1 DEF TreeInv
      <3> QED
        BY <1>1, <2>5, <3>1, <3>2, DeleteRedBrotherRound
    <2>6. CASE DeleteRecolor
      <3>1. pc = "delete"
        BY <2>6 DEF DeleteRecolor, Fixing
      <3>2. PICK sub : Deleting(sub)
        BY <1>1, <3>1 DEF TreeInv
      <3> QED
        BY <2>6, <3>1, <3>2, DeleteRecolorRound
    <2> QED
      BY <2>2, <2>3, <2>4, <2>5, <2>6
  <1> QED
    BY <1>1, BalanceKept, PTL DEF RoundsEnd, Round, Spec
=============================================================================
