---------------------------- MODULE TimeWheelProofs ----------------------------
(***************************************************************************)
(* A timer is linked once and dispatched at the tick it is due, on a wheel *)
(* of any shifts and for any nodes and delays.                             *)
(***************************************************************************)
EXTENDS TimeWheel, NaturalsInduction, WellFoundedInduction, TLAPS

-----------------------------------------------------------------------------
(* Division, and the spans of the levels.                                  *)

LEMMA MultiplesGrow ==
    ASSUME NEW b \in Nat, NEW q \in Nat \ {0}
    PROVE  q * b >= b
  <1>1. (q - 1) * b >= 0
    OBVIOUS
  <1>2. q * b = (q - 1) * b + b
    OBVIOUS
  <1>3. (q - 1) * b \in Int /\ q * b \in Int
    OBVIOUS
  <1> QED
    BY <1>1, <1>2, <1>3

LEMMA Divided ==
    ASSUME NEW a \in Int, NEW b \in Nat \ {0}
    PROVE  a \div b \in Int /\ a % b \in 0 .. b - 1 /\ a = (a \div b) * b + (a % b)
  OBVIOUS

LEMMA DivUnique ==
    ASSUME NEW b \in Nat \ {0}, NEW q \in Int, NEW r \in 0 .. b - 1, NEW p \in Int, NEW u \in 0 .. b - 1,
           q * b + r = p * b + u
    PROVE  q = p /\ r = u
  <1>0. /\ r \in Nat /\ u \in Nat /\ b \in Nat /\ r < b /\ u < b /\ q * b \in Int /\ p * b \in Int
    OBVIOUS
  <1>1. CASE q > p
    <2> DEFINE d == q - p
    <2>1. d \in Nat \ {0}
      BY <1>1
    <2> HIDE DEF d
    <2>2. d * b >= b /\ d * b \in Int
      BY <2>1, MultiplesGrow
    <2>3. d * b = q * b - p * b
      BY DEF d
    <2> QED
      BY <1>0, <2>2, <2>3
  <1>2. CASE p > q
    <2> DEFINE d == p - q
    <2>1. d \in Nat \ {0}
      BY <1>2
    <2> HIDE DEF d
    <2>2. d * b >= b /\ d * b \in Int
      BY <2>1, MultiplesGrow
    <2>3. d * b = p * b - q * b
      BY DEF d
    <2> QED
      BY <1>0, <2>2, <2>3
  <1>3. CASE p = q
    BY <1>0, <1>3
  <1> QED
    BY <1>1, <1>2, <1>3

LEMMA Quotient ==
    ASSUME NEW b \in Nat \ {0}, NEW q \in Int, NEW r \in 0 .. b - 1
    PROVE  (q * b + r) \div b = q /\ (q * b + r) % b = r
  <1> DEFINE a == q * b + r
  <1>1. a \in Int
    OBVIOUS
  <1>2. a = q * b + r
    OBVIOUS
  <1> HIDE DEF a
  <1>3. a \div b \in Int /\ a % b \in 0 .. b - 1 /\ a = (a \div b) * b + (a % b)
    BY <1>1, Divided
  <1>4. a \div b = q /\ a % b = r
    BY <1>2, <1>3, DivUnique
  <1> QED
    BY <1>4 DEF a

LEMMA OneTurn ==
    ASSUME NEW W \in Nat \ {0}, NEW u \in 0 .. W - 1
    PROVE  (u + W) % W = u
  <1> DEFINE q == 1
  <1>1. q \in Int /\ u + W = q * W + u
    OBVIOUS
  <1> HIDE DEF q
  <1>2. (q * W + u) % W = u
    BY <1>1, Quotient
  <1> QED
    BY <1>1, <1>2

\* The clock is at `now`, and L of W ticks are left until e.
LEMMA TicksLeft ==
    ASSUME NEW W \in Nat \ {0}, NEW e \in 0 .. W - 1, NEW now \in 0 .. W - 1
    PROVE  (e - now) % W = IF e >= now THEN e - now ELSE e - now + W
  <1>1. CASE e >= now
    <2>1. e - now \in 0 .. W - 1 /\ 0 * W + (e - now) = e - now
      BY <1>1
    <2> QED
      BY <1>1, <2>1, Quotient
  <1>2. CASE ~(e >= now)
    <2>1. e - now + W \in 0 .. W - 1 /\ (-1) * W + (e - now + W) = e - now
      BY <1>2
    <2> QED
      BY <1>2, <2>1, Quotient
  <1> QED
    BY <1>1, <1>2

LEMMA Spans ==
    /\ Span(0) = TIME_NEAR /\ Span(4) = UINT
    /\ TIME_NEAR \in Nat \ {0} /\ TIME_LEVEL \in Nat \ {0, 1} /\ UINT \in Nat \ {0}
    /\ \A i \in 0 .. 4 : Span(i) \in Nat \ {0}
    /\ \A i \in 0 .. 3 : Span(i + 1) = Span(i) * TIME_LEVEL
  <1>1. Span(0) = TIME_NEAR
    BY ShiftAssumption DEF Span, TIME_NEAR
  <1>2. Span(4) = UINT
    BY DEF UINT
  <1> QED
    BY <1>1, <1>2, PowerAssumption

\* A multiple of an outer span is one of every inner span.
LEMMA SpansDivide ==
    ASSUME NEW i \in 0 .. 4, NEW j \in 0 .. 4, i <= j
    PROVE  \E k \in Nat \ {0} : Span(j) = Span(i) * k
  <1> DEFINE D(a, b) == \E k \in Nat \ {0} : Span(b) = Span(a) * k
  <1>1. \A a \in 0 .. 4 : D(a, a)
    BY Spans
  <1>2. ASSUME NEW a \in 0 .. 4, NEW b \in 0 .. 3, D(a, b) PROVE D(a, b + 1)
    <2>1. PICK k \in Nat \ {0} : Span(b) = Span(a) * k
      BY <1>2
    <2>2. Span(b + 1) = Span(a) * (k * TIME_LEVEL)
      <3>1. Span(b + 1) = (Span(a) * k) * TIME_LEVEL
        BY <2>1, Spans
      <3>2. Span(a) \in Nat /\ TIME_LEVEL \in Nat
        BY Spans
      <3> QED
        BY <3>1, <3>2
    <2>3. k * TIME_LEVEL \in Nat \ {0}
      BY <2>1, Spans
    <2> QED
      BY <2>2, <2>3
  <1> HIDE DEF D
  <1>3. /\ D(0, 1) /\ D(1, 2) /\ D(2, 3) /\ D(3, 4)
    BY <1>1, <1>2
  <1>4. D(0, 2) /\ D(1, 3) /\ D(2, 4)
    BY <1>2, <1>3
  <1>5. D(0, 3) /\ D(1, 4)
    BY <1>2, <1>4
  <1>6. D(0, 4)
    BY <1>2, <1>5
  <1>7. D(i, j)
    BY <1>1, <1>3, <1>4, <1>5, <1>6
  <1> QED
    BY <1>7 DEF D

-----------------------------------------------------------------------------
(* The lists of a wheel.                                                   *)

Wheels == [Slots -> Seq(Nodes)]

In(w, n, s) == \E i \in 1 .. Len(w[s]) : w[s][i] = n

Once(w) ==
    \A n \in Nodes : \A s, r \in Slots : \A i \in 1 .. Len(w[s]), j \in 1 .. Len(w[r]) :
        w[s][i] = n /\ w[r][j] = n => s = r /\ i = j

LEMMA SlotShape ==
    ASSUME NEW s \in Slots
    PROVE  /\ s = <<s[1], s[2]>>
           /\ \/ s[1] = Near /\ s[2] \in 0 .. TIME_NEAR - 1
              \/ s[1] \in 0 .. 3 /\ s[2] \in 0 .. TIME_LEVEL - 1
  BY DEF Slots

Link(w, x, n) == [w EXCEPT ![x] = Append(@, n)]

\* Append puts a new node in one place and moves no other.
LEMMA Linked ==
    ASSUME NEW w \in Wheels, Once(w), NEW n \in Nodes, \A s \in Slots : ~In(w, n, s), NEW x \in Slots,
           NEW v, v = Link(w, x, n)
    PROVE  /\ v \in Wheels /\ Once(v)
           /\ \A m \in Nodes : \A s \in Slots : In(v, m, s) <=> In(w, m, s) \/ (m = n /\ s = x)
  <1>0. \A s \in Slots : w[s] \in Seq(Nodes) /\ Len(w[s]) \in Nat
    BY DEF Wheels
  <1>1. /\ v \in Wheels /\ v[x] = Append(w[x], n)
        /\ \A s \in Slots : s # x => v[s] = w[s]
    BY DEF Wheels, Link
  <1>2. /\ Len(v[x]) = Len(w[x]) + 1 /\ v[x][Len(w[x]) + 1] = n
        /\ \A i \in 1 .. Len(w[x]) : v[x][i] = w[x][i]
    BY <1>0, <1>1
  <1>3. \A s \in Slots : \A i \in 1 .. Len(v[s]) :
            \/ s = x /\ i = Len(w[x]) + 1 /\ v[s][i] = n
            \/ i \in 1 .. Len(w[s]) /\ v[s][i] = w[s][i] /\ v[s][i] # n
    <2> TAKE s \in Slots
    <2> TAKE i \in 1 .. Len(v[s])
    <2>1. \A j \in 1 .. Len(w[s]) : w[s][j] # n
      BY DEF In
    <2>2. CASE s = x
      <3>1. i = Len(w[x]) + 1 \/ i \in 1 .. Len(w[x])
        BY <1>0, <1>2, <2>2
      <3> QED
        BY <1>2, <2>1, <2>2, <3>1
    <2>3. CASE s # x
      BY <1>1, <2>1, <2>3
    <2> QED
      BY <2>2, <2>3
  <1>4. \A s \in Slots : \A i \in 1 .. Len(w[s]) : i \in 1 .. Len(v[s]) /\ v[s][i] = w[s][i]
    <2> TAKE s \in Slots
    <2> TAKE i \in 1 .. Len(w[s])
    <2>1. CASE s = x
      BY <1>0, <1>2, <2>1
    <2>2. CASE s # x
      BY <1>1, <2>2
    <2> QED
      BY <2>1, <2>2
  <1>5. ASSUME NEW m \in Nodes, NEW s \in Slots, NEW r \in Slots,
               NEW i \in 1 .. Len(v[s]), NEW j \in 1 .. Len(v[r]), v[s][i] = m, v[r][j] = m
        PROVE  s = r /\ i = j
    <2>1. CASE m = n
      BY <1>3, <1>5, <2>1
    <2>2. CASE m # n
      <3>1. i \in 1 .. Len(w[s]) /\ w[s][i] = m /\ j \in 1 .. Len(w[r]) /\ w[r][j] = m
        BY <1>3, <1>5, <2>2
      <3> QED
        BY <3>1 DEF Once
    <2> QED
      BY <2>1, <2>2
  <1>6. ASSUME NEW m \in Nodes, NEW s \in Slots
        PROVE  In(v, m, s) <=> In(w, m, s) \/ (m = n /\ s = x)
    <2>1. In(w, m, s) => In(v, m, s)
      BY <1>4 DEF In
    <2>2. In(v, n, x)
      <3>1. Len(w[x]) + 1 \in 1 .. Len(v[x])
        BY <1>0, <1>2
      <3> QED
        BY <1>2, <3>1 DEF In
    <2>3. In(v, m, s) => In(w, m, s) \/ (m = n /\ s = x)
      BY <1>3 DEF In
    <2> QED
      BY <2>1, <2>2, <2>3
  <1>7. Once(v)
    BY <1>5 DEF Once
  <1> QED
    BY <1>1, <1>6, <1>7

\* Emptying a slot.
Unlink(w, x) == [w EXCEPT ![x] = << >>]

LEMMA Cleared ==
    ASSUME NEW w \in Wheels, Once(w), NEW x \in Slots, NEW v, v = Unlink(w, x)
    PROVE  /\ v \in Wheels /\ Once(v)
           /\ \A m \in Nodes : \A s \in Slots : In(v, m, s) <=> In(w, m, s) /\ s # x
  <1>1. /\ v \in Wheels /\ v[x] = << >> /\ \A s \in Slots : s # x => v[s] = w[s]
    BY DEF Wheels, Unlink
  <1>2. \A i : ~(i \in 1 .. Len(v[x]))
    BY <1>1
  <1>3. \A m \in Nodes : \A s \in Slots : In(v, m, s) <=> In(w, m, s) /\ s # x
    BY <1>1, <1>2 DEF In
  <1>4. Once(v)
    <2> SUFFICES ASSUME NEW m \in Nodes, NEW s \in Slots, NEW r \in Slots,
                        NEW i \in 1 .. Len(v[s]), NEW j \in 1 .. Len(v[r]), v[s][i] = m, v[r][j] = m
                 PROVE  s = r /\ i = j
      BY DEF Once
    <2>1. s # x /\ r # x
      BY <1>2
    <2>2. v[s] = w[s] /\ v[r] = w[r]
      BY <1>1, <2>1
    <2> QED
      BY <2>2 DEF Once
  <1> QED
    BY <1>1, <1>3, <1>4

-----------------------------------------------------------------------------
(* add_node.                                                               *)

Target(e, now) == <<LevelOf((e - now) % UINT), IndexOf(e, LevelOf((e - now) % UINT))>>

\* What add_node takes from the ticks that are left: the place shows the rest.
LEMMA TargetFits ==
    ASSUME NEW e \in 0 .. UINT - 1, NEW now \in 0 .. UINT - 1
    PROVE  LET s == Target(e, now)  ticks == (e - now) % UINT IN
           /\ s \in Slots /\ ticks \in 0 .. UINT - 1
           /\ s[1] = Near => s[2] = e % TIME_NEAR /\ ticks < TIME_NEAR
           /\ s[1] # Near => s[2] = IndexOf(e, s[1]) /\ e % Span(s[1]) < ticks
  <1> DEFINE ticks == (e - now) % UINT
             level == LevelOf(ticks)
  <1>1. ticks \in 0 .. UINT - 1
    BY Spans, TicksLeft
  <1> HIDE DEF ticks
  <1>2. ticks \in Nat /\ TIME_NEAR \in Nat /\ Span(1) \in Nat /\ Span(2) \in Nat /\ Span(3) \in Nat
    BY <1>1, Spans
  <1>3. \/ level = Near /\ ticks < TIME_NEAR
        \/ level = 0 /\ TIME_NEAR <= ticks
        \/ level \in 1 .. 3 /\ Span(level) <= ticks
    <2>1. CASE ticks < TIME_NEAR
      BY <1>2, <2>1 DEF LevelOf
    <2>2. CASE ~(ticks < TIME_NEAR) /\ ticks < Span(1)
      BY <1>2, <2>2 DEF LevelOf
    <2>3. CASE ~(ticks < TIME_NEAR) /\ ~(ticks < Span(1)) /\ ticks < Span(2)
      BY <1>2, <2>3 DEF LevelOf
    <2>4. CASE ~(ticks < TIME_NEAR) /\ ~(ticks < Span(1)) /\ ~(ticks < Span(2)) /\ ticks < Span(3)
      BY <1>2, <2>4 DEF LevelOf
    <2>5. CASE ~(ticks < TIME_NEAR) /\ ~(ticks < Span(1)) /\ ~(ticks < Span(2)) /\ ~(ticks < Span(3))
      BY <1>2, <2>5 DEF LevelOf
    <2> QED
      BY <2>1, <2>2, <2>3, <2>4, <2>5
  <1> HIDE DEF level
  <1>4. e \in Nat
    BY Spans
  <1>5. CASE level = Near /\ ticks < TIME_NEAR
    <2>1. e % TIME_NEAR \in 0 .. TIME_NEAR - 1
      BY <1>4, Spans
    <2> QED
      BY <1>1, <1>5, <2>1 DEF Target, ticks, level, IndexOf, Slots
  <1>6. CASE level \in 0 .. 3 /\ Span(level) <= ticks
    <2>1. level # Near
      BY <1>6 DEF Near
    <2>2. Span(level) \in Nat \ {0} /\ TIME_LEVEL \in Nat \ {0}
      BY <1>6, Spans
    <2>3. e % Span(level) \in 0 .. Span(level) - 1 /\ e \div Span(level) \in Int
      <3>1. e \in Int
        BY <1>4
      <3> QED
        BY <2>2, <3>1, Divided
    <2>4. (e \div Span(level)) % TIME_LEVEL \in 0 .. TIME_LEVEL - 1
      BY <2>2, <2>3, Divided
    <2>5. e % Span(level) < ticks
      BY <1>2, <1>6, <2>2, <2>3
    <2>6. IndexOf(e, level) \in 0 .. TIME_LEVEL - 1
      BY <2>1, <2>4 DEF IndexOf
    <2> QED
      BY <1>1, <1>6, <2>1, <2>5, <2>6 DEF Target, ticks, level, Slots
  <1> QED
    BY <1>3, <1>5, <1>6, Spans

-----------------------------------------------------------------------------
(* move_list: the fold is a function on sets of positions, and exists.     *)

LEMMA LessThan ==
    ASSUME NEW m \in Nat, NEW n \in Nat, ~(<<m, n>> \in OpToRel(<, Nat))
    PROVE  n <= m
  BY SMT DEF OpToRel

\* Induction, on a set.
LEMMA UpFromZero ==
    ASSUME NEW S, 0 \in S, \A k \in Nat : k \in S => k + 1 \in S
    PROVE  Nat \subseteq S
  <1> SUFFICES ASSUME Nat \ S # {} PROVE FALSE
    OBVIOUS
  <1> DEFINE bad == Nat \ S
  <1>1. PICK m \in bad : \A k \in bad : ~(<<k, m>> \in OpToRel(<, Nat))
    BY NatLessThanWellFounded, WFMin
  <1>2. \A k \in bad : m <= k
    BY <1>1, LessThan
  <1>3. m \in Nat \ {0} /\ m \notin S
    OBVIOUS
  <1>4. m - 1 \in Nat /\ ~(m <= m - 1) /\ (m - 1) + 1 = m
    BY <1>3
  <1>5. m - 1 \in S
    BY <1>2, <1>4
  <1> QED
    BY <1>3, <1>4, <1>5

\* One turn of the fold: the last of the positions S is placed after the others.
Turn(f, w, l, ct, S) ==
    IF S = {} THEN w ELSE AddNode(f[S \ {Max(S)}], expire[l[Max(S)]], ct, l[Max(S)])

TurnsUpTo(f, w, l, ct, k) ==
    \A S \in SUBSET (1 .. Len(l)) : S \subseteq 1 .. k => f[S] = Turn(f, w, l, ct, S)

LEMMA LastPosition ==
    ASSUME NEW k \in Nat, NEW S, S \subseteq 1 .. k + 1, k + 1 \in S
    PROVE  Max(S) = k + 1
  <1>1. \A y \in S : k + 1 >= y
    OBVIOUS
  <1>2. \A x \in S : (\A y \in S : x >= y) => x = k + 1
    OBVIOUS
  <1> QED
    BY <1>1, <1>2 DEF Max

LEMMA TurnsGoOn ==
    ASSUME NEW l, Len(l) \in Nat, NEW w, NEW ct, NEW k \in Nat, \E f : TurnsUpTo(f, w, l, ct, k)
    PROVE  \E f : TurnsUpTo(f, w, l, ct, k + 1)
  <1>1. PICK f : TurnsUpTo(f, w, l, ct, k)
    OBVIOUS
  <1> DEFINE g == [S \in SUBSET (1 .. Len(l)) |-> IF S \subseteq 1 .. k THEN f[S] ELSE Turn(f, w, l, ct, S)]
  <1>2. \A S \in SUBSET (1 .. Len(l)) : g[S] = IF S \subseteq 1 .. k THEN f[S] ELSE Turn(f, w, l, ct, S)
    OBVIOUS
  <1> HIDE DEF g
  <1>3. ASSUME NEW S \in SUBSET (1 .. Len(l)), S \subseteq 1 .. k + 1
        PROVE  g[S] = Turn(g, w, l, ct, S)
    <2>1. g[S] = Turn(f, w, l, ct, S)
      BY <1>1, <1>2 DEF TurnsUpTo
    <2>2. CASE S = {}
      BY <2>1, <2>2 DEF Turn
    <2>3. CASE S # {}
      <3>1. S \ {Max(S)} \subseteq 1 .. k
        <4>1. CASE k + 1 \in S
          <5>1. Max(S) = k + 1
            BY <1>3, <4>1, LastPosition
          <5>2. \A x \in S : x # k + 1 => x \in 1 .. k
            BY <1>3
          <5> QED
            BY <5>1, <5>2
        <4>2. CASE k + 1 \notin S
          <5>1. \A x \in S : x \in 1 .. k
            BY <1>3, <4>2
          <5> QED
            BY <5>1
        <4> QED
          BY <4>1, <4>2
      <3>2. g[S \ {Max(S)}] = f[S \ {Max(S)}]
        <4>1. S \ {Max(S)} \in SUBSET (1 .. Len(l))
          OBVIOUS
        <4> QED
          BY <1>2, <3>1, <4>1
      <3> QED
        BY <2>1, <2>3, <3>2 DEF Turn
    <2> QED
      BY <2>2, <2>3
  <1> QED
    BY <1>3 DEF TurnsUpTo

LEMMA FoldExists ==
    ASSUME NEW l, Len(l) \in Nat, NEW w, NEW ct
    PROVE  \E f : f = [S \in SUBSET (1 .. Len(l)) |-> Turn(f, w, l, ct, S)]
  <1> DEFINE can == {k \in Nat : \E f : TurnsUpTo(f, w, l, ct, k)}
  <1>1. 0 \in can
    <2> DEFINE f == [S \in SUBSET (1 .. Len(l)) |-> w]
    <2>1. \A S \in SUBSET (1 .. Len(l)) : S \subseteq 1 .. 0 => f[S] = Turn(f, w, l, ct, S)
      <3> TAKE S \in SUBSET (1 .. Len(l))
      <3>1. S \subseteq 1 .. 0 => S = {}
        OBVIOUS
      <3>2. f[S] = w
        OBVIOUS
      <3> HIDE DEF f
      <3> QED
        BY <3>1, <3>2 DEF Turn
    <2> HIDE DEF f
    <2>2. TurnsUpTo(f, w, l, ct, 0)
      BY <2>1 DEF TurnsUpTo
    <2> QED
      BY <2>2
  <1>2. ASSUME NEW k \in Nat, k \in can PROVE k + 1 \in can
    BY <1>2, TurnsGoOn
  <1> HIDE DEF can
  <1>3. Len(l) \in can
    BY <1>1, <1>2, UpFromZero
  <1>4. PICK f : TurnsUpTo(f, w, l, ct, Len(l))
    BY <1>3 DEF can
  <1> DEFINE g == [S \in SUBSET (1 .. Len(l)) |-> f[S]]
  <1>5. \A S \in SUBSET (1 .. Len(l)) : g[S] = Turn(g, w, l, ct, S)
    <2> TAKE S \in SUBSET (1 .. Len(l))
    <2>1. g[S] = f[S] /\ g[S \ {Max(S)}] = f[S \ {Max(S)}]
      <3>1. S \ {Max(S)} \in SUBSET (1 .. Len(l))
        OBVIOUS
      <3> QED
        BY <3>1
    <2>2. f[S] = Turn(f, w, l, ct, S)
      BY <1>4 DEF TurnsUpTo
    <2> HIDE DEF g
    <2> QED
      BY <2>1, <2>2 DEF Turn
  <1>6. g = [S \in SUBSET (1 .. Len(l)) |-> Turn(g, w, l, ct, S)]
    BY <1>5
  <1> HIDE DEF g
  <1> QED
    BY <1>6

\* move_list(level, i): link_clear, then add_node for each node in turn.
OneByOne(f, w, s, ct) ==
    /\ f[0] = Unlink(w, s)
    /\ \A k \in 1 .. Len(w[s]) : f[k] = AddNode(f[k - 1], expire[w[s][k]], ct, w[s][k])
    /\ MoveList(w, s, ct) = f[Len(w[s])]

LEMMA MovesOneByOne ==
    ASSUME NEW w, NEW s, w[s] \in Seq(Nodes), NEW ct
    PROVE  \E f : OneByOne(f, w, s, ct)
  <1> DEFINE l == w[s]  base == Unlink(w, s)
             it == CHOOSE f : f = [S \in SUBSET (1 .. Len(l)) |-> Turn(f, base, l, ct, S)]
  <1>1. Len(l) \in Nat /\ DOMAIN l = 1 .. Len(l)
    OBVIOUS
  <1>2. MoveList(w, s, ct) =
            (CHOOSE f : f = [S \in SUBSET DOMAIN l |-> Turn(f, base, l, ct, S)])[DOMAIN l]
    BY DEF MoveList, FoldLeft, MapThenFoldSet, Turn, Unlink
  <1>3. MoveList(w, s, ct) = it[1 .. Len(l)]
    BY <1>1, <1>2
  <1> HIDE DEF l, base
  <1>4. it = [S \in SUBSET (1 .. Len(l)) |-> Turn(it, base, l, ct, S)]
    BY <1>1, FoldExists
  <1> HIDE DEF it
  <1>5. \A S \in SUBSET (1 .. Len(l)) : it[S] = Turn(it, base, l, ct, S)
    BY <1>4
  <1> DEFINE g == [k \in 0 .. Len(l) |-> it[1 .. k]]
  <1>6. \A k \in 0 .. Len(l) : g[k] = it[1 .. k]
    OBVIOUS
  <1> HIDE DEF g
  <1>7. g[0] = base
    <2>1. 1 .. 0 = {} /\ 0 \in 0 .. Len(l) /\ {} \in SUBSET (1 .. Len(l))
      BY <1>1
    <2>2. it[{}] = base
      BY <1>5, <2>1 DEF Turn
    <2> QED
      BY <1>6, <2>1, <2>2
  <1>8. ASSUME NEW k \in 1 .. Len(l) PROVE g[k] = AddNode(g[k - 1], expire[l[k]], ct, l[k])
    <2>1. k \in Nat \ {0} /\ k <= Len(l) /\ k \in 0 .. Len(l) /\ k - 1 \in 0 .. Len(l) /\ k - 1 \in Nat
      BY <1>1
    <2>2. 1 .. k \in SUBSET (1 .. Len(l)) /\ 1 .. k # {} /\ (1 .. k) \ {k} = 1 .. k - 1 /\ k \in 1 .. k
      BY <1>1, <2>1
    <2>3. Max(1 .. k) = k
      <3>1. (k - 1) + 1 = k /\ 1 .. k \subseteq 1 .. k
        BY <2>1
      <3> QED
        BY <2>1, <2>2, <3>1, LastPosition
    <2>4. it[1 .. k] = AddNode(it[1 .. k - 1], expire[l[k]], ct, l[k])
      BY <1>5, <2>2, <2>3 DEF Turn
    <2> QED
      BY <1>6, <2>1, <2>4
  <1>9. MoveList(w, s, ct) = g[Len(l)]
    BY <1>1, <1>3, <1>6
  <1> QED
    BY <1>7, <1>8, <1>9 DEF OneByOne, l, base

\* The nodes of slot s are placed anew, each once, and no other moves.
LEMMA MoveKeeps ==
    ASSUME NEW w \in Wheels, Once(w), NEW s \in Slots, NEW ct \in 0 .. UINT - 1,
           expire \in [Nodes -> 0 .. UINT - 1]
    PROVE  LET v == MoveList(w, s, ct) IN
           /\ v \in Wheels /\ Once(v)
           /\ \A m \in Nodes : \A r \in Slots :
                  In(v, m, r) <=> (In(w, m, r) /\ r # s) \/ (In(w, m, s) /\ r = Target(expire[m], ct))
  <1>0. w[s] \in Seq(Nodes)
    BY DEF Wheels
  <1>1. PICK f : OneByOne(f, w, s, ct)
    BY <1>0, MovesOneByOne
  <1>2. /\ f[0] = Unlink(w, s)
        /\ \A k \in 1 .. Len(w[s]) : f[k] = AddNode(f[k - 1], expire[w[s][k]], ct, w[s][k])
        /\ MoveList(w, s, ct) = f[Len(w[s])]
    BY <1>1 DEF OneByOne
  <1> DEFINE l == w[s]
             Among(m, k) == \E i \in 1 .. k : l[i] = m
             Good(k) == /\ f[k] \in Wheels /\ Once(f[k])
                        /\ \A m \in Nodes : \A r \in Slots :
                               In(f[k], m, r) <=> (In(w, m, r) /\ r # s)
                                                  \/ (Among(m, k) /\ r = Target(expire[m], ct))
             good == {k \in Nat : k <= Len(l) => Good(k)}
  <1>3. l \in Seq(Nodes) /\ Len(l) \in Nat /\ \A k \in 1 .. Len(l) : l[k] \in Nodes
    BY <1>0
  <1>4. Good(0)
    <2>1. \A m : ~Among(m, 0)
      OBVIOUS
    <2> HIDE DEF Among
    <2>2. /\ f[0] \in Wheels /\ Once(f[0])
          /\ \A m \in Nodes : \A r \in Slots : In(f[0], m, r) <=> In(w, m, r) /\ r # s
      BY <1>2, Cleared
    <2> QED
      BY <2>1, <2>2
  <1>5. ASSUME NEW k \in Nat, k + 1 <= Len(l), Good(k) PROVE Good(k + 1)
    <2> DEFINE n == l[k + 1]  x == Target(expire[n], ct)
    <2>1. k + 1 \in 1 .. Len(l) /\ (k + 1) - 1 = k
      <3> HIDE DEF Good
      <3> QED
        BY <1>3, <1>5
    <2>2. n \in Nodes /\ expire[n] \in 0 .. UINT - 1
      BY <1>3, <2>1
    <2>3. x \in Slots
      BY <2>2, TargetFits
    <2>4. f[k + 1] = Link(f[k], x, n)
      <3>1. f[k + 1] = AddNode(f[k], expire[n], ct, n)
        BY <1>2, <2>1
      <3> QED
        BY <3>1 DEF AddNode, Target, Link
    <2> HIDE DEF x
    <2>5. \A i \in 1 .. k : i \in 1 .. Len(l) /\ l[i] # n
      <3> TAKE i \in 1 .. k
      <3>1. i \in 1 .. Len(l) /\ i # k + 1
        BY <1>3, <1>5
      <3> QED
        BY <2>1, <2>2, <3>1 DEF Once
    <2>6. ~Among(n, k)
      BY <2>5
    <2>7. \A r \in Slots : In(w, n, r) => r = s
      BY <2>1, <2>2 DEF Once, In
    <2>8. \A m : Among(m, k + 1) <=> Among(m, k) \/ m = n
      <3>1. \A i : i \in 1 .. k + 1 <=> i \in 1 .. k \/ i = k + 1
        BY <1>5
      <3> QED
        BY <3>1
    <2> HIDE DEF Among, n, l
    <2>9. \A r \in Slots : ~In(f[k], n, r)
      BY <1>5, <2>2, <2>6, <2>7
    <2>10. /\ f[k + 1] \in Wheels /\ Once(f[k + 1])
           /\ \A m \in Nodes : \A r \in Slots : In(f[k + 1], m, r) <=> In(f[k], m, r) \/ (m = n /\ r = x)
      <3> DEFINE u == f[k]  v == f[k + 1]
      <3>1. u \in Wheels /\ Once(u) /\ v = Link(u, x, n)
        BY <1>5, <2>4
      <3>2. \A r \in Slots : ~In(u, n, r)
        BY <2>9
      <3> HIDE DEF u, v
      <3>3. /\ v \in Wheels /\ Once(v)
            /\ \A m \in Nodes : \A r \in Slots : In(v, m, r) <=> In(u, m, r) \/ (m = n /\ r = x)
        BY <2>2, <2>3, <3>1, <3>2, Linked
      <3> QED
        BY <3>3 DEF u, v
    <2>11. ASSUME NEW m \in Nodes, NEW r \in Slots
           PROVE  In(f[k + 1], m, r) <=> (In(w, m, r) /\ r # s)
                                         \/ (Among(m, k + 1) /\ r = Target(expire[m], ct))
      <3>1. CASE m = n
        <4>1. In(f[k + 1], m, r) <=> r = x
          BY <2>9, <2>10, <3>1
        <4>2. Among(m, k + 1) /\ ~(In(w, m, r) /\ r # s) /\ x = Target(expire[m], ct)
          BY <2>7, <2>8, <3>1 DEF x
        <4> QED
          BY <4>1, <4>2
      <3>2. CASE m # n
        <4>1. In(f[k + 1], m, r) <=> In(f[k], m, r)
          BY <2>10, <3>2
        <4>2. Among(m, k + 1) <=> Among(m, k)
          BY <2>8, <3>2
        <4> QED
          BY <1>5, <4>1, <4>2
      <3> QED
        BY <3>1, <3>2
    <2> QED
      BY <2>10, <2>11
  <1> HIDE DEF Good
  <1>6. \A k \in Nat : k \in good => k + 1 \in good
    <2> SUFFICES ASSUME NEW k \in Nat, k \in good, k + 1 <= Len(l) PROVE Good(k + 1)
      OBVIOUS
    <2>1. k <= Len(l)
      BY <1>3
    <2> QED
      BY <1>5, <2>1
  <1>7. 0 \in good
    BY <1>4
  <1> HIDE DEF good
  <1>8. Len(l) \in good
    BY <1>3, <1>6, <1>7, UpFromZero
  <1>9. Good(Len(l))
    BY <1>3, <1>8 DEF good
  <1>10. \A m : Among(m, Len(l)) <=> In(w, m, s)
    BY DEF In
  <1> QED
    BY <1>2, <1>9, <1>10 DEF Good

-----------------------------------------------------------------------------
(* timer_shift.                                                            *)

\* Multiples of an outer span are in slot 0 of the inner level.
LEMMA InnerIndex ==
    ASSUME NEW i \in 0 .. 3, NEW j \in 0 .. 3, i < j, NEW ct \in Nat, ct % Span(j) = 0
    PROVE  IndexOf(ct, i) = 0
  <1>1. Span(i) \in Nat \ {0} /\ Span(j) \in Nat \ {0} /\ TIME_LEVEL \in Nat \ {0}
    BY Spans
  <1>2. PICK k \in Nat \ {0} : Span(j) = Span(i + 1) * k
    BY SpansDivide
  <1>3. Span(i + 1) = Span(i) * TIME_LEVEL
    BY Spans
  <1> DEFINE a == Span(i)  q == ct \div Span(j)
  <1>4. q \in Int /\ ct = q * Span(j)
    <2>1. ct \div Span(j) \in Int /\ ct = (ct \div Span(j)) * Span(j) + (ct % Span(j))
      <3>1. ct \in Int
        OBVIOUS
      <3> QED
        BY <1>1, <3>1, Divided
    <2> DEFINE m == q * Span(j)
    <2>2. m \in Int /\ ct = m + 0
      BY <1>1, <2>1
    <2> QED
      BY <2>1, <2>2
  <1> HIDE DEF a, q
  <1>5. ct = ((q * k) * TIME_LEVEL) * a
    <2>1. ct = q * ((a * TIME_LEVEL) * k)
      BY <1>2, <1>3, <1>4 DEF a
    <2>2. a \in Int /\ q \in Int /\ k \in Int /\ TIME_LEVEL \in Int
      BY <1>1, <1>4 DEF a
    <2> QED
      BY <2>1, <2>2
  <1> DEFINE p == q * k  d == p * TIME_LEVEL
  <1>6. p \in Int
    BY <1>4
  <1> HIDE DEF p
  <1>7. d \in Int /\ d = p * TIME_LEVEL + 0 /\ 0 \in 0 .. TIME_LEVEL - 1
    BY <1>1, <1>6
  <1>8. d % TIME_LEVEL = 0
    BY <1>1, <1>6, <1>7, Quotient
  <1>9. ct = d * a + 0 /\ 0 \in 0 .. a - 1
    <2> DEFINE m == d * a
    <2>1. ct = m /\ m \in Int /\ a \in Nat \ {0}
      BY <1>1, <1>5, <1>7 DEF p, a
    <2> QED
      BY <2>1
  <1> HIDE DEF d
  <1>10. ct \div a = d
    <2>1. a \in Nat \ {0} /\ d \in Int
      BY <1>1, <1>7 DEF a
    <2>2. (d * a + 0) \div a = d
      BY <1>9, <2>1, Quotient
    <2> QED
      BY <1>9, <2>2
  <1>11. i # Near
    BY DEF Near
  <1> QED
    BY <1>8, <1>10, <1>11 DEF IndexOf, a

\* At most one slot is emptied, and never slot 0 of t[0], t[1] or t[2].
LEMMA OneSlotShifts ==
    ASSUME NEW ct \in 0 .. UINT - 1, NEW s \in ShiftedSlots(ct)
    PROVE  /\ s \in Slots \ ZeroSlots
           /\ \A r \in ShiftedSlots(ct) : r = s
  <1>1. ct \in Nat
    BY Spans
  <1>2. CASE ct = 0
    <2>1. ShiftedSlots(ct) = {<<3, 0>>}
      BY <1>2 DEF ShiftedSlots
    <2>2. <<3, 0>> \in Slots
      BY Spans DEF Slots
    <2> QED
      BY <2>1, <2>2 DEF ZeroSlots
  <1>3. CASE ct # 0
    <2> DEFINE levels == {j \in 0 .. 3 : ct % Span(j) = 0 /\ IndexOf(ct, j) # 0}
    <2>1. ShiftedSlots(ct) = {<<i, IndexOf(ct, i)>> : i \in levels}
      BY <1>3 DEF ShiftedSlots
    <2>2. \A i, j \in levels : i = j
      <3> SUFFICES ASSUME NEW i \in levels, NEW j \in levels, i < j PROVE FALSE
        OBVIOUS
      <3> QED
        BY <1>1, InnerIndex
    <2>3. ASSUME NEW i \in levels PROVE <<i, IndexOf(ct, i)>> \in Slots \ ZeroSlots
      <3>1. i \in 0 .. 3 /\ i # Near /\ IndexOf(ct, i) # 0
        BY DEF Near
      <3>2. Span(i) \in Nat \ {0} /\ TIME_LEVEL \in Nat \ {0} /\ ct \in Int
        BY <1>1, <3>1, Spans
      <3>3. ct \div Span(i) \in Int
        BY <3>2, Divided
      <3>4. (ct \div Span(i)) % TIME_LEVEL \in 0 .. TIME_LEVEL - 1
        BY <3>2, <3>3, Divided
      <3>5. IndexOf(ct, i) \in 0 .. TIME_LEVEL - 1
        BY <3>1, <3>4 DEF IndexOf
      <3> HIDE DEF levels
      <3> QED
        BY <3>1, <3>5 DEF Slots, ZeroSlots
    <2> HIDE DEF levels
    <2> QED
      BY <2>1, <2>2, <2>3
  <1> QED
    BY <1>2, <1>3

\* A node whose ticks left are down to what its slot does not show is in the
\* slot that is emptied.
LEMMA ShiftComes ==
    ASSUME NEW e \in 0 .. UINT - 1, NEW ct \in 0 .. UINT - 1, NEW i \in 0 .. 3,
           (e - ct) % UINT = e % Span(i), <<i, IndexOf(e, i)>> \notin ZeroSlots
    PROVE  <<i, IndexOf(e, i)>> \in ShiftedSlots(ct)
  <1> DEFINE a == Span(i)  q == e \div a  r == e % a
  <1>0. /\ a \in Nat \ {0} /\ UINT \in Nat \ {0} /\ TIME_LEVEL \in Nat \ {0} /\ e \in Nat /\ ct \in Nat
        /\ i # Near /\ ct < UINT
    BY Spans DEF Near
  <1>1. q \in Int /\ r \in 0 .. a - 1 /\ e = q * a + r
    <2>1. a \in Nat \ {0} /\ e \in Int
      BY <1>0
    <2> HIDE DEF a
    <2> QED
      BY <2>1, Divided
  <1>2. (e - ct) % UINT = r
    OBVIOUS
  <1>3. IndexOf(e, i) = q % TIME_LEVEL
    BY <1>0 DEF IndexOf
  <1> HIDE DEF q, r
  <1>4. q \in Nat
    <2>1. CASE q >= 0
      BY <1>1, <2>1
    <2>2. CASE q < 0
      <3> DEFINE b == -q
      <3>1. b \in Nat \ {0}
        BY <1>1, <2>2
      <3> HIDE DEF b
      <3>2. b * a >= a /\ b * a \in Int
        BY <1>0, <3>1, MultiplesGrow
      <3>3. q * a = -(b * a)
        BY <1>0, <1>1 DEF b
      <3> HIDE DEF a
      <3> QED
        BY <1>0, <1>1, <3>2, <3>3
    <2> QED
      BY <1>1, <2>1, <2>2
  <1>5. ct = q * a
    <2> DEFINE m == q * a
    <2>1. m \in Nat /\ e = m + r /\ r \in Nat
      BY <1>0, <1>1, <1>4
    <2> HIDE DEF m
    <2>2. (e - ct) % UINT = IF e >= ct THEN e - ct ELSE e - ct + UINT
      BY <1>0, TicksLeft
    <2>3. ct = m
      BY <1>0, <1>2, <2>1, <2>2
    <2> QED
      BY <2>3 DEF m
  <1>6. ct \div a = q /\ ct % a = 0
    <2>1. ct = q * a + 0 /\ 0 \in 0 .. a - 1
      BY <1>0, <1>5
    <2> QED
      BY <1>0, <1>1, <2>1, Quotient
  <1>7. IndexOf(ct, i) = IndexOf(e, i)
    BY <1>0, <1>3, <1>6 DEF IndexOf
  <1>8. q = 0 => ct = 0 /\ IndexOf(e, i) = 0
    <2> SUFFICES ASSUME q = 0 PROVE ct = 0 /\ IndexOf(e, i) = 0
      OBVIOUS
    <2>1. ct = 0
      BY <1>0, <1>5
    <2>2. 0 % TIME_LEVEL = 0
      BY <1>0
    <2> QED
      BY <1>3, <2>1, <2>2
  <1>9. CASE IndexOf(e, i) # 0
    <2>1. ct # 0
      <3>1. q \in Nat \ {0}
        BY <1>4, <1>8, <1>9
      <3>2. q * a >= a /\ q * a \in Int
        BY <1>0, <3>1, MultiplesGrow
      <3> QED
        BY <1>0, <1>5, <3>2
    <2> QED
      BY <1>6, <1>7, <1>9, <2>1 DEF ShiftedSlots
  <1>10. CASE IndexOf(e, i) = 0
    <2>1. i = 3
      BY <1>10 DEF ZeroSlots
    <2>2. UINT = a * TIME_LEVEL
      BY <2>1, Spans
    <2>3. q < TIME_LEVEL
      <3> SUFFICES ASSUME q >= TIME_LEVEL PROVE FALSE
        BY <1>0, <1>4
      <3> DEFINE d == q - TIME_LEVEL
      <3>1. d \in Nat
        BY <1>0, <1>4
      <3>2. q * a = d * a + a * TIME_LEVEL
        BY <1>0, <1>1
      <3> HIDE DEF d
      <3>3. d * a \in Nat
        BY <1>0, <3>1
      <3>4. ct = d * a + UINT
        BY <1>5, <2>2, <3>2
      <3> DEFINE m == d * a
      <3>5. m \in Nat /\ ct = m + UINT
        BY <3>3, <3>4
      <3> HIDE DEF m
      <3> QED
        BY <1>0, <3>5
    <2>4. q % TIME_LEVEL = q
      <3> DEFINE none == 0
      <3>1. q = none * TIME_LEVEL + q /\ q \in 0 .. TIME_LEVEL - 1 /\ none \in Int
        BY <1>0, <1>4, <2>3
      <3> HIDE DEF none
      <3>2. (none * TIME_LEVEL + q) % TIME_LEVEL = q
        BY <1>0, <3>1, Quotient
      <3> QED
        BY <3>1, <3>2
    <2>5. ct = 0
      BY <1>3, <1>8, <1>10, <2>4
    <2> QED
      BY <1>10, <2>1, <2>5 DEF ShiftedSlots
  <1> QED
    BY <1>9, <1>10

\* What timer_execute finds in the slot of the time is due.
LEMMA DueNow ==
    ASSUME NEW e \in 0 .. UINT - 1, NEW now \in 0 .. UINT - 1,
           e % TIME_NEAR = now % TIME_NEAR, (e - now) % UINT < TIME_NEAR
    PROVE  (e - now) % UINT = 0
  <1> DEFINE N == TIME_NEAR  a == e \div N  b == now \div N  ticks == (e - now) % UINT
  <1>0. N \in Nat \ {0} /\ UINT \in Nat \ {0} /\ e \in Int /\ now \in Int
    BY Spans
  <1>1. PICK k \in Nat \ {0} : UINT = N * k
    <2>1. PICK k \in Nat \ {0} : Span(4) = Span(0) * k
      BY SpansDivide
    <2> QED
      BY <2>1, Spans
  <1>2. /\ a \in Int /\ b \in Int /\ e % N \in 0 .. N - 1
        /\ e = a * N + (e % N) /\ now = b * N + (now % N)
    BY <1>0, Divided
  <1>3. ticks \in 0 .. UINT - 1 /\ ticks = IF e >= now THEN e - now ELSE e - now + UINT
    <2>1. ticks = IF e >= now THEN e - now ELSE e - now + UINT
      BY <1>0, TicksLeft
    <2> HIDE DEF ticks
    <2> QED
      BY <1>0, <2>1
  <1>4. ticks \in 0 .. N - 1
    BY <1>0, <1>3
  <1>5. \E d \in Int : ticks = d * N
    <2> DEFINE r == e % N  m == a * N  p == b * N
    <2>1. m \in Int /\ p \in Int /\ r \in Int /\ e = m + r /\ now = p + r
      BY <1>0, <1>2
    <2> HIDE DEF r, m, p, ticks
    <2>2. CASE ticks = e - now
      <3>1. ticks = m - p
        BY <2>1, <2>2
      <3>2. m - p = (a - b) * N /\ a - b \in Int
        BY <1>0, <1>2 DEF m, p
      <3> QED
        BY <3>1, <3>2
    <2>3. CASE ticks = e - now + UINT
      <3>1. ticks = m - p + UINT
        BY <1>0, <2>1, <2>3
      <3>2. m - p + N * k = (a - b + k) * N /\ a - b + k \in Int
        BY <1>0, <1>1, <1>2 DEF m, p
      <3> QED
        BY <1>1, <3>1, <3>2
    <2> QED
      BY <1>3, <2>2, <2>3
  <1> HIDE DEF ticks, N
  <1>6. PICK d \in Int : ticks = d * N
    BY <1>5
  <1>7. d * N + 0 = 0 * N + ticks /\ 0 \in 0 .. N - 1
    BY <1>0, <1>4, <1>6
  <1>8. ticks = 0
    BY <1>0, <1>4, <1>7, DivUnique
  <1> QED
    BY <1>8 DEF ticks

-----------------------------------------------------------------------------
(* The invariant: a slot shows what is left until its nodes are due.       *)

\* In near[] all of it; further out the slot is emptied at the tick that leaves
\* the part of the expiry below the span.  Nothing is promised for slot 0 of
\* t[0], t[1] and t[2], which timer_shift passes by.
FitsAs(e, now, ticks, s) ==
    /\ s[1] = Near => s[2] = e % TIME_NEAR /\ ticks \in 0 .. TIME_NEAR - 1
    /\ s[1] # Near /\ s \notin ZeroSlots => s[2] = IndexOf(e, s[1]) /\ e % Span(s[1]) < ticks
    /\ s \notin ZeroSlots => ticks = (e - now) % UINT

Fits(n, s) == FitsAs(expire[n], time, left[n], s)

BatchOnce ==
    \A n \in Nodes : \A i, j \in 1 .. Len(batch) : batch[i] = n /\ batch[j] = n => i = j

Placed == \A n \in Nodes : \A s \in Slots : In(wheel, n, s) => ~InBatch(n) /\ Fits(n, s)

WheelInv ==
    /\ TypeOK /\ (pc # "idle" => todo > 0)
    /\ Once(wheel) /\ BatchOnce /\ Placed /\ FiresOnTime

LEMMA WheelStart == Init => WheelInv
  <1> SUFFICES ASSUME Init PROVE WheelInv
    OBVIOUS
  <1>1. /\ wheel = [s \in Slots |-> << >>] /\ time = 0 /\ lag = 0 /\ todo = 0 /\ lock = "free"
        /\ expire = [n \in Nodes |-> 0] /\ cancel = [n \in Nodes |-> FALSE]
        /\ pc = "idle" /\ pass = 1 /\ batch = << >> /\ left = [n \in Nodes |-> 0]
    BY DEF Init
  <1>2. TypeOK
    <2>1. MaxLag \in Nat /\ UINT \in Nat \ {0}
      BY LagAssumption, Spans
    <2>2. 0 \in 0 .. UINT - 1 /\ 0 \in 0 .. MaxLag
      BY <2>1
    <2>3. << >> \in Seq(Nodes)
      OBVIOUS
    <2> QED
      BY <1>1, <2>2, <2>3 DEF TypeOK
  <1>3. \A s \in Slots : wheel[s] = << >>
    BY <1>1
  <1>4. \A n : \A s \in Slots : ~In(wheel, n, s)
    BY <1>3 DEF In
  <1>5. Once(wheel)
    BY <1>4 DEF Once, In
  <1>6. BatchOnce /\ FiresOnTime
    BY <1>1 DEF BatchOnce, FiresOnTime
  <1> QED
    BY <1>1, <1>2, <1>4, <1>5, <1>6 DEF WheelInv, Placed

\* Steps that move no node and no time.
LEMMA NothingMoves ==
    ASSUME WheelInv, UNCHANGED <<wheel, batch, expire, left, time>>
    PROVE  (Once(wheel) /\ BatchOnce /\ Placed /\ FiresOnTime)'
  BY DEF WheelInv, Once, BatchOnce, Placed, FiresOnTime, Fits, FitsAs, In, InBatch

LEMMA FreeIsNowhere ==
    ASSUME NEW n
    PROVE  Free(n) <=> (\A s \in Slots : ~In(wheel, n, s)) /\ ~InBatch(n)
  BY DEF Free, Pending, InSlot, In

\* A node placed by what is left of its time.
LEMMA PlacedFits ==
    ASSUME NEW e \in 0 .. UINT - 1, NEW now \in 0 .. UINT - 1
    PROVE  FitsAs(e, now, (e - now) % UINT, Target(e, now))
  <1> DEFINE s == Target(e, now)  ticks == (e - now) % UINT
  <1>1. /\ s \in Slots /\ ticks \in 0 .. UINT - 1
        /\ s[1] = Near => s[2] = e % TIME_NEAR /\ ticks < TIME_NEAR
        /\ s[1] # Near => s[2] = IndexOf(e, s[1]) /\ e % Span(s[1]) < ticks
    BY TargetFits
  <1>2. s[1] = Near => ticks \in 0 .. TIME_NEAR - 1
    <2> HIDE DEF s, ticks
    <2> QED
      BY <1>1, Spans
  <1> QED
    BY <1>1, <1>2 DEF FitsAs

LEMMA AddKeeps ==
    ASSUME WheelInv, NEW n \in Nodes, NEW t \in Delays, AddTimer(n, t)
    PROVE  WheelInv'
  <1> DEFINE e == (t + time) % UINT
  <1>1. /\ lock = "free" /\ Free(n) /\ t > 0 /\ expire' = [expire EXCEPT ![n] = e]
        /\ wheel' = AddNode(wheel, e, time, n) /\ left' = [left EXCEPT ![n] = t]
        /\ UNCHANGED <<time, lock, cancel, pc, pass, todo, batch, lag>>
    BY DEF AddTimer
  <1>2. /\ wheel \in Wheels /\ time \in 0 .. UINT - 1 /\ UINT \in Nat \ {0}
        /\ expire \in [Nodes -> 0 .. UINT - 1] /\ left \in [Nodes -> Int] /\ Once(wheel)
    BY Spans DEF WheelInv, TypeOK, Wheels
  <1>3. t \in 1 .. UINT - 1
    <2>1. t \in Int /\ t <= UINT \div 2 - 1
      BY <1>2, DelayAssumption
    <2>2. UINT \div 2 <= UINT
      BY <1>2
    <2> QED
      BY <1>1, <1>2, <2>1, <2>2
  <1>4. e \in 0 .. UINT - 1
    BY <1>2, <1>3
  <1>5. (e - time) % UINT = t
    <2>1. CASE t + time < UINT
      <3>1. t + time = 0 * UINT + (t + time) /\ t + time \in 0 .. UINT - 1
        BY <1>2, <1>3, <2>1
      <3>2. e = t + time
        BY <1>2, <3>1, Quotient
      <3> HIDE DEF e
      <3> QED
        BY <1>2, <1>3, <1>4, <3>2, TicksLeft
    <2>2. CASE ~(t + time < UINT)
      <3>1. t + time - UINT \in 0 .. UINT - 1
        BY <1>2, <1>3, <2>2
      <3>2. e = t + time - UINT
        <4> DEFINE u == t + time - UINT
        <4>1. u \in 0 .. UINT - 1 /\ u + UINT = t + time
          BY <1>2, <1>3, <3>1
        <4> HIDE DEF u
        <4>2. (u + UINT) % UINT = u
          BY <1>2, <4>1, OneTurn
        <4> QED
          BY <4>1, <4>2 DEF u
      <3> HIDE DEF e
      <3> QED
        BY <1>2, <1>3, <1>4, <3>2, TicksLeft
    <2> QED
      BY <2>1, <2>2
  <1> HIDE DEF e
  <1> DEFINE x == Target(e, time)
  <1>6. x \in Slots
    BY <1>2, <1>4, TargetFits
  <1>7. (\A s \in Slots : ~In(wheel, n, s)) /\ ~InBatch(n)
    BY <1>1, FreeIsNowhere
  <1>8. wheel' = Link(wheel, x, n)
    BY <1>1 DEF AddNode, Target, Link
  <1>9. /\ wheel' \in Wheels /\ Once(wheel')
        /\ \A m \in Nodes : \A s \in Slots : In(wheel', m, s) <=> In(wheel, m, s) \/ (m = n /\ s = x)
    <2> HIDE DEF x
    <2> QED
      BY <1>2, <1>6, <1>7, <1>8, Linked
  <1>10. /\ expire' \in [Nodes -> 0 .. UINT - 1] /\ left' \in [Nodes -> Int]
         /\ expire'[n] = e /\ left'[n] = t
         /\ \A m \in Nodes : m # n => expire'[m] = expire[m] /\ left'[m] = left[m]
    BY <1>1, <1>2, <1>3, <1>4
  <1>11. TypeOK'
    BY <1>1, <1>9, <1>10 DEF WheelInv, TypeOK, Wheels
  <1>12. Once(wheel)' /\ BatchOnce' /\ FiresOnTime'
    <2>1. \A m \in Nodes : InBatch(m)' => m # n /\ InBatch(m)
      BY <1>1, <1>7 DEF InBatch
    <2>2. FiresOnTime'
      BY <1>10, <2>1 DEF WheelInv, FiresOnTime
    <2> QED
      BY <1>1, <1>9, <2>2 DEF WheelInv, BatchOnce, Once
  <1>13. FitsAs(e, time, t, x)
    BY <1>2, <1>4, <1>5, PlacedFits
  <1>14. Placed'
    <2> SUFFICES ASSUME NEW m \in Nodes, NEW s \in Slots, In(wheel', m, s)
                 PROVE  ~InBatch(m)' /\ Fits(m, s)'
      BY DEF Placed
    <2>1. InBatch(m)' = InBatch(m)
      BY <1>1 DEF InBatch
    <2>2. CASE m # n
      <3>1. In(wheel, m, s)
        BY <1>9, <2>2
      <3>2. ~InBatch(m) /\ Fits(m, s)
        BY <3>1 DEF WheelInv, Placed
      <3>3. time' = time /\ expire'[m] = expire[m] /\ left'[m] = left[m]
        BY <1>1, <1>10, <2>2
      <3> QED
        BY <2>1, <3>2, <3>3 DEF Fits
    <2>3. CASE m = n
      <3>1. s = x
        BY <1>7, <1>9, <2>3
      <3> QED
        BY <1>1, <1>7, <1>10, <1>13, <2>1, <2>3, <3>1 DEF Fits
    <2> QED
      BY <2>2, <2>3
  <1> QED
    BY <1>1, <1>11, <1>12, <1>14 DEF WheelInv

LEMMA TakeKeeps == ASSUME WheelInv, ExecuteTake PROVE WheelInv'
  <1>1. /\ pc = "execute" /\ batch' = wheel[here] /\ wheel' = [wheel EXCEPT ![here] = << >>]
        /\ lock' = "free" /\ pc' = "dispatch" /\ UNCHANGED <<time, nodeVars, pass, todo, lag>>
    BY DEF ExecuteTake
  <1>2. /\ wheel \in Wheels /\ Once(wheel) /\ Placed /\ time \in 0 .. UINT - 1
        /\ expire \in [Nodes -> 0 .. UINT - 1]
    BY DEF WheelInv, TypeOK, Wheels
  <1>3. here \in Slots /\ here[1] = Near /\ here[2] = time % TIME_NEAR /\ here \notin ZeroSlots
    <2>1. time \in Nat /\ TIME_NEAR \in Nat \ {0}
      BY <1>2, Spans
    <2>2. time % TIME_NEAR \in 0 .. TIME_NEAR - 1
      BY <2>1
    <2> QED
      BY <2>2 DEF here, Slots, ZeroSlots, Near
  <1>4. /\ wheel' \in Wheels /\ Once(wheel')
        /\ \A m \in Nodes : \A s \in Slots : In(wheel', m, s) <=> In(wheel, m, s) /\ s # here
    <2>1. wheel' = Unlink(wheel, here)
      BY <1>1 DEF Unlink
    <2> HIDE DEF here
    <2> QED
      BY <1>2, <1>3, <2>1, Cleared
  <1>5. wheel[here] \in Seq(Nodes)
    BY <1>2, <1>3 DEF Wheels
  <1>6. TypeOK'
    BY <1>1, <1>4, <1>5 DEF WheelInv, TypeOK, Wheels, nodeVars
  <1>7. \A m : InBatch(m)' <=> In(wheel, m, here)
    BY <1>1 DEF InBatch, In
  <1>8. Once(wheel)' /\ BatchOnce'
    <2>1. \A m \in Nodes : \A i, j \in 1 .. Len(wheel[here]) :
              wheel[here][i] = m /\ wheel[here][j] = m => i = j
      BY <1>2, <1>3 DEF Once
    <2>2. BatchOnce'
      BY <1>1, <2>1 DEF BatchOnce
    <2> QED
      BY <1>4, <2>2 DEF Once
  <1>9. FiresOnTime'
    <2> SUFFICES ASSUME NEW m \in Nodes, InBatch(m)' PROVE left'[m] = 0
      BY DEF FiresOnTime
    <2>1. Fits(m, here)
      BY <1>2, <1>3, <1>7 DEF Placed
    <2>2. /\ expire[m] % TIME_NEAR = time % TIME_NEAR /\ left[m] \in 0 .. TIME_NEAR - 1
          /\ left[m] = (expire[m] - time) % UINT
      BY <1>3, <2>1 DEF Fits, FitsAs
    <2>3. left[m] < TIME_NEAR
      BY <2>2, Spans
    <2>4. (expire[m] - time) % UINT = 0
      BY <1>2, <2>2, <2>3, DueNow
    <2> QED
      BY <1>1, <2>2, <2>4 DEF nodeVars
  <1>10. Placed'
    <2> SUFFICES ASSUME NEW m \in Nodes, NEW s \in Slots, In(wheel', m, s)
                 PROVE  ~InBatch(m)' /\ Fits(m, s)'
      BY DEF Placed
    <2>1. In(wheel, m, s) /\ s # here
      BY <1>4
    <2>2. ~In(wheel, m, here)
      BY <1>2, <1>3, <2>1 DEF Once, In
    <2>3. Fits(m, s)
      BY <1>2, <2>1 DEF Placed
    <2> QED
      BY <1>1, <1>7, <2>2, <2>3 DEF Fits, nodeVars
  <1> QED
    BY <1>1, <1>6, <1>8, <1>9, <1>10 DEF WheelInv

LEMMA DispatchKeeps == ASSUME WheelInv, Dispatch PROVE WheelInv'
  <1> DEFINE h == Head(batch)
  <1>1. /\ pc = "dispatch" /\ batch # << >> /\ batch' = Tail(batch)
        /\ expire' = [n \in Nodes |-> IF n = h THEN 0 ELSE expire[n]]
        /\ left' = [n \in Nodes |-> IF n = h THEN 0 ELSE left[n]]
        /\ UNCHANGED <<wheel, time, lock, cancel, pc, pass, todo, lag>>
    BY DEF Dispatch, Forget
  <1>2. batch \in Seq(Nodes) /\ Len(batch) \in Nat \ {0} /\ UINT \in Nat \ {0}
    BY <1>1, Spans DEF WheelInv, TypeOK
  <1>3. /\ batch' \in Seq(Nodes) /\ Len(batch') = Len(batch) - 1 /\ h = batch[1]
        /\ \A i \in 1 .. Len(batch') : i + 1 \in 1 .. Len(batch) /\ batch'[i] = batch[i + 1]
    BY <1>1, <1>2
  <1>4. expire' \in [Nodes -> 0 .. UINT - 1] /\ left' \in [Nodes -> Int]
    <2>1. expire \in [Nodes -> 0 .. UINT - 1] /\ left \in [Nodes -> Int] /\ 0 \in 0 .. UINT - 1
      BY <1>2 DEF WheelInv, TypeOK
    <2> HIDE DEF h
    <2> QED
      BY <1>1, <2>1
  <1>5. TypeOK'
    BY <1>1, <1>3, <1>4 DEF WheelInv, TypeOK
  <1>6. InBatch(h)
    BY <1>2, <1>3 DEF InBatch
  <1> HIDE DEF h
  <1>7. \A m \in Nodes : InBatch(m)' => InBatch(m)
    BY <1>3 DEF InBatch
  <1>8. FiresOnTime'
    BY <1>1, <1>7 DEF WheelInv, FiresOnTime
  <1>9. BatchOnce'
    <2> SUFFICES ASSUME NEW m \in Nodes, NEW i \in 1 .. Len(batch'), NEW j \in 1 .. Len(batch'),
                        batch'[i] = m, batch'[j] = m
                 PROVE  i = j
      BY DEF BatchOnce
    <2>1. i + 1 = j + 1
      BY <1>3 DEF WheelInv, BatchOnce
    <2>2. i \in Int /\ j \in Int
      OBVIOUS
    <2> QED
      BY <2>1, <2>2
  <1>10. Once(wheel)'
    BY <1>1 DEF WheelInv, Once
  <1>11. Placed'
    <2> SUFFICES ASSUME NEW m \in Nodes, NEW s \in Slots, In(wheel', m, s)
                 PROVE  ~InBatch(m)' /\ Fits(m, s)'
      BY DEF Placed
    <2>1. ~InBatch(m) /\ Fits(m, s)
      BY <1>1 DEF WheelInv, Placed, In
    <2>2. m # h
      BY <1>6, <2>1
    <2>3. expire'[m] = expire[m] /\ left'[m] = left[m] /\ time' = time
      BY <1>1, <2>2
    <2> QED
      BY <1>7, <2>1, <2>3 DEF Fits
  <1> QED
    BY <1>1, <1>5, <1>8, <1>9, <1>10, <1>11 DEF WheelInv

LEMMA ClearKeeps == ASSUME WheelInv, NEW x \in Slots, ClearSlot(x) PROVE WheelInv'
  <1> DEFINE gone == {n \in Nodes : InSlot(n, x)}
  <1>1. /\ wheel' = Unlink(wheel, x)
        /\ expire' = [n \in Nodes |-> IF n \in gone THEN 0 ELSE expire[n]]
        /\ left' = [n \in Nodes |-> IF n \in gone THEN 0 ELSE left[n]]
        /\ UNCHANGED <<time, lock, cancel, pc, pass, todo, batch, lag>>
    BY DEF ClearSlot, Forget, Unlink
  <1>2. /\ wheel \in Wheels /\ Once(wheel) /\ Placed /\ TypeOK /\ BatchOnce /\ FiresOnTime
        /\ expire \in [Nodes -> 0 .. UINT - 1] /\ left \in [Nodes -> Int] /\ UINT \in Nat \ {0}
    BY Spans DEF WheelInv, TypeOK, Wheels
  <1>3. /\ wheel' \in Wheels /\ Once(wheel')
        /\ \A m \in Nodes : \A s \in Slots : In(wheel', m, s) <=> In(wheel, m, s) /\ s # x
    BY <1>1, <1>2, Cleared
  <1>4. \A m \in Nodes : m \in gone <=> In(wheel, m, x)
    BY DEF InSlot, In
  <1> HIDE DEF gone
  <1>5. expire' \in [Nodes -> 0 .. UINT - 1] /\ left' \in [Nodes -> Int]
    BY <1>1, <1>2
  <1>6. TypeOK'
    BY <1>1, <1>2, <1>3, <1>5 DEF TypeOK, Wheels
  <1>7. \A m : InBatch(m)' <=> InBatch(m)
    BY <1>1 DEF InBatch
  <1>8. BatchOnce' /\ Once(wheel)'
    BY <1>1, <1>2, <1>3 DEF BatchOnce, Once
  <1>9. FiresOnTime'
    <2> SUFFICES ASSUME NEW m \in Nodes, InBatch(m)' PROVE left'[m] = 0
      BY DEF FiresOnTime
    <2>1. left[m] = 0
      BY <1>2, <1>7 DEF FiresOnTime
    <2> QED
      BY <1>1, <2>1
  <1>10. Placed'
    <2> SUFFICES ASSUME NEW m \in Nodes, NEW s \in Slots, In(wheel', m, s)
                 PROVE  ~InBatch(m)' /\ Fits(m, s)'
      BY DEF Placed
    <2>1. In(wheel, m, s) /\ s # x
      BY <1>3
    <2>2. ~In(wheel, m, x)
      BY <1>2, <2>1 DEF Once, In
    <2>3. ~InBatch(m) /\ Fits(m, s)
      BY <1>2, <2>1 DEF Placed
    <2>4. expire'[m] = expire[m] /\ left'[m] = left[m] /\ time' = time
      BY <1>1, <1>4, <2>2
    <2> QED
      BY <1>7, <2>3, <2>4 DEF Fits
  <1> QED
    BY <1>1, <1>6, <1>8, <1>9, <1>10 DEF WheelInv

LEMMA QuietKeeps ==
    ASSUME WheelInv, UNCHANGED <<wheel, batch, expire, left, time>>, TypeOK', pc' # "idle" => todo' > 0
    PROVE  WheelInv'
  BY NothingMoves DEF WheelInv

\* One tick off what is left, and the slot that is due is emptied inwards.
LEMMA ShiftKeeps == ASSUME WheelInv, TimerShift PROVE WheelInv'
  <1> DEFINE ct == Advanced
             wanes(m) == Pending(m) /\ left[m] >= 0
             s0 == CHOOSE s \in ShiftedSlots(ct) : TRUE
  <1>1. /\ pc = "execute" /\ wheel[here] = << >> /\ time' = ct /\ pass' = 2
        /\ wheel' = IF ShiftedSlots(ct) = {} THEN wheel ELSE MoveList(wheel, s0, ct)
        /\ left' = [n \in Nodes |-> IF wanes(n) THEN left[n] - 1 ELSE left[n]]
        /\ UNCHANGED <<lock, expire, cancel, pc, todo, batch, lag>>
    BY DEF TimerShift
  <1>2. /\ wheel \in Wheels /\ Once(wheel) /\ Placed /\ time \in 0 .. UINT - 1
        /\ expire \in [Nodes -> 0 .. UINT - 1] /\ left \in [Nodes -> Int] /\ UINT \in Nat \ {0}
    BY Spans DEF WheelInv, TypeOK, Wheels
  <1>3. ct \in 0 .. UINT - 1 /\ ct = IF time = UINT - 1 THEN 0 ELSE time + 1
    <2>1. CASE time = UINT - 1
      <3>1. time + 1 = 0 + UINT /\ 0 \in 0 .. UINT - 1
        BY <1>2, <2>1
      <3>2. (0 + UINT) % UINT = 0
        BY <1>2, <3>1, OneTurn
      <3> QED
        BY <2>1, <3>1, <3>2 DEF Advanced
    <2>2. CASE time # UINT - 1
      <3>1. time + 1 \in 0 .. UINT - 1 /\ time + 1 = 0 * UINT + (time + 1)
        BY <1>2, <2>2
      <3>2. (time + 1) % UINT = time + 1
        BY <1>2, <3>1, Quotient
      <3> QED
        BY <2>2, <3>1, <3>2 DEF Advanced
    <2> QED
      BY <2>1, <2>2
  <1>4. ASSUME NEW e \in 0 .. UINT - 1, (e - time) % UINT > 0
        PROVE  (e - ct) % UINT = ((e - time) % UINT) - 1
    <2>1. /\ (e - time) % UINT = IF e >= time THEN e - time ELSE e - time + UINT
          /\ (e - ct) % UINT = IF e >= ct THEN e - ct ELSE e - ct + UINT
      BY <1>2, <1>3, TicksLeft
    <2> HIDE DEF ct
    <2> QED
      BY <1>2, <1>3, <1>4, <2>1
  <1> HIDE DEF ct
  <1>5. here \in Slots /\ here[1] = Near /\ here[2] = time % TIME_NEAR
    <2>1. time \in Nat /\ TIME_NEAR \in Nat \ {0}
      BY <1>2, Spans
    <2>2. time % TIME_NEAR \in 0 .. TIME_NEAR - 1
      BY <2>1
    <2> QED
      BY <2>2 DEF here, Slots, Near
  <1>6. /\ left' \in [Nodes -> Int]
        /\ \A m \in Nodes : left'[m] = IF wanes(m) THEN left[m] - 1 ELSE left[m]
    <2> HIDE DEF wanes
    <2> QED
      BY <1>1, <1>2
  \* A node that is not in slot 0 of t[0..2] has a tick to go.
  <1>7. ASSUME NEW m \in Nodes, NEW s \in Slots, In(wheel, m, s), s \notin ZeroSlots
        PROVE  /\ left[m] > 0 /\ left'[m] = left[m] - 1 /\ left'[m] = (expire[m] - ct) % UINT
               /\ FitsAs(expire[m], time, left[m], s)
    <2>1. FitsAs(expire[m], time, left[m], s)
      BY <1>2, <1>7 DEF Placed, Fits
    <2>2. left[m] = (expire[m] - time) % UINT /\ left[m] \in Int /\ expire[m] \in 0 .. UINT - 1
      BY <1>2, <1>7, <2>1 DEF FitsAs
    <2>3. left[m] > 0
      <3>1. CASE s[1] = Near
        <4>1. s[2] = expire[m] % TIME_NEAR /\ left[m] >= 0
          BY <2>1, <3>1, Spans DEF FitsAs
        <4>2. left[m] # 0
          <5> SUFFICES ASSUME left[m] = 0 PROVE FALSE
            OBVIOUS
          <5>1. expire[m] = time
            <6>1. (expire[m] - time) % UINT
                      = IF expire[m] >= time THEN expire[m] - time ELSE expire[m] - time + UINT
              BY <1>2, <2>2, TicksLeft
            <6> QED
              BY <1>2, <2>2, <6>1
          <5>2. s[1] = here[1] /\ s[2] = here[2]
            BY <1>5, <3>1, <4>1, <5>1
          <5>3. s = here
            BY <1>5, <5>2, SlotShape
          <5> QED
            BY <1>1, <1>7, <5>3 DEF In
        <4> QED
          BY <2>2, <4>1, <4>2
      <3>2. CASE s[1] # Near
        <4>1. s[1] \in 0 .. 3
          BY <3>2, SlotShape
        <4>2. Span(s[1]) \in Nat \ {0} /\ expire[m] \in Int
          BY <1>2, <2>2, <4>1, Spans
        <4>3. expire[m] % Span(s[1]) \in Nat
          BY <4>2, Divided
        <4>4. expire[m] % Span(s[1]) < left[m]
          BY <1>7, <2>1, <3>2 DEF FitsAs
        <4> QED
          BY <2>2, <4>3, <4>4
      <3> QED
        BY <3>1, <3>2
    <2>4. wanes(m)
      BY <1>7, <2>2, <2>3 DEF Pending, InSlot, In
    <2>5. left'[m] = left[m] - 1
      BY <1>6, <2>4
    <2>6. (expire[m] - ct) % UINT = left[m] - 1
      BY <1>4, <2>2, <2>3
    <2> QED
      BY <2>1, <2>3, <2>5, <2>6
  <1> HIDE DEF wanes, s0
  <1>8. ShiftedSlots(ct) # {} => s0 \in ShiftedSlots(ct) /\ s0 \in Slots \ ZeroSlots
    BY <1>3, OneSlotShifts DEF s0
  <1>9. /\ wheel' \in Wheels /\ Once(wheel')
        /\ \A m \in Nodes : \A r \in Slots :
               In(wheel', m, r) => \/ In(wheel, m, r) /\ r \notin ShiftedSlots(ct)
                                   \/ In(wheel, m, s0) /\ s0 \in Slots \ ZeroSlots
                                      /\ r = Target(expire[m], ct)
    <2>1. CASE ShiftedSlots(ct) = {}
      BY <1>1, <1>2, <2>1
    <2>2. CASE ShiftedSlots(ct) # {}
      <3>1. wheel' = MoveList(wheel, s0, ct) /\ s0 \in Slots
        BY <1>1, <1>8, <2>2
      <3>2. /\ wheel' \in Wheels /\ Once(wheel')
            /\ \A m \in Nodes : \A r \in Slots :
                   In(wheel', m, r) <=> (In(wheel, m, r) /\ r # s0)
                                        \/ (In(wheel, m, s0) /\ r = Target(expire[m], ct))
        BY <1>2, <1>3, <3>1, MoveKeeps
      <3>3. \A r \in ShiftedSlots(ct) : r = s0
        BY <1>3, <1>8, <2>2, OneSlotShifts
      <3> QED
        BY <1>8, <2>2, <3>2, <3>3
    <2> QED
      BY <2>1, <2>2
  <1>10. ASSUME NEW m \in Nodes, NEW r \in Slots, In(wheel, m, r), r \notin ShiftedSlots(ct)
         PROVE  FitsAs(expire[m], ct, left'[m], r)
    <2>1. CASE r \in ZeroSlots
      <3>1. r[1] # Near
        BY <2>1 DEF ZeroSlots, Near
      <3> QED
        BY <2>1, <3>1 DEF FitsAs
    <2>2. CASE r \notin ZeroSlots
      <3>1. /\ left[m] > 0 /\ left'[m] = left[m] - 1 /\ left'[m] = (expire[m] - ct) % UINT
            /\ FitsAs(expire[m], time, left[m], r) /\ left[m] \in Int /\ expire[m] \in 0 .. UINT - 1
        BY <1>2, <1>7, <1>10, <2>2
      <3>2. CASE r[1] = Near
        <4>1. r[2] = expire[m] % TIME_NEAR /\ left[m] \in 0 .. TIME_NEAR - 1
          BY <3>1, <3>2 DEF FitsAs
        <4>2. left'[m] \in 0 .. TIME_NEAR - 1
          BY <3>1, <4>1, Spans
        <4> QED
          BY <3>1, <3>2, <4>1, <4>2 DEF FitsAs
      <3>3. CASE r[1] # Near
        <4>1. r[1] \in 0 .. 3 /\ r = <<r[1], r[2]>>
          BY <3>3, SlotShape
        <4>2. r[2] = IndexOf(expire[m], r[1]) /\ expire[m] % Span(r[1]) < left[m]
          BY <2>2, <3>1, <3>3 DEF FitsAs
        <4>3. r = <<r[1], IndexOf(expire[m], r[1])>>
          BY <4>1, <4>2
        <4>4. (expire[m] - ct) % UINT # expire[m] % Span(r[1])
          BY <1>3, <1>10, <2>2, <3>1, <4>1, <4>3, ShiftComes
        <4>5. Span(r[1]) \in Nat \ {0} /\ expire[m] \in Int
          BY <1>2, <3>1, <4>1, Spans
        <4>6. expire[m] % Span(r[1]) \in Int
          BY <4>5, Divided
        <4>7. expire[m] % Span(r[1]) < left'[m]
          BY <3>1, <4>2, <4>4, <4>6
        <4> QED
          BY <3>1, <3>3, <4>2, <4>7 DEF FitsAs
      <3> QED
        BY <3>2, <3>3
    <2> QED
      BY <2>1, <2>2
  <1>11. Placed'
    <2> SUFFICES ASSUME NEW m \in Nodes, NEW r \in Slots, In(wheel', m, r)
                 PROVE  ~InBatch(m)' /\ Fits(m, r)'
      BY DEF Placed
    <2>1. InBatch(m)' = InBatch(m)
      BY <1>1 DEF InBatch
    <2>2. PICK s \in Slots : In(wheel, m, s)
      BY <1>9
    <2>3. ~InBatch(m)
      BY <1>2, <2>2 DEF Placed
    <2>4. FitsAs(expire[m], ct, left'[m], r)
      <3>1. CASE In(wheel, m, r) /\ r \notin ShiftedSlots(ct)
        BY <1>10, <3>1
      <3>2. CASE In(wheel, m, s0) /\ s0 \in Slots \ ZeroSlots /\ r = Target(expire[m], ct)
        <4>1. left'[m] = (expire[m] - ct) % UINT
          BY <1>7, <3>2
        <4>2. expire[m] \in 0 .. UINT - 1
          BY <1>2
        <4> QED
          BY <1>3, <3>2, <4>1, <4>2, PlacedFits
      <3> QED
        BY <1>9, <3>1, <3>2
    <2> QED
      BY <1>1, <2>1, <2>3, <2>4 DEF Fits
  <1>12. FiresOnTime'
    <2> SUFFICES ASSUME NEW m \in Nodes, InBatch(m)' PROVE left'[m] = 0
      BY DEF FiresOnTime
    <2>1. InBatch(m)
      BY <1>1 DEF InBatch
    <2>2. \A s \in Slots : ~In(wheel, m, s)
      BY <1>2, <2>1 DEF Placed
    <2>3. ~wanes(m)
      BY <2>2 DEF wanes, Pending, InSlot, In
    <2>4. left[m] = 0
      BY <2>1 DEF WheelInv, FiresOnTime
    <2> QED
      BY <1>6, <2>3, <2>4
  <1>13. BatchOnce' /\ Once(wheel)'
    BY <1>1, <1>9 DEF WheelInv, BatchOnce, Once
  <1>14. TypeOK'
    BY <1>1, <1>3, <1>6, <1>9 DEF WheelInv, TypeOK, Wheels
  <1> QED
    BY <1>1, <1>11, <1>12, <1>13, <1>14 DEF WheelInv

\* The invariant behind the theorems below: Placed says what the slot of a node
\* shows of its time, which dispatch_list and timer_shift rely on.
LEMMA WheelStep == WheelInv /\ [Next]_vars => WheelInv'
  <1> SUFFICES ASSUME WheelInv, [Next]_vars PROVE WheelInv'
    OBVIOUS
  <1>0. MaxLag \in Nat \ {0} /\ TypeOK /\ (pc # "idle" => todo > 0)
    BY LagAssumption DEF WheelInv
  <1>1. ASSUME NEW n \in Nodes, NEW t \in Delays, NEW reenters \in BOOLEAN, AddTimerNow(n, t, reenters)
        PROVE  WheelInv'
    <2>1. UNCHANGED <<wheel, batch, expire, left, time, pc, todo>>
      BY <1>1 DEF AddTimerNow, nodeVars
    <2>2. TypeOK'
      BY <1>0, <1>1 DEF AddTimerNow, nodeVars, TypeOK
    <2> QED
      BY <1>0, <2>1, <2>2, QuietKeeps
  <1>2. ASSUME NEW n \in Nodes, DelTimer(n) PROVE WheelInv'
    <2>1. UNCHANGED <<wheel, batch, expire, left, time, pc, todo>>
      BY <1>2 DEF DelTimer
    <2>2. TypeOK'
      BY <1>0, <1>2 DEF DelTimer, TypeOK
    <2> QED
      BY <1>0, <2>1, <2>2, QuietKeeps
  <1>3. CASE ClockTick
    <2>1. UNCHANGED <<wheel, batch, expire, left, time, pc, todo>>
      BY <1>3 DEF ClockTick, nodeVars
    <2>2. lag' \in 0 .. MaxLag
      BY <1>0, <1>3 DEF ClockTick, TypeOK
    <2>3. TypeOK'
      BY <1>0, <1>3, <2>2 DEF ClockTick, nodeVars, TypeOK
    <2> QED
      BY <1>0, <2>1, <2>3, QuietKeeps
  <1>4. CASE ExpireTimer
    <2>1. UNCHANGED <<wheel, batch, expire, left, time>> /\ todo' > 0
      BY <1>4 DEF ExpireTimer, nodeVars
    <2>2. todo' \in 0 .. MaxLag /\ lag' \in 0 .. MaxLag
      BY <1>0, <1>4 DEF ExpireTimer, TypeOK
    <2>3. TypeOK'
      BY <1>0, <1>4, <2>2 DEF ExpireTimer, nodeVars, TypeOK
    <2> QED
      BY <2>1, <2>3, QuietKeeps
  <1>5. CASE UpdateLock
    <2>1. UNCHANGED <<wheel, batch, expire, left, time, todo>> /\ pc # "idle"
      BY <1>5 DEF UpdateLock, nodeVars
    <2>2. TypeOK'
      BY <1>0, <1>5 DEF UpdateLock, nodeVars, TypeOK
    <2> QED
      BY <1>0, <2>1, <2>2, QuietKeeps
  <1>6. CASE DispatchEnd
    <2>1. UNCHANGED <<wheel, batch, expire, left, time, todo>> /\ pc # "idle"
      BY <1>6 DEF DispatchEnd, nodeVars
    <2>2. TypeOK'
      BY <1>0, <1>6 DEF DispatchEnd, nodeVars, TypeOK
    <2> QED
      BY <1>0, <2>1, <2>2, QuietKeeps
  <1>7. CASE UpdateUnlock
    <2>1. /\ UNCHANGED <<wheel, batch, expire, left, time>> /\ pc = "execute" /\ lock' = "free"
          /\ todo' = todo - 1 /\ pc' = (IF todo = 1 THEN "idle" ELSE "update")
          /\ UNCHANGED <<cancel, pass, lag>>
      BY <1>7 DEF UpdateUnlock, nodeVars
    <2>2. todo > 0 /\ todo \in 0 .. MaxLag
      BY <1>0, <2>1 DEF TypeOK
    <2>3. todo' \in 0 .. MaxLag /\ (todo # 1 => todo' > 0)
      BY <1>0, <2>1, <2>2
    <2>4. TypeOK'
      BY <1>0, <2>1, <2>3 DEF TypeOK
    <2> QED
      BY <2>1, <2>3, <2>4, QuietKeeps
  <1>8. CASE UNCHANGED vars
    <2>1. UNCHANGED <<wheel, batch, expire, left, time, pc, todo>>
      BY <1>8 DEF vars
    <2>2. TypeOK'
      BY <1>0, <1>8 DEF vars, TypeOK
    <2> QED
      BY <1>0, <2>1, <2>2, QuietKeeps
  <1> QED
    BY <1>1, <1>2, <1>3, <1>4, <1>5, <1>6, <1>7, <1>8,
       AddKeeps, TakeKeeps, DispatchKeeps, ClearKeeps, ShiftKeeps DEF Next, TimerThread

LEMMA WheelInvariance == Spec => []WheelInv
  BY WheelStart, WheelStep, PTL DEF Spec

\* However nodes are added, moved by move_list, taken by link_clear and freed by
\* clear_timer, which empties slot after slot without the lock while other calls
\* and the timer thread are under way, each is linked once: in one slot or in the
\* list under dispatch (timewheel.c:36-49, 89-96, 216-241).  It is taken that
\* clear_timer is never inside a list while another thread changes lists.
THEOREM NodesStayLinkedOnce == Spec => []NodesOK
  <1>1. WheelInv => NodesOK
    <2> SUFFICES ASSUME WheelInv PROVE TypeOK /\ OnePlace
      BY DEF NodesOK
    <2>1. ASSUME NEW n \in Nodes, Pending(n) PROVE ~InBatch(n)
      BY <2>1 DEF WheelInv, Placed, Pending, InSlot, In
    <2> QED
      BY <2>1 DEF WheelInv, Once, BatchOnce, OnePlace
  <1> QED
    BY <1>1, WheelInvariance, PTL

\* Whatever the delay, the cascades and the wraps of T->time, a timer that is
\* dispatched is due at this very tick (timewheel.c:52-67, 99-120).
THEOREM TimersFireOnTime == Spec => []FiresOnTime
  <1>1. WheelInv => FiresOnTime
    BY DEF WheelInv
  <1> QED
    BY <1>1, WheelInvariance, PTL

\* A timer that timer_shift leaves behind is in slot 0 of t[0], t[1] or t[2], the
\* ones its loop goes past (timewheel.c:99-120).
THEOREM OthersAreNotOverdue == Spec => []OverdueOnlyInZeroSlots
  <1>1. WheelInv => OverdueOnlyInZeroSlots
    <2> SUFFICES ASSUME WheelInv, NEW n \in Nodes, NEW s \in Slots, InSlot(n, s), s \notin ZeroSlots
                 PROVE  ~(left[n] < 0)
      BY DEF OverdueOnlyInZeroSlots
    <2>1. left[n] = (expire[n] - time) % UINT
      BY DEF WheelInv, Placed, InSlot, In, Fits, FitsAs
    <2>2. expire[n] \in 0 .. UINT - 1 /\ time \in 0 .. UINT - 1
      BY DEF WheelInv, TypeOK
    <2>3. (expire[n] - time) % UINT \in 0 .. UINT - 1
      BY <2>2, TargetFits
    <2> QED
      BY <2>1, <2>3, Spans
  <1> QED
    BY <1>1, WheelInvariance, PTL
=============================================================================
