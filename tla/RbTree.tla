------------------------------- MODULE RbTree -------------------------------
(***************************************************************************)
(* util/rbtree.{c,h}: a red-black tree with parent pointers.               *)
(*                                                                         *)
(* A node is named by its key; rbtree_delete, which exchanges the keys of  *)
(* two nodes, thus exchanges their names.  The fixups are loops: one       *)
(* iteration is one step.  left_rotate and right_rotate, and the two       *)
(* halves of each fixup, are mirror images and written once, for a side.   *)
(* Fields of nodes outside the tree (freed, or lost) are kept blank.       *)
(***************************************************************************)
EXTENDS Integers, Sequences, FiniteSets

CONSTANTS
    Keys,       \* the keys used
    nil         \* T->nil

ASSUME KeysAssumption == Keys \subseteq Int /\ nil \notin Keys

VARIABLES
    tree,       \* the nodes' fields and T->root
    pc,         \* the function in progress
    node,       \* its cursor
    victim,     \* the node that rbtree_delete takes out
    freeing,    \* rbtree_free is in progress
    stored,     \* history: keys inserted and not deleted, nor dropped by DeleteAtRoot
    climbed     \* history: delete_fixup has gone up a level since the tree was empty

vars == <<tree, pc, node, victim, freeing, stored, climbed>>

Sides == {"left", "right"}
Other(s) == IF s = "left" THEN "right" ELSE "left"

Blank == [n \in Keys |-> nil]

EmptyTree ==
    [root |-> nil, kid |-> [s \in Sides |-> Blank], parent |-> Blank,
     color |-> [n \in Keys |-> "black"]]

Init ==
    /\ tree = EmptyTree
    /\ pc = "idle" /\ node = nil /\ victim = nil /\ freeing = FALSE
    /\ stored = {} /\ climbed = FALSE

-----------------------------------------------------------------------------
(* Pointers, colours and rotations.                                        *)

IsRed(t, n) == n # nil /\ t.color[n] = "red"

SideOf(t, n) == IF n = t.kid["left"][t.parent[n]] THEN "left" ELSE "right"

\* The place of n under its parent, or at the root, is given to m.
Linked(t, n, m) ==
    IF t.parent[n] = nil THEN [t EXCEPT !.root = m]
    ELSE [t EXCEPT !.kid[SideOf(t, n)][t.parent[n]] = m]

Parented(t, n, p) == IF n = nil THEN t ELSE [t EXCEPT !.parent[n] = p]

Swapped(t, n, m) == [t EXCEPT !.color[n] = t.color[m], !.color[m] = t.color[n]]

\* Mutation: the subtree that changes sides keeps its parent.
Rotate_LosesParent(t, p, s) ==
    LET c == t.kid[Other(s)][p] IN
    [Swapped(Linked(t, p, c), p, c) EXCEPT
        !.kid[Other(s)][p] = t.kid[s][c], !.kid[s][c] = p,
        !.parent[c] = t.parent[p], !.parent[p] = c]

\* left_rotate and right_rotate: p goes down to the side s, its child comes up,
\* and each position keeps its colour.
Rotate(t, p, s) ==
    LET c == t.kid[Other(s)][p]
        middle == t.kid[s][c]
        turned == [Swapped(Linked(t, p, c), p, c) EXCEPT
                      !.kid[Other(s)][p] = middle, !.kid[s][c] = p,
                      !.parent[c] = t.parent[p], !.parent[p] = c]
    IN  Parented(turned, middle, p)

-----------------------------------------------------------------------------
(* What the pointers describe.                                             *)

InOrder(t) ==
    LET walk[n \in Keys \cup {nil}] ==
            IF n = nil THEN << >> ELSE walk[t.kid["left"][n]] \o <<n>> \o walk[t.kid["right"][n]]
    IN  walk[t.root]

KeysOf(t) == LET s == InOrder(t) IN {s[i] : i \in DOMAIN s}

\* rbtree_find follows the order; it returns nil for a key that is not met.
Find(t, key) ==
    LET from[n \in Keys \cup {nil}] ==
            IF n = nil \/ n = key THEN n
            ELSE from[t.kid[IF n < key THEN "right" ELSE "left"][n]]
    IN  from[t.root]

\* The node under which rbtree_insert hangs a key, nil in an empty tree.
LastBefore(t, key) ==
    LET from[n \in Keys \cup {nil}] ==
            LET next == IF n = nil THEN nil ELSE t.kid[IF n < key THEN "right" ELSE "left"][n]
            IN  IF next = nil THEN n ELSE from[next]
    IN  from[t.root]

Only(t) ==
    LET in == KeysOf(t) IN
    [t EXCEPT !.kid = [s \in Sides |-> [n \in Keys |-> IF n \in in THEN t.kid[s][n] ELSE nil]],
              !.parent = [n \in Keys |-> IF n \in in THEN t.parent[n] ELSE nil],
              !.color = [n \in Keys |-> IF n \in in THEN t.color[n] ELSE "black"]]

-----------------------------------------------------------------------------
(* rbtree_insert and insert_fixup.                                         *)

\* A key that is in the tree already is ignored.
Insert(key) ==
    LET p == LastBefore(tree, key) IN
    /\ pc = "idle" /\ ~freeing /\ Find(tree, key) = nil
    /\ stored' = stored \cup {key}
    /\ IF p = nil
       THEN tree' = [tree EXCEPT !.root = key]
       ELSE tree' = [tree EXCEPT !.kid[IF key < p THEN "left" ELSE "right"][p] = key,
                                 !.parent[key] = p, !.color[key] = "red"]
    /\ IF IsRed(tree, p) THEN pc' = "insert" /\ node' = key ELSE UNCHANGED <<pc, node>>
    /\ UNCHANGED <<victim, freeing, climbed>>

Fixing(f) == pc = f /\ UNCHANGED <<freeing, stored>>

Uncle(p) == tree.kid[Other(SideOf(tree, p))][tree.parent[p]]

\* The new red node and its parent brought to the same side.
Straightened(p) ==
    IF node = tree.kid[SideOf(tree, p)][p] THEN tree ELSE Rotate(tree, p, SideOf(tree, p))

\* Mutation: the loop stays at the same node.
Up_Not(p) == node

\* Where the loop goes on: at the grandparent.
Up(p) == tree.parent[p]

InsertRecolor ==
    LET p == tree.parent[node]
        g == tree.parent[p]
        t == Swapped(tree, p, g)
    IN  /\ Fixing("insert") /\ IsRed(tree, p) /\ IsRed(tree, Uncle(p))
        /\ tree' = [t EXCEPT !.color[Uncle(p)] = t.color[p]]
        /\ node' = Up(p)
        /\ UNCHANGED <<pc, victim, climbed>>

InsertRotate ==
    LET p == tree.parent[node]
        g == tree.parent[p]
    IN  /\ Fixing("insert") /\ IsRed(tree, p) /\ ~IsRed(tree, Uncle(p))
        /\ tree' = Rotate(Straightened(p), g, Other(SideOf(tree, p)))
        /\ node' = IF node = tree.kid[SideOf(tree, p)][p] THEN node ELSE p
        /\ UNCHANGED <<pc, victim, climbed>>

InsertDone ==
    /\ Fixing("insert") /\ ~IsRed(tree, tree.parent[node])
    /\ tree' = [tree EXCEPT !.color[tree.root] = "black"]
    /\ pc' = "idle" /\ node' = nil
    /\ UNCHANGED <<victim, climbed>>

-----------------------------------------------------------------------------
(* rbtree_delete and delete_fixup.                                         *)

Successor(t, n) ==
    LET leftmost[m \in Keys] ==
            IF t.kid["left"][m] = nil THEN m ELSE leftmost[t.kid["left"][m]]
    IN  leftmost[t.kid["right"][n]]

\* The keys of n and m are exchanged: each takes the other's place.
Exchanged(t, n, m) ==
    LET ren(x) == IF x = n THEN m ELSE IF x = m THEN n ELSE x
        moved(f) == [x \in Keys |-> ren(f[ren(x)])]
    IN  [root |-> ren(t.root), kid |-> [s \in Sides |-> moved(t.kid[s])],
         parent |-> moved(t.parent), color |-> [x \in Keys |-> t.color[ren(x)]]]

Kids(t, n) == {t.kid[s][n] : s \in Sides} \ {nil}

Unlinked(t, n, m) == Parented(Linked(t, n, m), m, t.parent[n])

\* logic_delete and free: the only child, or nil, takes the place of n.
Removed(t, n) ==
    LET kids == Kids(t, n) IN
    Only(Unlinked(t, n, IF kids = {} THEN nil ELSE CHOOSE c \in kids : TRUE))

Blackened(t, S) == [t EXCEPT !.color = [n \in Keys |-> IF n \in S THEN "black" ELSE @[n]]]

\* One child only: it becomes black.  A red node needs nothing.  Both tests of
\* delete_fixup can succeed in its first round only: later the node is the
\* same, or a black parent of two.
Delete(key) ==
    LET t == IF Cardinality(Kids(tree, key)) = 2
             THEN Exchanged(tree, key, Successor(tree, key)) ELSE tree
        kids == Kids(t, key)
    IN  /\ pc = "idle" /\ Find(tree, key) = key
        /\ freeing => key = tree.root
        /\ IF Cardinality(kids) = 1 \/ IsRed(t, key)
           THEN tree' = Removed(Blackened(t, kids), key) /\ UNCHANGED <<pc, node, victim>>
           ELSE tree' = t /\ pc' = "delete" /\ node' = key /\ victim' = key
        /\ stored' = stored \ {key}
        /\ UNCHANGED <<freeing, climbed>>

\* delete_fixup has done its work on the tree and returns.
Finish(t) ==
    /\ tree' = Removed(t, victim)
    /\ pc' = "idle" /\ node' = nil /\ victim' = nil

\* The root itself is the last node, or the fixup has climbed to it: T->root
\* becomes nil all the same, and whatever else the tree holds is lost.
DeleteAtRoot ==
    /\ pc = "delete" /\ node = tree.root
    /\ Finish([tree EXCEPT !.root = nil])
    /\ stored' = {} /\ climbed' = FALSE
    /\ UNCHANGED freeing

Brother == tree.kid[Other(SideOf(tree, node))][tree.parent[node]]

\* A red brother is rotated up, and the node has a black one.
DeleteRedBrother ==
    /\ Fixing("delete") /\ node # tree.root
    /\ IsRed(tree, Brother)
    /\ tree' = Rotate(tree, tree.parent[node], SideOf(tree, node))
    /\ UNCHANGED <<pc, node, victim, climbed>>

BlackBrother == node # tree.root /\ Brother # nil /\ ~IsRed(tree, Brother)

\* Mutation: the red nephew keeps its colour.
Nephew_KeepsColor(n) == tree

Nephew(n) == Blackened(tree, {n})

\* A black brother gives up a child of his, of whatever colour.
DeleteBorrow ==
    LET p == tree.parent[node]
        s == SideOf(tree, node)
        outer == tree.kid[Other(s)][Brother]
        inner == tree.kid[s][Brother]
    IN  /\ Fixing("delete") /\ BlackBrother /\ Kids(tree, Brother) # {}
        /\ Finish(IF outer # nil THEN Rotate(Nephew(outer), p, s)
                  ELSE Rotate(Rotate(Nephew(inner), Brother, Other(s)), p, s))
        /\ UNCHANGED climbed

\* A black brother without children: the red parent takes his colour, or he
\* becomes red and the parent is next.
DeleteRecolor ==
    LET p == tree.parent[node] IN
    /\ Fixing("delete") /\ BlackBrother /\ Kids(tree, Brother) = {}
    /\ \/ /\ IsRed(tree, p)
          /\ Finish(Swapped(tree, p, Brother))
          /\ UNCHANGED climbed
       \/ /\ ~IsRed(tree, p)
          /\ tree' = [tree EXCEPT !.color[Brother] = "red"]
          /\ node' = p /\ climbed' = TRUE /\ UNCHANGED <<pc, victim>>

-----------------------------------------------------------------------------
\* A node without a brother: the code takes nil for one and colours its child,
\* which is NULL.
Crash ==
    /\ Fixing("delete") /\ node # tree.root /\ Brother = nil
    /\ pc' = "crashed"
    /\ UNCHANGED <<tree, node, victim, climbed>>

\* rbtree_free deletes at the root until the tree is empty.
Free ==
    /\ pc = "idle" /\ ~freeing /\ freeing' = TRUE
    /\ UNCHANGED <<tree, pc, node, victim, stored, climbed>>

\* The tree is gone; a new one may be created.
FreeDone ==
    /\ pc = "idle" /\ freeing /\ tree.root = nil
    /\ tree' = EmptyTree /\ freeing' = FALSE
    /\ stored' = {} /\ climbed' = FALSE
    /\ UNCHANGED <<pc, node, victim>>

Fixup ==
    \/ InsertRecolor \/ InsertRotate \/ InsertDone
    \/ DeleteAtRoot \/ DeleteRedBrother \/ DeleteBorrow \/ DeleteRecolor
    \/ Crash

Next ==
    \/ Fixup \/ Free \/ FreeDone
    \/ \E key \in Keys : Insert(key) \/ Delete(key)

Spec == Init /\ [][Next]_vars

-----------------------------------------------------------------------------
(* Properties.                                                             *)

\* At rest, whatever earlier deletions did to the balance, the keys are in
\* order, every parent pointer is the inverse of a child pointer, and the root
\* is black: a red parent has a parent itself (c:64-135, c:171, c:400).
SearchTree ==
    pc = "idle" =>
        /\ ~IsRed(tree, tree.root)
        /\ LET s == InOrder(tree) IN \A i \in 1 .. Len(s) - 1 : s[i] < s[i + 1]
        /\ \A n \in KeysOf(tree) :
               /\ n = tree.root => tree.parent[n] = nil
               /\ \A m \in Kids(tree, n) : tree.parent[m] = n

\* The set of black counts from n down to nil.
BlackHeights(t) ==
    LET own(n) == IF IsRed(t, n) THEN 0 ELSE 1
        below[n \in Keys \cup {nil}] ==
            IF n = nil THEN {0}
            ELSE {h + own(n) : h \in below[t.kid["left"][n]] \cup below[t.kid["right"][n]]}
    IN  below[t.root]

RedBlackRules ==
    /\ ~IsRed(tree, tree.root)
    /\ \A n \in KeysOf(tree) : IsRed(tree, n) => \A m \in Kids(tree, n) : ~IsRed(tree, m)
    /\ Cardinality(BlackHeights(tree)) = 1

\* As long as no deletion has gone up a level, the tree at rest obeys the
\* red-black rules and nothing dereferences NULL (c:163-224, c:289-362).
RulesUntilClimb ==
    ~climbed => /\ pc = "idle" => RedBlackRules
                /\ pc # "crashed"

\* The tree holds exactly what was inserted and not deleted since it was last
\* empty, balanced or not: only DeleteAtRoot loses keys (c:227-260, c:365-411).
HoldsStored == pc = "idle" => KeysOf(tree) = stored

Depth(t, n) ==
    LET levels[m \in Keys \cup {nil}] == IF m = nil THEN 0 ELSE 1 + levels[t.parent[m]]
    IN  levels[n]

\* The fixup loops end: a further round starts closer to the root, or on the
\* same node whose red brother has become a black one (c:169-220, c:292-357).
RoundsEnd ==
    [][pc # "idle" /\ pc' = pc =>
        \/ Depth(tree', node') < Depth(tree, node)
        \/ node' = node /\ IsRed(tree, Brother) /\ ~IsRed(tree, Brother)']_vars

\* A search finds what was stored: order and contents (c:146-160).
KeysOK == SearchTree /\ HoldsStored
=============================================================================
