------------------------------- MODULE RBTree -------------------------------
(***************************************************************************)
(* The red-black tree library of src/smart-queue.c (lines 113-532), a cut  *)
(* of the kernel's lib/rbtree.c.  A tree is a record                       *)
(*   [root, parent, left, right, color]                                    *)
(* where root is the rb_root and parent/left/right/color are functions    *)
(* over the node set: the fields of struct rb_node, with the parent       *)
(* pointer and the colour bit that the code packs into rb_parent_color    *)
(* kept apart.  Every library routine is an operator from a tree to a     *)
(* tree; the loops of rb_insert_color and __rb_erase_color are RECURSIVE  *)
(* operators whose recursion is the loop's next iteration.  The mirrored  *)
(* halves of each routine are one operator parameterised by the side d    *)
(* ("left" or "right") on which the loop's node hangs.                    *)
(***************************************************************************)
EXTENDS Naturals, FiniteSets, Sequences

CONSTANTS Node,   \* the nodes (struct rb_node embedded in each task)
          NIL     \* the NULL pointer

ASSUME NIL \notin Node

RB_RED   == 0
RB_BLACK == 1

Sides == {"left", "right"}
Opp(d) == IF d = "left" THEN "right" ELSE "left"

Trees == [root : Node \cup {NIL},
          parent : [Node -> Node \cup {NIL}],
          left : [Node -> Node \cup {NIL}],
          right : [Node -> Node \cup {NIL}],
          color : [Node -> {RB_RED, RB_BLACK}]]

EmptyTree == [root |-> NIL,
              parent |-> [n \in Node |-> NIL],
              left |-> [n \in Node |-> NIL],
              right |-> [n \in Node |-> NIL],
              color |-> [n \in Node |-> RB_RED]]

\* rb_is_black on a possibly NULL pointer, as the erase path tests it:
\* (!x || rb_is_black(x)).
IsBlack(T, x) == x = NIL \/ T.color[x] = RB_BLACK

\* rb_set_parent, skipped when the code guards it with "if (child)".
SetParent(T, x, p) == IF x = NIL THEN T ELSE [T EXCEPT !.parent[x] = p]

\* The "if (parent) { if (old == parent->rb_left) ... } else root = new"
\* step shared by the rotations and rb_erase.
ReplaceChild(T, p, old, new) ==
    IF p = NIL THEN [T EXCEPT !.root = new]
    ELSE IF T.left[p] = old THEN [T EXCEPT !.left[p] = new]
    ELSE [T EXCEPT !.right[p] = new]

\* __rb_rotate_left (d = "left") and __rb_rotate_right (d = "right"):
\* the child c on the opposite side moves up, n becomes its d-child.
Rotate(T, d, n) ==
    LET c  == T[Opp(d)][n]
        gc == T[d][c]
        p  == T.parent[n]
        T1 == [T EXCEPT ![Opp(d)][n] = gc]
        T2 == SetParent(T1, gc, n)
        T3 == [T2 EXCEPT ![d][c] = n, !.parent[c] = p]
    IN  [ReplaceChild(T3, p, n, c) EXCEPT !.parent[n] = c]

\* rb_link_node: the node becomes a red leaf hanging from parent on side d
\* (NIL parent: the new root).
LinkNode(T, n, parent, d) ==
    LET T1 == [T EXCEPT !.parent[n] = parent, !.color[n] = RB_RED,
                        !.left[n] = NIL, !.right[n] = NIL]
    IN  IF parent = NIL THEN [T1 EXCEPT !.root = n]
                        ELSE [T1 EXCEPT ![d][parent] = n]

\* rb_insert_color: one recursion per iteration of its while loop; d is
\* the side of gparent on which parent hangs.
RECURSIVE InsertColor(_, _)
InsertColor(T, node) ==
    LET parent == T.parent[node] IN
    IF parent = NIL \/ T.color[parent] = RB_BLACK
    THEN [T EXCEPT !.color[T.root] = RB_BLACK]
    ELSE LET g     == T.parent[parent]
             d     == IF parent = T.left[g] THEN "left" ELSE "right"
             uncle == T[Opp(d)][g]
         IN  IF uncle # NIL /\ T.color[uncle] = RB_RED
             THEN InsertColor([T EXCEPT !.color[uncle] = RB_BLACK,
                                        !.color[parent] = RB_BLACK,
                                        !.color[g] = RB_RED], g)
             ELSE LET inner == T[Opp(d)][parent] = node
                      T1    == IF inner THEN Rotate(T, d, parent) ELSE T
                      p1    == IF inner THEN node ELSE parent
                      n1    == IF inner THEN parent ELSE node
                      T2    == [T1 EXCEPT !.color[p1] = RB_BLACK,
                                          !.color[g] = RB_RED]
                  IN  InsertColor(Rotate(T2, Opp(d), g), n1)

\* Mutant: the red-sibling case (rotate at parent, recolour) skipped.
RECURSIVE EraseColorNoRedSib(_, _, _)
EraseColorNoRedSib(T, node, parent) ==
    IF ~(IsBlack(T, node) /\ node # T.root)
    THEN IF node # NIL THEN [T EXCEPT !.color[node] = RB_BLACK] ELSE T
    ELSE LET d      == IF T.left[parent] = node THEN "left" ELSE "right"
             T1     == T
             other  == T1[Opp(d)][parent]
         IN
         IF IsBlack(T1, T1.left[other]) /\ IsBlack(T1, T1.right[other])
         THEN EraseColorNoRedSib([T1 EXCEPT !.color[other] = RB_RED],
                         parent, T1.parent[parent])
         ELSE LET outerBlack == IsBlack(T1, T1[Opp(d)][other])
                  inner      == T1[d][other]
                  Tb == IF inner # NIL
                        THEN [T1 EXCEPT !.color[inner] = RB_BLACK] ELSE T1
                  T2 == IF outerBlack
                        THEN Rotate([Tb EXCEPT !.color[other] = RB_RED],
                                    Opp(d), other)
                        ELSE T1
                  o2    == T2[Opp(d)][parent]
                  outer == T2[Opp(d)][o2]
                  T3 == [T2 EXCEPT !.color[o2] = T2.color[parent],
                                   !.color[parent] = RB_BLACK]
                  T4 == IF outer # NIL
                        THEN [T3 EXCEPT !.color[outer] = RB_BLACK] ELSE T3
                  T5 == Rotate(T4, d, parent)
              IN  [T5 EXCEPT !.color[T5.root] = RB_BLACK]

\* __rb_erase_color: node is the (possibly NULL) child that replaced a
\* removed black node under parent; d is the side of parent it hangs on.
RECURSIVE EraseColor(_, _, _)
EraseColor(T, node, parent) ==
    IF ~(IsBlack(T, node) /\ node # T.root)
    THEN IF node # NIL THEN [T EXCEPT !.color[node] = RB_BLACK] ELSE T
    ELSE LET d      == IF T.left[parent] = node THEN "left" ELSE "right"
             o0     == T[Opp(d)][parent]
             redSib == T.color[o0] = RB_RED
             T1     == IF redSib
                       THEN Rotate([T EXCEPT !.color[o0] = RB_BLACK,
                                             !.color[parent] = RB_RED],
                                   d, parent)
                       ELSE T
             other  == T1[Opp(d)][parent]
         IN
         IF IsBlack(T1, T1.left[other]) /\ IsBlack(T1, T1.right[other])
         THEN EraseColor([T1 EXCEPT !.color[other] = RB_RED],
                         parent, T1.parent[parent])
         ELSE LET outerBlack == IsBlack(T1, T1[Opp(d)][other])
                  inner      == T1[d][other]
                  Tb == IF inner # NIL
                        THEN [T1 EXCEPT !.color[inner] = RB_BLACK] ELSE T1
                  T2 == IF outerBlack
                        THEN Rotate([Tb EXCEPT !.color[other] = RB_RED],
                                    Opp(d), other)
                        ELSE T1
                  o2    == T2[Opp(d)][parent]
                  outer == T2[Opp(d)][o2]
                  T3 == [T2 EXCEPT !.color[o2] = T2.color[parent],
                                   !.color[parent] = RB_BLACK]
                  T4 == IF outer # NIL
                        THEN [T3 EXCEPT !.color[outer] = RB_BLACK] ELSE T3
                  T5 == Rotate(T4, d, parent)
              IN  [T5 EXCEPT !.color[T5.root] = RB_BLACK]

\* The "while (n->rb_left) n = n->rb_left" descent of rb_first and of the
\* successor search in rb_erase.
RECURSIVE LeftmostFrom(_, _)
LeftmostFrom(T, n) ==
    IF T.left[n] = NIL THEN n ELSE LeftmostFrom(T, T.left[n])

\* The in-order successor that replaces a node with two children in
\* rb_erase: the leftmost node of its right subtree.
Successor(T, old) == LeftmostFrom(T, T.right[old])

\* rb_first
First(T) == IF T.root = NIL THEN NIL ELSE LeftmostFrom(T, T.root)

\* The "while (n->rb_d) n = n->rb_d" descent of rb_last, rb_next and
\* rb_prev.
RECURSIVE OutmostFrom(_, _, _)
OutmostFrom(T, d, n) ==
    IF T[d][n] = NIL THEN n ELSE OutmostFrom(T, d, T[d][n])

\* rb_last
RbLast(T) == IF T.root = NIL THEN NIL ELSE OutmostFrom(T, "right", T.root)

\* Mutant: the climb goes on while node is a left child.
RECURSIVE ClimbWrongSide(_, _, _)
ClimbWrongSide(T, d, n) ==
    LET p == T.parent[n]
    IN  IF p # NIL /\ n = T[Opp(d)][p] THEN ClimbWrongSide(T, d, p) ELSE p

\* "while ((parent = rb_parent(node)) && node == parent->rb_d)
\* node = parent; return parent;"
RECURSIVE Climb(_, _, _)
Climb(T, d, n) ==
    LET p == T.parent[n]
    IN  IF p # NIL /\ n = T[d][p] THEN Climb(T, d, p) ELSE p

\* rb_next (d = "right") and rb_prev (d = "left"): a node that is its own
\* parent is not in a tree; with a d-child, the outmost node on the other
\* side below it; else the first ancestor reached from its other side.
Adjacent(T, d, node) ==
    CASE T.parent[node] = node -> NIL
      [] T[d][node] # NIL      -> OutmostFrom(T, Opp(d), T[d][node])
      [] OTHER                 -> Climb(T, d, node)

RbNext(T, node) == Adjacent(T, "right", node)
RbPrev(T, node) == Adjacent(T, "left", node)

\* Mutant: the children of victim keep victim as their parent.
ReplaceNodeNoReparent(T, victim, new) ==
    LET T1 == ReplaceChild(T, T.parent[victim], victim, new)
    IN  [T1 EXCEPT !.parent[new] = T1.parent[victim], !.left[new] = T1.left[victim],
                   !.right[new] = T1.right[victim], !.color[new] = T1.color[victim]]

\* rb_replace_node: the parent (or the root) and the children of victim
\* point to new, then "*new = *victim" copies its links and colour.
ReplaceNode(T, victim, new) ==
    LET T1 == ReplaceChild(T, T.parent[victim], victim, new)
        T2 == SetParent(SetParent(T1, T1.left[victim], new), T1.right[victim], new)
    IN  [T2 EXCEPT !.parent[new] = T2.parent[victim], !.left[new] = T2.left[victim],
                   !.right[new] = T2.right[victim], !.color[new] = T2.color[victim]]

\* rb_erase: unlink node, splice in its child (or, with two children, its
\* in-order successor), then repair the colours if a black node left.
Erase(T, node) ==
    IF T.left[node] # NIL /\ T.right[node] # NIL
    THEN LET old    == node
             succ   == Successor(T, old)
             child  == T.right[succ]
             sp     == T.parent[succ]
             color  == T.color[succ]
             T1     == SetParent(T, child, sp)
             T2     == IF sp = old THEN [T1 EXCEPT !.right[sp] = child]
                                   ELSE [T1 EXCEPT !.left[sp] = child]
             parent == IF sp = old THEN succ ELSE sp
             T3     == [T2 EXCEPT !.parent[succ] = T2.parent[old],
                                  !.color[succ] = T2.color[old],
                                  !.right[succ] = T2.right[old],
                                  !.left[succ] = T2.left[old]]
             T4     == ReplaceChild(T3, T3.parent[old], old, succ)
             T5     == SetParent(SetParent(T4, T4.left[old], succ),
                                 T4.right[old], succ)
         IN  IF color = RB_BLACK THEN EraseColor(T5, child, parent) ELSE T5
    ELSE LET child  == IF T.left[node] = NIL THEN T.right[node] ELSE T.left[node]
             parent == T.parent[node]
             T1     == ReplaceChild(SetParent(T, child, parent), parent, node, child)
         IN  IF T.color[node] = RB_BLACK THEN EraseColor(T1, child, parent) ELSE T1

(***************************************************************************)
(* Shape predicates, used by the invariants of the modules that hold a     *)
(* tree.  Recursion is bounded by the number of nodes so that a corrupted  *)
(* (cyclic) tree is reported as a violation, never as a stack overflow.   *)
(***************************************************************************)
Depth == Cardinality(Node) + 1

RECURSIVE Below(_, _, _)
Below(T, n, k) ==
    IF n = NIL \/ k = 0 THEN {}
    ELSE {n} \cup Below(T, T.left[n], k - 1) \cup Below(T, T.right[n], k - 1)

\* The nodes reachable from the root: the tasks on the runqueue.
Nodes(T) == Below(T, T.root, Depth)

RECURSIVE InOrderB(_, _, _)
InOrderB(T, n, k) ==
    IF n = NIL \/ k = 0 THEN <<>>
    ELSE InOrderB(T, T.left[n], k - 1) \o <<n>> \o InOrderB(T, T.right[n], k - 1)

InOrder(T) == InOrderB(T, T.root, Depth)

RECURSIVE BlackCounts(_, _, _)
BlackCounts(T, n, k) ==
    IF n = NIL \/ k = 0 THEN {0}
    ELSE {b + T.color[n] : b \in BlackCounts(T, T.left[n], k - 1)
                                 \cup BlackCounts(T, T.right[n], k - 1)}

\* Parent pointers agree with child pointers and the root has no parent,
\* so the reachable part is a tree (no sharing, no cycle).
WellLinked(T) ==
    /\ T.root # NIL => T.parent[T.root] = NIL
    /\ \A n \in Nodes(T), d \in Sides :
          T[d][n] # NIL => T.parent[T[d][n]] = n
    /\ Len(InOrder(T)) = Cardinality(Nodes(T))

\* The red-black properties: black root, no red node with a red child,
\* the same number of black nodes on every path from the root to a leaf.
IsRedBlack(T) ==
    /\ T.root # NIL => T.color[T.root] = RB_BLACK
    /\ \A n \in Nodes(T), d \in Sides :
          T.color[n] = RB_RED /\ T[d][n] # NIL => T.color[T[d][n]] = RB_BLACK
    /\ Cardinality(BlackCounts(T, T.root, Depth)) = 1
=============================================================================
