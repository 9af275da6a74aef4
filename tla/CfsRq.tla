-------------------------------- MODULE CfsRq --------------------------------
(***************************************************************************)
(* The CFS-style runqueue of src/smart-queue.c (lines 541-609): tasks in  *)
(* a red-black tree ordered by their time t, with a cached pointer to the *)
(* leftmost node.  Any sequence of cfs_queue / cfs_dequeue calls that the *)
(* code allows (a task is queued only while it is off the queue).         *)
(***************************************************************************)
EXTENDS Naturals, FiniteSets, Sequences, SequencesExt

CONSTANTS Task,  \* the task pool (struct cfs_task)
          Key,   \* the time values t a task is queued with
          NIL

ASSUME Key \subseteq Nat /\ 0 \in Key

INSTANCE RBTree WITH Node <- Task

VARIABLES tree,         \* rq->tasks_timeline and the run_node of every task
          rb_leftmost,  \* rq->rb_leftmost
          key,          \* tsk->t of every task
          out           \* the task the last cfs_dequeue returned

vars == <<tree, rb_leftmost, key, out>>

TypeOK ==
    /\ tree \in Trees
    /\ rb_leftmost \in Task \cup {NIL}
    /\ key \in [Task -> Key]
    /\ out \in Task \cup {NIL}

\* cfs_rqinit; the harness sets tasks[i].t = 0 before the first queue.
Init ==
    /\ tree = EmptyTree
    /\ rb_leftmost = NIL
    /\ key = [x \in Task |-> 0]
    /\ out = NIL

\* Mutant: the descent forgets "leftmost = 0" on a right step.
RECURSIVE DescendKeepLeftmost(_, _, _, _, _)
DescendKeepLeftmost(T, kf, k, n, lm) ==
    LET d == IF k < kf[n] THEN "left" ELSE "right"
    IN  IF T[d][n] = NIL THEN [parent |-> n, side |-> d, leftmost |-> lm]
                         ELSE DescendKeepLeftmost(T, kf, k, T[d][n], lm)

\* Mutant: the key comparison of the descent inverted.
RECURSIVE DescendInverted(_, _, _, _, _)
DescendInverted(T, kf, k, n, lm) ==
    LET d   == IF k > kf[n] THEN "left" ELSE "right"
        lm1 == lm /\ d = "left"
    IN  IF T[d][n] = NIL THEN [parent |-> n, side |-> d, leftmost |-> lm1]
                         ELSE DescendInverted(T, kf, k, T[d][n], lm1)

\* The descent loop of cfs_queue from node n: left when k < entry->t,
\* right otherwise (ties go right); leftmost stays TRUE only while every
\* step went left.
RECURSIVE Descend(_, _, _, _, _)
Descend(T, kf, k, n, lm) ==
    LET d   == IF k < kf[n] THEN "left" ELSE "right"
        lm1 == lm /\ d = "left"
    IN  IF T[d][n] = NIL THEN [parent |-> n, side |-> d, leftmost |-> lm1]
                         ELSE Descend(T, kf, k, T[d][n], lm1)

LinkPos(T, kf, k) ==
    IF T.root = NIL THEN [parent |-> NIL, side |-> "left", leftmost |-> TRUE]
                    ELSE Descend(T, kf, k, T.root, TRUE)

\* cfs_queue(tsk, rq, t): set tsk->t, find the link, update the leftmost
\* cache, rb_link_node and rb_insert_color.
CfsQueue(tsk, t) ==
    /\ tsk \notin Nodes(tree)
    /\ LET pos == LinkPos(tree, key, t)
       IN  /\ tree' = InsertColor(LinkNode(tree, tsk, pos.parent, pos.side), tsk)
           /\ rb_leftmost' = IF pos.leftmost THEN tsk ELSE rb_leftmost
    /\ key' = [key EXCEPT ![tsk] = t]
    /\ UNCHANGED out

\* Mutant: without a cached node, the root is taken for the first node.
FirstFairRoot == IF rb_leftmost # NIL THEN rb_leftmost ELSE tree.root

\* first_fair: the cached leftmost node, else rb_first.
FirstFair == IF rb_leftmost # NIL THEN rb_leftmost ELSE First(tree)

\* __dequeue_task_fair: drop the cache if it names p, then rb_erase.
DequeueTaskFair(p) ==
    /\ rb_leftmost' = IF rb_leftmost = p THEN NIL ELSE rb_leftmost
    /\ tree' = Erase(tree, p)

\* cfs_dequeue on a non-empty queue.
CfsDequeue ==
    /\ FirstFair # NIL
    /\ DequeueTaskFair(FirstFair)
    /\ out' = FirstFair
    /\ UNCHANGED key

\* cfs_dequeue on an empty queue: first_fair is NULL and so is the result.
CfsDequeueEmpty ==
    /\ FirstFair = NIL
    /\ out' = NIL
    /\ UNCHANGED <<tree, rb_leftmost, key>>

Next ==
    \/ \E tsk \in Task, t \in Key : CfsQueue(tsk, t)
    \/ CfsDequeue
    \/ CfsDequeueEmpty

Spec == Init /\ [][Next]_vars

-----------------------------------------------------------------------------
(* Properties *)

\* After every cfs_queue and cfs_dequeue the rotations and recolourings of
\* rb_insert_color / rb_erase / __rb_erase_color leave a well-linked tree
\* with the red-black properties (root black, no red-red edge, equal black
\* height on every path).
RedBlack == WellLinked(tree) /\ IsRedBlack(tree)

\* The in-order walk of the tree is sorted by tsk->t: the descent of
\* cfs_queue and every rotation keep the search order, ties included.
SearchOrder ==
    IsSorted([i \in 1..Len(InOrder(tree)) |-> key[InOrder(tree)[i]]], <=)

\* rq->rb_leftmost, when set, is the tree's first node: the cache is set
\* only by a cfs_queue whose descent never went right, and dropped when
\* its node is dequeued, across any interleaving of queues and dequeues.
LeftmostCached == rb_leftmost \in {NIL, First(tree)}

\* On every tree the runqueue goes through, the library's walk agrees with
\* the search order: rb_next and rb_prev step to the in-order neighbours
\* (NULL past the ends) and rb_last is the last node.  They climb by the
\* parent pointers that the rotations and rb_erase's splice rewrite.
WalkInOrder ==
    LET io == InOrder(tree)
        n  == Len(io)
    IN  /\ RbLast(tree) = (IF n = 0 THEN NIL ELSE io[n])
        /\ \A i \in 1..n :
              /\ RbNext(tree, io[i]) = (IF i = n THEN NIL ELSE io[i + 1])
              /\ RbPrev(tree, io[i]) = (IF i = 1 THEN NIL ELSE io[i - 1])

\* rb_replace_node of any queued node by a task that is not queued, on
\* every tree the runqueue goes through, gives a well-linked red-black
\* tree whose in-order walk has the new node in the old one's place.
ReplaceInPlace ==
    \A v \in Nodes(tree), w \in Task \ Nodes(tree) :
        LET T == ReplaceNode(tree, v, w)
        IN  /\ WellLinked(T) /\ IsRedBlack(T)
            /\ InOrder(T) = [i \in 1..Len(InOrder(tree)) |->
                                IF InOrder(tree)[i] = v THEN w ELSE InOrder(tree)[i]]

\* cfs_queue / cfs_dequeue implement the priority queue: every dequeue
\* returns a task of least key among those queued.
PQ == INSTANCE PriorityQueue WITH queued <- Nodes(tree), prio <- key
ImplementsPriorityQueue == PQ!Spec
=============================================================================
