---------------------------- MODULE MC_CfsRqRemove ----------------------------
(***************************************************************************)
(* Model of CfsRqRemove for TLC, seven tasks numbered 1..7.  A behaviour   *)
(* queues either the first four tasks with times 0 and 1, so that ties    *)
(* happen and an inner node with two children has a successor deeper      *)
(* than its right child, or any of the seven with its own number as time, *)
(* so that trees of up to seven nodes are built: an erase whose sibling   *)
(* is red needs a red inner node with two black children, which only a   *)
(* tree that held six nodes has.  Any queued task may leave.               *)
(***************************************************************************)
EXTENDS CfsRqRemove, TLC

VARIABLE mode   \* "ties" or "distinct", fixed for the behaviour

MC_Task == 1..7
MC_Key  == 0..7

MC_Init == mode \in {"ties", "distinct"} /\ Init

MC_Next ==
    /\ \/ mode = "ties" /\ \E tsk \in 1..4, t \in 0..1 : CfsQueue(tsk, t)
       \/ mode = "distinct" /\ \E tsk \in Task : CfsQueue(tsk, tsk)
       \/ CfsDequeue
       \/ CfsDequeueEmpty
       \/ \E p \in Task : RemoveTask(p)
    /\ UNCHANGED mode

MC_Spec == MC_Init /\ [][MC_Next]_<<vars, mode>>

\* rb_erase leaves the fields of a removed node as they were, and
\* cfs_queue's rb_link_node sets all of them again, as it sets tsk->t: two
\* states that differ only there behave alike.  TLC tells states apart by
\* the queued nodes' fields only.
Queued == [n \in Nodes(tree) |->
             <<tree.parent[n], tree.left[n], tree.right[n], tree.color[n], key[n]>>]
MC_View == <<mode, tree.root, Queued, rb_leftmost, out>>
=============================================================================
