----------------------------- MODULE CfsRqRemove -----------------------------
(***************************************************************************)
(* The cfs_rq of src/smart-queue.c with __dequeue_task_fair (lines        *)
(* 589-593) called on any queued task, as a scheduler does when a task    *)
(* leaves the runqueue, besides cfs_queue and cfs_dequeue.  cfs_dequeue   *)
(* only ever erases the leftmost node, which has no left child; removing  *)
(* an inner node is what reaches rb_erase's two-children path.            *)
(***************************************************************************)
EXTENDS CfsRq

\* __dequeue_task_fair(rq, p) for a task p on the queue.
RemoveTask(p) ==
    /\ p \in Nodes(tree)
    /\ DequeueTaskFair(p)
    /\ UNCHANGED <<key, out>>

RemoveNext ==
    \/ Next
    \/ \E p \in Task : RemoveTask(p)

RemoveSpec == Init /\ [][RemoveNext]_vars
=============================================================================
