--------------------------- MODULE PriorityQueue ---------------------------
(***************************************************************************)
(* What a runqueue of src/smart-queue.c promises its caller: a set of     *)
(* tasks, each with its time key, from which a dequeue returns a task of   *)
(* least key (any of them on a tie), or NULL when the set is empty; a     *)
(* queued task may also leave the queue on its own (Remove).              *)
(* cfs_queue/cfs_dequeue are shown to implement it (CfsRq.tla).            *)
(***************************************************************************)
EXTENDS Naturals

CONSTANTS Task, Key, NIL

VARIABLES queued,  \* the tasks on the queue
          prio,    \* the key each task was last queued with
          out      \* the task the last dequeue returned (NIL: none)

pqVars == <<queued, prio, out>>

Init ==
    /\ queued = {}
    /\ prio \in [Task -> Key]
    /\ out = NIL

Enqueue(x, k) ==
    /\ x \notin queued
    /\ queued' = queued \cup {x}
    /\ prio' = [prio EXCEPT ![x] = k]
    /\ UNCHANGED out

Dequeue ==
    \E x \in queued :
        /\ \A y \in queued : prio[x] <= prio[y]
        /\ queued' = queued \ {x}
        /\ out' = x
        /\ UNCHANGED prio

DequeueEmpty ==
    /\ queued = {}
    /\ out' = NIL
    /\ UNCHANGED <<queued, prio>>

Remove(x) ==
    /\ x \in queued
    /\ queued' = queued \ {x}
    /\ UNCHANGED <<prio, out>>

Next ==
    \/ \E x \in Task, k \in Key : Enqueue(x, k)
    \/ Dequeue
    \/ DequeueEmpty
    \/ \E x \in Task : Remove(x)

Spec == Init /\ [][Next]_pqVars
=============================================================================
