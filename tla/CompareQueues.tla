---------------------------- MODULE CompareQueues ----------------------------
(***************************************************************************)
(* The two runqueues of src/smart-queue.c under one benchmark workload.   *)
(* cfs_test and tr_test (lines 700-744) run the same loop on their own    *)
(* queue: ntasks tasks queued at (rand() % times) * NS_SLOT, then Loops    *)
(* rounds of dequeue and requeue (times / 7) * NS_SLOT later.  Here both   *)
(* are fed the same random slots and step together, so that the keys     *)
(* they dequeue can be compared round by round.  ntasks is the -n        *)
(* argument, any value up to MaxTasks, 0 included; a NULL dequeue result  *)
(* is dereferenced by the next line of either loop (pc = "crash").       *)
(***************************************************************************)
EXTENDS Integers, Sequences, FiniteSets

CONSTANTS NIL, MAX_RQ, BITS_X_LONG, NS_SLOT, TimeBits, UIntBits,
          MaxTasks,  \* the largest ntasks (-n) considered
          Loops      \* loops (-l)

Task == 1..MaxTasks
Delta == (MAX_RQ \div 7) * NS_SLOT   \* (times / 7) * NS_SLOT, times = MAX_RQ

VARIABLES tree, rb_leftmost, key, cout,                \* the cfs_rq
          ibase, tbase, tsks, map, tt, out,  \* the tr_rq
          ntasks,  \* the -n argument
          pc,      \* "fill", "deq", "req", "done", or "crash"
          i        \* the fill index, then the loop index

C == INSTANCE CfsRq WITH Key <- 0..2 ^ TimeBits - 1, out <- cout
R == INSTANCE TimedRing WITH Time <- 0..2 ^ TimeBits - 1

cfsVars  == <<tree, rb_leftmost, key, cout>>
ringVars == <<ibase, tbase, tsks, map, tt, out>>
vars == <<cfsVars, ringVars, ntasks, pc, i>>

TypeOK == C!TypeOK /\ R!TypeOK
          /\ pc \in {"fill", "deq", "req", "done", "crash"}
          /\ ntasks \in 0..MaxTasks /\ i \in 0..MaxTasks + Loops

\* cfs_rqinit / tr_rqinit; the fill loop is skipped when ntasks is 0.
Init == /\ C!Init /\ R!Init
        /\ ntasks \in 0..MaxTasks
        /\ pc = IF ntasks = 0 THEN "deq" ELSE "fill"
        /\ i = 0

\* tasks[i].t = 0; cfs_queue(&tasks[i], &rq, (rand() % times) * NS_SLOT)
CfsFill(r) == C!CfsQueue(i + 1, r * NS_SLOT)

\* tasks[i].t = 0; tr_queue(&tasks[i], &rq, (rand() % times) * NS_SLOT)
TrFill(r) == R!TrQueue(i + 1, r * NS_SLOT)

Fill ==
    /\ pc = "fill"
    /\ \E r \in 0..MAX_RQ - 1 : CfsFill(r) /\ TrFill(r)
    /\ i' = i + 1
    /\ pc' = IF i + 1 = ntasks THEN "deq" ELSE "fill"
    /\ UNCHANGED ntasks

\* tsk = cfs_dequeue(&rq) / tr_dequeue(&rq), both non-NULL.
Deq ==
    /\ pc = "deq"
    /\ C!CfsDequeue /\ R!TrDequeue
    /\ pc' = "req"
    /\ UNCHANGED <<ntasks, i>>

\* cfs_dequeue returned NULL: the next line of cfs_test reads tsk->t.
CfsDeqNull == C!CfsDequeueEmpty /\ UNCHANGED ringVars

\* tr_dequeue returned NULL: the next line of tr_test reads tsk->t.
TrDeqNull == R!TrDequeueEmpty /\ UNCHANGED cfsVars

DeqNull ==
    /\ pc = "deq"
    /\ CfsDeqNull \/ TrDeqNull
    /\ pc' = "crash"
    /\ UNCHANGED <<ntasks, i>>

\* cfs_queue(tsk, &rq, tsk->t + (times / 7) * NS_SLOT)
CfsReq == C!CfsQueue(cout, (key[cout] + Delta) % (2 ^ TimeBits))

\* tr_queue(tsk, &rq, tsk->t + (times / 7) * NS_SLOT)
TrReq == R!TrQueue(out, (tt[out] + Delta) % (2 ^ TimeBits))

Req ==
    /\ pc = "req"
    /\ CfsReq /\ TrReq
    /\ i' = i + 1
    /\ pc' = IF i + 1 = ntasks + Loops THEN "done" ELSE "deq"
    /\ UNCHANGED ntasks

Next == Fill \/ Deq \/ DeqNull \/ Req

Spec == Init /\ [][Next]_vars

-----------------------------------------------------------------------------
(* Properties *)

\* Fed the same workload, the red-black tree and the timed ring dequeue
\* tasks of the same key in every round: the ring's slot order agrees with
\* the tree's key order for this workload (ties may pick different tasks).
SameKeyOrder == pc = "req" => key[cout] = tt[out]

\* The occupancy bitmap mirrors the slot lists throughout the benchmark.
MapMirrorsLists == R!MapMirrorsLists

\* A NULL task is dereferenced only when run with -n 0: with a non-empty
\* pool rel_ffs always finds a queued task in this workload, whatever the
\* random slots and however far ibase has turned.
CrashOnlyWhenEmptyPool == pc = "crash" => ntasks = 0

\* Every queued task sits in the slot its time gives against the ring's
\* origin: (tsk->t - tbase) / NS_SLOT slots after ibase, clamped to the
\* last slot.  tr_dequeue moves ibase and tbase together, and the origin
\* tr_queue sets lazily from the task's previous time when tbase is 0
\* (lines 686-687) never shifts the slots of the tasks already queued.
SlotsMatchTimes ==
    \A s \in R!Slot : \A k \in 1..Len(tsks[s]) :
        LET off == R!SlotOffset(tt[tsks[s][k]], tbase)
        IN  (s - ibase) % MAX_RQ = IF off >= MAX_RQ THEN MAX_RQ - 1 ELSE off

=============================================================================
