------------------------------ MODULE TimedRing ------------------------------
(***************************************************************************)
(* The timed ring runqueue of src/smart-queue.c (lines 613-695): MAX_RQ   *)
(* FIFO lists, one per NS_SLOT-wide time slot counted from the rotating   *)
(* base index ibase (time tbase), and an occupancy bitmap of MAP_LONGS    *)
(* words of BITS_X_LONG bits that rel_ffs scans to find the next slot.    *)
(* A bitmap word is modelled as the set of its 1 bits: __set_bit and      *)
(* __clear_bit add and remove a bit, the mask ~((1UL << b) - 1) keeps the *)
(* bits >= b and __ffs is the least of them.  nstime_t arithmetic is      *)
(* modulo 2^TimeBits and the (unsigned int) cast of the slot quotient is  *)
(* modulo 2^UIntBits (64 and 32 in the x86-64 build).                    *)
(***************************************************************************)
EXTENDS Integers, Sequences, FiniteSets, FiniteSetsExt

CONSTANTS Task,         \* the task pool (struct tr_task)
          NIL,
          MAX_RQ,       \* number of slots, a power of two
          BITS_X_LONG,  \* bits of a bitmap word
          NS_SLOT,      \* width of a slot in time units
          TimeBits,     \* width of nstime_t
          UIntBits,     \* width of unsigned int
          Time          \* the times t a caller may queue a task at

MAP_LONGS == MAX_RQ \div BITS_X_LONG
RQ_MASK   == MAX_RQ - 1
TIME_MOD  == 2 ^ TimeBits
Slot      == 0..RQ_MASK
Word      == 0..MAP_LONGS - 1

ASSUME /\ MAX_RQ % BITS_X_LONG = 0 /\ MAP_LONGS >= 1
       /\ MAX_RQ < 2 ^ UIntBits
       /\ Time \subseteq 0..TIME_MOD - 1 /\ 0 \in Time

VARIABLES ibase,    \* rq->ibase
          tbase,    \* rq->tbase
          tsks,     \* rq->tsks: the FIFO list of every slot
          map,      \* rq->map: the bits set in every bitmap word
          tt,       \* tsk->t of every task
          out       \* the task the last tr_dequeue returned

vars == <<ibase, tbase, tsks, map, tt, out>>

Queued == UNION {{tsks[s][i] : i \in 1..Len(tsks[s])} : s \in Slot}

TypeOK ==
    /\ ibase \in Slot
    /\ tbase \in 0..TIME_MOD - 1
    /\ tsks \in [Slot -> Seq(Task)]
    /\ map \in [Word -> SUBSET (0..BITS_X_LONG - 1)]
    /\ tt \in [Task -> 0..TIME_MOD - 1]
    /\ out \in Task \cup {NIL}

\* tr_rqinit; the harness sets tasks[i].t = 0 before the first queue.
Init ==
    /\ ibase = 0
    /\ tbase = 0
    /\ tsks = [s \in Slot |-> <<>>]
    /\ map = [w \in Word |-> {}]
    /\ tt = [x \in Task |-> 0]
    /\ out = NIL

\* __set_bit / __clear_bit of slot nr.
SetBit(m, nr)   == [m EXCEPT ![nr \div BITS_X_LONG] = @ \cup {nr % BITS_X_LONG}]
ClearBit(m, nr) == [m EXCEPT ![nr \div BITS_X_LONG] = @ \ {nr % BITS_X_LONG}]

\* Mutant: the mask of the first word is kept for every word scanned.
RelFfsMaskAll(m, base) ==
    LET i    == base \div BITS_X_LONG
        b    == base % BITS_X_LONG
        W(n) == (i + n) % MAP_LONGS
        V(n) == {x \in m[W(n)] : x >= b}
        hits == {n \in 0..MAP_LONGS - 1 : V(n) # {}}
    IN  IF hits = {} THEN MAX_RQ
        ELSE W(Min(hits)) * BITS_X_LONG + Min(V(Min(hits)))

\* rel_ffs: MAP_LONGS words are scanned from the word of ibase, the first
\* one masked to the bits at or after ibase; MAX_RQ when none is set.
RelFfs(m, base) ==
    LET i    == base \div BITS_X_LONG
        b    == base % BITS_X_LONG
        W(n) == (i + n) % MAP_LONGS
        V(n) == IF n = 0 THEN {x \in m[W(0)] : x >= b} ELSE m[W(n)]
        hits == {n \in 0..MAP_LONGS - 1 : V(n) # {}}
    IN  IF hits = {} THEN MAX_RQ
        ELSE W(Min(hits)) * BITS_X_LONG + Min(V(Min(hits)))

\* The slot index tr_queue computes for time t against base time tb,
\* before the horizon clamp: (unsigned int) ((t - tb) / NS_SLOT).
SlotOffset(t, tb) == (((t - tb) % TIME_MOD) \div NS_SLOT) % (2 ^ UIntBits)

\* Mutant: a zero tbase is replaced by the new time t (tsk->t = t first).
TrQueueNewTime(tsk, t) ==
    /\ tsk \notin Queued
    /\ LET tb  == IF tbase = 0 THEN t ELSE tbase
           off == SlotOffset(t, tb)
           idx == ((IF off >= MAX_RQ THEN MAX_RQ - 1 ELSE off) + ibase) % MAX_RQ
       IN  /\ tbase' = tb
           /\ tsks' = [tsks EXCEPT ![idx] = Append(@, tsk)]
           /\ map' = SetBit(map, idx)
    /\ tt' = [tt EXCEPT ![tsk] = t]
    /\ UNCHANGED <<ibase, out>>

\* tr_queue(tsk, rq, t): a zero tbase is first replaced by the task's
\* previous tsk->t; the offset is clamped to the last slot, made absolute
\* from ibase, and the task appended to that slot's list.
TrQueue(tsk, t) ==
    /\ tsk \notin Queued
    /\ LET tb  == IF tbase = 0 THEN tt[tsk] ELSE tbase
           off == SlotOffset(t, tb)
           idx == ((IF off >= MAX_RQ THEN MAX_RQ - 1 ELSE off) + ibase) % MAX_RQ
       IN  /\ tbase' = tb
           /\ tsks' = [tsks EXCEPT ![idx] = Append(@, tsk)]
           /\ map' = SetBit(map, idx)
    /\ tt' = [tt EXCEPT ![tsk] = t]
    /\ UNCHANGED <<ibase, out>>

\* Mutant: the slot's bit cleared whether or not its list is now empty.
TrDequeueAlwaysClear ==
    LET idx == RelFfs(map, ibase)
        d   == (idx - ibase) % MAX_RQ
        tsk == Head(tsks[idx])
    IN  /\ idx # MAX_RQ
        /\ tsks' = [tsks EXCEPT ![idx] = Tail(@)]
        /\ map' = ClearBit(map, idx)
        /\ ibase' = idx
        /\ tbase' = (tbase + NS_SLOT * d) % TIME_MOD
        /\ out' = tsk
        /\ UNCHANGED tt

\* Mutant: ibase moves but tbase is not advanced with it.
TrDequeueKeepTbase ==
    LET idx == RelFfs(map, ibase)
        tsk == Head(tsks[idx])
    IN  /\ idx # MAX_RQ
        /\ tsks' = [tsks EXCEPT ![idx] = Tail(@)]
        /\ map' = IF tsks'[idx] = <<>> THEN ClearBit(map, idx) ELSE map
        /\ ibase' = idx
        /\ tbase' = tbase
        /\ out' = tsk
        /\ UNCHANGED tt

\* tr_dequeue when rel_ffs finds a slot: pop its head, clear its bit if
\* the list is now empty, move ibase to it and tbase forward by the slots
\* skipped (nstime_t arithmetic: modulo TIME_MOD).
TrDequeue ==
    LET idx == RelFfs(map, ibase)
        d   == (idx - ibase) % MAX_RQ
        tsk == Head(tsks[idx])
    IN  /\ idx # MAX_RQ
        /\ tsks' = [tsks EXCEPT ![idx] = Tail(@)]
        /\ map' = IF tsks'[idx] = <<>> THEN ClearBit(map, idx) ELSE map
        /\ ibase' = idx
        /\ tbase' = (tbase + NS_SLOT * d) % TIME_MOD
        /\ out' = tsk
        /\ UNCHANGED tt

\* tr_dequeue when rel_ffs finds no slot: tbase is reset, NULL returned.
TrDequeueEmpty ==
    /\ RelFfs(map, ibase) = MAX_RQ
    /\ tbase' = 0
    /\ out' = NIL
    /\ UNCHANGED <<ibase, tsks, map, tt>>

Next ==
    \/ \E tsk \in Task, t \in Time : TrQueue(tsk, t)
    \/ TrDequeue
    \/ TrDequeueEmpty

Spec == Init /\ [][Next]_vars

-----------------------------------------------------------------------------
(* Properties *)

\* The occupancy bit of a slot is set exactly when its list is non-empty,
\* after any sequence of tr_queue and tr_dequeue.
MapMirrorsLists ==
    \A s \in Slot : (s % BITS_X_LONG \in map[s \div BITS_X_LONG]) <=> tsks[s] # <<>>
=============================================================================
