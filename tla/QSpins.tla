-------------------------------- MODULE QSpins --------------------------------
(***************************************************************************)
(* The lock-passing benchmark of src/qspins.c.  main initialises one lock *)
(* per thread, creates num_threads threads, sets go and joins them.       *)
(* Thread i takes lock i, waits for go, then Rounds times releases its    *)
(* lock k and takes lock k+1 (mod num_threads); finally it releases the   *)
(* lock it holds.  The locks are either the ticket lock tspinlock_t       *)
(* (tdesc "ticket": lock xaddw on qhead, wait for qtail, addw on qtail)    *)
(* or the decrement spinlock spinlock_t (tdesc "tas", the -s option:      *)
(* lock decl, spin while slock <= 0, movl $1 to release).  tspin_type    *)
(* counters are TicketBits wide; MAX_SAMPLES * NR_ITERS loop iterations  *)
(* are abstracted to Rounds.  Timing and statistics are not modelled.     *)
(***************************************************************************)
EXTENDS Integers, FiniteSets

CONSTANTS NumThreads,  \* num_threads (-n)
          Rounds,      \* lock passes per thread
          TicketBits   \* width of tspin_type

ASSUME NumThreads >= 1

Thread   == 0..NumThreads - 1
Lock     == 0..NumThreads - 1
TMOD     == 2 ^ TicketBits

VARIABLES tdesc,         \* the test main runs: "ticket", or "tas" with -s
          qhead, qtail,  \* tspin[k]
          slock,         \* spin[k].slock
          go,
          pc,            \* program counter of every thread
          k,             \* the lock index k of every thread
          pos,           \* the ticket a thread drew in tspin_lock
          n,             \* lock passes done
          mpc,           \* main: "create", "go", "join", "done"
          mi             \* main's loop index

vars == <<tdesc, qhead, qtail, slock, go, pc, k, pos, n, mpc, mi>>

PC == {"unborn", "lock0", "spin0", "lock", "spin", "gowait", "unlock", "final", "done"}

TypeOK ==
    /\ tdesc \in {"ticket", "tas"}
    /\ qhead \in [Lock -> 0..TMOD - 1] /\ qtail \in [Lock -> 0..TMOD - 1]
    /\ slock \in [Lock -> (1 - NumThreads)..1]
    /\ go \in BOOLEAN
    /\ pc \in [Thread -> PC] /\ k \in [Thread -> Lock]
    /\ pos \in [Thread -> 0..TMOD - 1] /\ n \in [Thread -> 0..Rounds]
    /\ mpc \in {"create", "go", "join", "done"} /\ mi \in 0..NumThreads

\* main after parsing -s and tspin_lock_init / spin_lock_init of locks
\* 0..num_threads-1.
Init ==
    /\ tdesc \in {"ticket", "tas"}
    /\ qhead = [l \in Lock |-> 0] /\ qtail = [l \in Lock |-> 0]
    /\ slock = [l \in Lock |-> 1]
    /\ go = FALSE
    /\ pc = [t \in Thread |-> "unborn"]
    /\ k = [t \in Thread |-> t]
    /\ pos = [t \in Thread |-> 0] /\ n = [t \in Thread |-> 0]
    /\ mpc = "create" /\ mi = 0

\* The label that follows a lock acquisition: tspin_lock(&tspin[k]) at
\* line 167 leads to the go loop, the one at line 177 ends a pass.
Spinning == {"spin0", "spin"}
Locking  == {"lock0", "lock"}
SpinOf(t) == IF pc[t] = "lock0" THEN "spin0" ELSE "spin"
LockOf(t) == IF pc[t] = "spin0" THEN "lock0" ELSE "lock"

\* The thread has the lock: pass counter and label after the acquisition.
Acquired(t) ==
    IF pc[t] \in {"lock0", "spin0"}
    THEN /\ pc' = [pc EXCEPT ![t] = "gowait"] /\ UNCHANGED n
    ELSE /\ n' = [n EXCEPT ![t] = @ + 1]
         /\ pc' = [pc EXCEPT ![t] = IF n[t] + 1 = Rounds THEN "final" ELSE "unlock"]

-----------------------------------------------------------------------------
(* tspin_lock / tspin_unlock *)

\* lock ; xaddw: draw the ticket pos = qhead, qhead + 1 (16-bit wrap).
TDraw(t) ==
    /\ pos' = [pos EXCEPT ![t] = qhead[k[t]]]
    /\ qhead' = [qhead EXCEPT ![k[t]] = (@ + 1) % TMOD]

TicketLock(t) ==
    /\ pc[t] \in Locking
    /\ TDraw(t)
    /\ pc' = [pc EXCEPT ![t] = SpinOf(t)]
    /\ UNCHANGED <<tdesc, qtail, slock, go, k, n, mpc, mi>>

\* Mutant: the spin test written as an ordered compare, while
\* (pos > lock->qtail), which is wrong once the counters wrap.
TicketAcquireOrdered(t) ==
    /\ pc[t] \in Spinning
    /\ pos[t] <= qtail[k[t]]
    /\ Acquired(t)
    /\ UNCHANGED <<tdesc, qhead, qtail, slock, go, k, pos, mpc, mi>>

\* Mutant: the spin test inverted.
TicketAcquireInverted(t) ==
    /\ pc[t] \in Spinning
    /\ pos[t] # qtail[k[t]]
    /\ Acquired(t)
    /\ UNCHANGED <<tdesc, qhead, qtail, slock, go, k, pos, mpc, mi>>

\* while (pos != lock->qtail) cpu_relax(): the thread's turn has come.
TicketAcquire(t) ==
    /\ pc[t] \in Spinning
    /\ pos[t] = qtail[k[t]]
    /\ Acquired(t)
    /\ UNCHANGED <<tdesc, qhead, qtail, slock, go, k, pos, mpc, mi>>

\* Mutant: the release increments qhead instead of qtail.
ReleaseTicketHead(l) ==
    /\ qhead' = [qhead EXCEPT ![l] = (@ + 1) % TMOD]
    /\ UNCHANGED qtail

\* tspin_unlock: addw $1 on qtail (only the holder writes it).
ReleaseTicket(l) ==
    /\ qtail' = [qtail EXCEPT ![l] = (@ + 1) % TMOD]
    /\ UNCHANGED qhead

-----------------------------------------------------------------------------
(* spin_lock / spin_unlock *)

\* lock ; decl, jns: taken if the result is not negative, else spin.
SDecl(t) ==
    /\ slock' = [slock EXCEPT ![k[t]] = @ - 1]
    /\ IF slock[k[t]] - 1 >= 0 THEN Acquired(t)
       ELSE pc' = [pc EXCEPT ![t] = SpinOf(t)] /\ UNCHANGED n

SpinLock(t) ==
    /\ pc[t] \in Locking
    /\ SDecl(t)
    /\ UNCHANGED <<tdesc, qhead, qtail, go, k, pos, mpc, mi>>

\* rep;nop; cmpl $0; jle 3b: once slock > 0, jmp 1b to decl again.
SpinRetry(t) ==
    /\ pc[t] \in Spinning
    /\ slock[k[t]] > 0
    /\ pc' = [pc EXCEPT ![t] = LockOf(t)]
    /\ UNCHANGED <<tdesc, qhead, qtail, slock, go, k, pos, n, mpc, mi>>

\* spin_unlock: movl $1.
ReleaseSpin(l) == slock' = [slock EXCEPT ![l] = 1]

Release(l) ==
    IF tdesc = "ticket" THEN ReleaseTicket(l) /\ UNCHANGED slock
                         ELSE ReleaseSpin(l) /\ UNCHANGED <<qhead, qtail>>

-----------------------------------------------------------------------------
(* tspin_thread / spin_thread *)

\* One turn of a busy-wait loop that stays in it: cpu_relax in tspin_lock,
\* rep;nop in spin_lock, sched_yield in the go loop.  A spinning thread is
\* never blocked, so a lock that is never handed over shows as a thread
\* looping for ever, not as a deadlock.
BusyWait(t) ==
    /\ pc[t] \in Spinning \cup {"gowait"}
    /\ UNCHANGED vars

Lock_(t) ==
    IF tdesc = "ticket" THEN TicketLock(t) \/ TicketAcquire(t)
                         ELSE SpinLock(t) \/ SpinRetry(t)

\* while (!go) sched_yield();
GoWait(t) ==
    /\ pc[t] = "gowait" /\ go
    /\ pc' = [pc EXCEPT ![t] = IF Rounds = 0 THEN "final" ELSE "unlock"]
    /\ UNCHANGED <<tdesc, qhead, qtail, slock, go, k, pos, n, mpc, mi>>

\* unlock lock k; if (++k >= num_threads) k = 0; then lock k.
Pass(t) ==
    /\ pc[t] = "unlock"
    /\ Release(k[t])
    /\ k' = [k EXCEPT ![t] = IF @ + 1 >= NumThreads THEN 0 ELSE @ + 1]
    /\ pc' = [pc EXCEPT ![t] = "lock"]
    /\ UNCHANGED <<tdesc, go, pos, n, mpc, mi>>

\* The unlock of the lock held at the end of the loop; the thread returns.
Final(t) ==
    /\ pc[t] = "final"
    /\ Release(k[t])
    /\ pc' = [pc EXCEPT ![t] = "done"]
    /\ UNCHANGED <<tdesc, go, k, pos, n, mpc, mi>>

Thread_(t) == Lock_(t) \/ GoWait(t) \/ Pass(t) \/ Final(t) \/ BusyWait(t)

-----------------------------------------------------------------------------
(* main *)

\* pthread_create(&tctx[i].tid, ..., tdesc->tproc, &tctx[i]).
Create ==
    /\ mpc = "create"
    /\ pc' = [pc EXCEPT ![mi] = "lock0"]
    /\ mi' = IF mi + 1 = NumThreads THEN 0 ELSE mi + 1
    /\ mpc' = IF mi + 1 = NumThreads THEN "go" ELSE "create"
    /\ UNCHANGED <<tdesc, qhead, qtail, slock, go, k, pos, n>>

\* go = 1; sched_yield();
SetGo ==
    /\ mpc = "go"
    /\ go' = TRUE
    /\ mpc' = "join"
    /\ UNCHANGED <<tdesc, qhead, qtail, slock, pc, k, pos, n, mi>>

\* pthread_join(tctx[i].tid) and the statistics of its samples.
Join ==
    /\ mpc = "join" /\ pc[mi] = "done"
    /\ mi' = mi + 1
    /\ mpc' = IF mi + 1 = NumThreads THEN "done" ELSE "join"
    /\ UNCHANGED <<tdesc, qhead, qtail, slock, go, pc, k, pos, n>>

Main == Create \/ SetGo \/ Join

\* main has returned.
Terminated == mpc = "done" /\ UNCHANGED vars

Next == Main \/ (\E t \in Thread : Thread_(t)) \/ Terminated

\* Every thread runs pinned to a CPU of its own (thread_setched), so each
\* one that can step eventually does: weak fairness per thread and main.
Spec == Init /\ [][Next]_vars /\ WF_vars(Main) /\ \A t \in Thread : WF_vars(Thread_(t))

-----------------------------------------------------------------------------
(* Properties *)

\* A thread holds lock k between its acquisition and its release.
Holds(t, l) == pc[t] \in {"gowait", "unlock", "final"} /\ k[t] = l

\* No two threads hold the same lock, through every pass around the ring
\* and every wrap of the tspin_type counters.
MutualExclusion == \A l \in Lock : Cardinality({t \in Thread : Holds(t, l)}) <= 1

\* qhead - qtail (mod 2^TicketBits) counts exactly the threads that drew a
\* ticket on the lock and have not released it (waiting or holding), in
\* the ticket-lock test.
TicketsConsistent ==
    tdesc = "ticket" =>
    \A l \in Lock :
        (qhead[l] - qtail[l]) % TMOD
          = Cardinality({t \in Thread : k[t] = l /\ pc[t] \in Spinning \cup {"gowait", "unlock", "final"}})

\* Every thread completes its passes and main joins them all: no thread
\* waits for ever on a lock of the ring.
AllJoined == <>(mpc = "done")
====
