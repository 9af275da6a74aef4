---------------------------- MODULE PthreadLatCtx ----------------------------
(***************************************************************************)
(* src/pthread-lat-ctx.c: a context-switch benchmark.  main times swcount  *)
(* write/read pairs on pipe p1 alone, then starts two threads pinned to   *)
(* CPU 0 that ping-pong one byte over two pipes swcount times: thread 0   *)
(* writes p1 and reads p2, thread 1 writes p2 and reads p1.  main joins   *)
(* both.  A pipe is its number of unread bytes; read() of an empty pipe   *)
(* blocks.  Timing, CPU pinning and printing are left out; the writes and *)
(* reads never fail.                                                       *)
(***************************************************************************)
EXTENDS Naturals

CONSTANT Counts   \* the counts get_base_switch_time may return (10000 k)

Thread == {0, 1}

VARIABLES lmpc,    \* main: "opts", "base", "create", "join", "done", "failed"
          swcount, \* the global swcount
          created, \* threads created so far
          joined,  \* threads joined so far
          pipe,    \* bytes in p1 and p2
          tpc,     \* each thread: "write", "read", "ret"
          left     \* each thread's count

lvars == <<lmpc, swcount, created, joined, pipe, tpc, left>>

\* The pipe thread t writes into and the one it reads from.
Out(t) == IF t = 0 THEN "p1" ELSE "p2"
In(t)  == IF t = 0 THEN "p2" ELSE "p1"

LatTypeOK == /\ lmpc \in {"opts", "base", "create", "join", "done", "failed"}
             /\ created \in 0..2 /\ joined \in 0..2
             /\ pipe \in [{"p1", "p2"} -> Nat]
             /\ tpc \in [Thread -> {"write", "read", "ret"}]

LatInit == /\ lmpc = "opts" /\ swcount = 0
           /\ created = 0 /\ joined = 0
           /\ pipe = [p \in {"p1", "p2"} |-> 0]
           /\ tpc = [t \in Thread |-> "write"] /\ left = [t \in Thread |-> 0]

\* main's getopt loop: -h is accepted, any other option makes main exit
\* with 1; then xpipe(pd.p1) and xpipe(pd.p2) succeed.
Opts == /\ lmpc = "opts"
        /\ lmpc' \in {"base", "failed"}
        /\ UNCHANGED <<swcount, created, joined, pipe, tpc, left>>

\* get_base_switch_time: rounds of 10000 write/read pairs on p1 by main
\* alone, which leave p1 empty, until 2 s have passed; swcount = count.
Base == /\ lmpc = "base"
        /\ \E c \in Counts : swcount' = c
        /\ lmpc' = "create"
        /\ UNCHANGED <<created, joined, pipe, tpc, left>>

\* xpthread_create(&tids[t], NULL, tproc, t): the thread's loop starts
\* with count = swcount.
Create == /\ lmpc = "create"
          /\ left' = [left EXCEPT ![created] = swcount]
          /\ created' = created + 1
          /\ lmpc' = IF created = 1 THEN "join" ELSE "create"
          /\ UNCHANGED <<swcount, joined, pipe, tpc>>

Started(t) == t < created

\* write(out, "w", 1) of the loop body.
TWrite(t) == /\ Started(t) /\ tpc[t] = "write"
             /\ pipe' = [pipe EXCEPT ![Out(t)] = @ + 1]
             /\ tpc' = [tpc EXCEPT ![t] = "read"]
             /\ UNCHANGED <<lmpc, swcount, created, joined, left>>

\* Mutant: thread 1 runs one round less (count > 1).
TReadOneLess(t) ==
    /\ Started(t) /\ tpc[t] = "read" /\ pipe[In(t)] > 0
    /\ pipe' = [pipe EXCEPT ![In(t)] = @ - 1]
    /\ left' = [left EXCEPT ![t] = @ - 1]
    /\ tpc' = [tpc EXCEPT ![t] = IF left[t] - 1 <= t THEN "ret" ELSE "write"]
    /\ UNCHANGED <<lmpc, swcount, created, joined>>

\* read(in, buf, 1), which blocks on an empty pipe; count-- and the loop
\* test count != 0; the thread then returns (thtimes is its timing).
TRead(t) == /\ Started(t) /\ tpc[t] = "read" /\ pipe[In(t)] > 0
            /\ pipe' = [pipe EXCEPT ![In(t)] = @ - 1]
            /\ left' = [left EXCEPT ![t] = @ - 1]
            /\ tpc' = [tpc EXCEPT ![t] = IF left[t] - 1 = 0 THEN "ret" ELSE "write"]
            /\ UNCHANGED <<lmpc, swcount, created, joined>>

\* pthread_join(tids[0]), then pthread_join(tids[1]); main returns.
Join == /\ lmpc = "join" /\ tpc[joined] = "ret"
        /\ joined' = joined + 1
        /\ lmpc' = IF joined = 1 THEN "done" ELSE "join"
        /\ UNCHANGED <<swcount, created, pipe, tpc, left>>

LatMain == Opts \/ Base \/ Create \/ Join

LatThread(t) == TWrite(t) \/ TRead(t)

LatNext == LatMain \/ \E t \in Thread : LatThread(t)

\* Both threads and main run whenever they are not blocked in read() or
\* pthread_join.
LatSpec == LatInit /\ [][LatNext]_lvars
           /\ WF_lvars(LatMain) /\ \A t \in Thread : WF_lvars(LatThread(t))

Returned == lmpc \in {"done", "failed"}

\* main returns: both threads run their swcount rounds to the end, each
\* read of the ping-pong finding the byte the other thread wrote, and
\* neither is left blocked in read().
LatReturns == <>Returned
=============================================================================
