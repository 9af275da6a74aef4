------------------------------- MODULE PipeTest -------------------------------
(***************************************************************************)
(* src/pipetest-4.c: an epoll benchmark.  num_pipes pipes are registered  *)
(* with EPOLLIN | EPOLLET; run_once writes a byte into each of the first  *)
(* num_active pipes, then polls with a zero timeout.  The callback of a   *)
(* reported pipe reads one byte and, while writes remain, writes one into *)
(* the pipe num_active + 1 further round the ring.  A run ends when as    *)
(* many bytes were counted as were written; main makes Runs of them.      *)
(*                                                                         *)
(* A pipe is its number of unread bytes.  epoll's ready list is a          *)
(* sequence of pipe numbers without repeats: a write to a pipe queues its *)
(* epitem unless already queued (the pipe's wakeup calls ep_poll_callback *)
(* on every write), and epoll_wait takes the whole list (maxevents is     *)
(* num_pipes), reports the pipes still readable and, edge-triggered, does *)
(* not queue them again.  Timing, the statistics and printing are left    *)
(* out.                                                                    *)
(*                                                                         *)
(* src/eventfd-bench.c is the same program over eventfds (Fd =            *)
(* "eventfd"): a write adds 1 to the counter, and a read of 8 bytes takes *)
(* the whole counter, or fails with EAGAIN when it is 0 (module           *)
(* EventfdBench).                                                          *)
(***************************************************************************)
EXTENDS Integers, Sequences, SequencesExt, Functions

CONSTANTS Fd,        \* "pipe" or "eventfd"
          Args,      \* the -n, -a, -w values considered: records [n, a, w]
          MaxPipes,  \* the largest -n of Args
          Runs       \* RUNTIMES (16 in the code)

VARIABLES args,    \* this run's options
          ppc,     \* main: "setup", "start" (run_once entered), "wait"
                   \* (epoll_wait next), "cb" (callbacks of the batch),
                   \* "done" (returned 0), "exit" (returned rc)
          rc,      \* main's exit status
          nact,    \* num_active after the clamp
          pipes,   \* bytes in each pipe (the counter of each eventfd)
          rdl,     \* the epoll ready list
          batch,   \* events of the last epoll_wait not yet handled
          count, writes, fired,
          run      \* run_once calls completed

pvars == <<args, ppc, rc, nact, pipes, rdl, batch, count, writes, fired, run>>

Pipe == 0..MaxPipes - 1

TypeOK == /\ args \in Args
          /\ ppc \in {"setup", "start", "wait", "cb", "done", "exit"}
          /\ pipes \in [Pipe -> Nat]
          /\ rdl \in Seq(Pipe) /\ batch \in Seq(Pipe)
          /\ {count, writes, fired} \subseteq Int
          /\ run \in 0..Runs

Init == /\ args \in Args
        /\ ppc = "setup" /\ rc = 0 /\ nact = 0
        /\ pipes = [q \in Pipe |-> 0]
        /\ rdl = <<>> /\ batch = <<>>
        /\ count = 0 /\ writes = 0 /\ fired = 0 /\ run = 0

\* main up to the run loop (lines 111-179): num_active is clamped below
\* num_pipes; epoll_create fails (EINVAL) for a size of 0, and main
\* returns 4.  Resource limits, allocation and pipe creation succeed.
Setup == /\ ppc = "setup"
         /\ nact' = IF args.a >= args.n THEN args.n - 1 ELSE args.a
         /\ IF args.n <= 0 THEN ppc' = "exit" /\ rc' = 4
                           ELSE ppc' = "start" /\ rc' = 0
         /\ UNCHANGED <<args, pipes, rdl, batch, count, writes, fired, run>>

\* The write of one byte into pipe q, with the epoll wakeup it causes.
Write(p, q) == [p EXCEPT ![q] = @ + 1]
Wake(l, q) == IF q \in ToSet(l) THEN l ELSE Append(l, q)

\* Mutant: the first writes are not counted in fired.
StartNoFired == /\ ppc = "start"
                /\ pipes' = [q \in Pipe |-> IF q < nact THEN 1 ELSE 0]
                /\ rdl' = [i \in 1..Max({nact, 0}) |-> i - 1]
                /\ fired' = 0
                /\ count' = 0 /\ writes' = args.w
                /\ ppc' = "wait"
                /\ UNCHANGED <<args, rc, nact, batch, run>>

\* run_once's setup (lines 79-84): a byte into each of the first
\* num_active pipes, fired counting them; count = 0, writes = num_writes.
Start == /\ ppc = "start"
         /\ pipes' = [q \in Pipe |-> IF q < nact THEN 1 ELSE 0]
         /\ rdl' = [i \in 1..Max({nact, 0}) |-> i - 1]
         /\ fired' = Max({nact, 0})
         /\ count' = 0 /\ writes' = args.w
         /\ ppc' = "wait"
         /\ UNCHANGED <<args, rc, nact, batch, run>>

\* epoll_wait(epfd, events, num_pipes, 0): the ready pipes still readable.
EpollWait == /\ ppc = "wait"
             /\ batch' = SelectSeq(rdl, LAMBDA q : pipes[q] > 0)
             /\ rdl' = <<>>
             /\ ppc' = "cb"
             /\ UNCHANGED <<args, rc, nact, pipes, count, writes, fired, run>>

\* The pipe a callback of pipe idx writes into (lines 59, 66-67).
WIdx(idx) == IF idx + nact + 1 >= args.n THEN idx + nact + 1 - args.n
                                         ELSE idx + nact + 1

\* read() of the fd of event idx: a pipe gives up one byte, an eventfd its
\* counter; an empty one returns -1 (EAGAIN) and is left alone.
Drain(p, idx) == IF p[idx] = 0 THEN p
                 ELSE [p EXCEPT ![idx] = IF Fd = "pipe" THEN @ - 1 ELSE 0]

\* pipetest-4 counts any non-zero return of read(), -1 included;
\* eventfd-bench only a read of the 8 bytes.
Counted(p, idx) == Fd = "pipe" \/ p[idx] > 0

\* Mutant: the callback reads only while writes remain.
ReadCbOnlyWhileWrites ==
    /\ ppc = "cb" /\ batch # <<>>
    /\ LET idx == Head(batch)
           rd  == IF writes # 0 THEN Drain(pipes, idx) ELSE pipes
       IN  IF writes # 0
           THEN /\ pipes' = Write(rd, WIdx(idx))
                /\ rdl' = Wake(rdl, WIdx(idx))
                /\ count' = IF Counted(pipes, idx) THEN count + 1 ELSE count
                /\ writes' = writes - 1 /\ fired' = fired + 1
           ELSE UNCHANGED <<pipes, rdl, count, writes, fired>>
    /\ batch' = Tail(batch)
    /\ UNCHANGED <<args, ppc, rc, nact, run>>

\* read_cb (lines 58-73) for the next event: the read, counted, then,
\* while writes remain, a byte into pipe WIdx(idx).
ReadCb == /\ ppc = "cb" /\ batch # <<>>
          /\ LET idx == Head(batch)
                 rd  == Drain(pipes, idx)
             IN  /\ count' = IF Counted(pipes, idx) THEN count + 1 ELSE count
                 /\ IF writes # 0
                    THEN /\ pipes' = Write(rd, WIdx(idx))
                         /\ rdl' = Wake(rdl, WIdx(idx))
                         /\ writes' = writes - 1 /\ fired' = fired + 1
                    ELSE /\ pipes' = rd
                         /\ UNCHANGED <<rdl, writes, fired>>
          /\ batch' = Tail(batch)
          /\ UNCHANGED <<args, ppc, rc, nact, run>>

\* The loop test while (count != fired) (line 91), and after the last
\* loop main's test of the work done (lines 182-189): no byte counted
\* makes main return 7; after Runs runs it returns 0.
LoopTest == /\ ppc = "cb" /\ batch = <<>>
            /\ CASE count # fired -> ppc' = "wait" /\ UNCHANGED <<rc, run>>
                 [] count = 0     -> ppc' = "exit" /\ rc' = 7 /\ UNCHANGED run
                 [] OTHER         -> /\ run' = run + 1
                                     /\ ppc' = IF run + 1 = Runs THEN "done"
                                                                 ELSE "start"
                                     /\ UNCHANGED rc
            /\ UNCHANGED <<args, nact, pipes, rdl, batch, count, writes, fired>>

Returned == ppc \in {"done", "exit"}

\* main has returned.
Finished == Returned /\ UNCHANGED pvars

Step == Setup \/ Start \/ EpollWait \/ ReadCb \/ LoopTest

Next == Step \/ Finished

\* main is the only thread, and it never blocks (the timeout is 0).
Spec == Init /\ [][Next]_pvars /\ WF_pvars(Step)

-----------------------------------------------------------------------------

\* Every byte written into a pipe is either still in it or has been
\* counted by read_cb: count never counts a read that found nothing, nor
\* one read for two writes (an eventfd read drains the counter), so the
\* test count != fired of run_once means bytes are still in flight.
Conservation == count + SumFunction(pipes) = fired

\* main returns: in every run_once each byte written is eventually
\* reported by the edge-triggered epoll and read, although epoll reports
\* a pipe only when a write makes it ready and read_cb reads one byte per
\* event.
RunsEnd == <>Returned
=============================================================================
