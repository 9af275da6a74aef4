----------------------------- MODULE EventfdBench -----------------------------
(***************************************************************************)
(* src/eventfd-bench.c: pipetest-4.c with num_evfds eventfds in place of  *)
(* the pipes.  main, run_once and read_cb are the same lines but for the  *)
(* fd: eventfd(0) creates it, a write adds the 8-byte 1 to its counter,    *)
(* and read_cb counts a read only when it returns the 8 bytes.  Each      *)
(* operation is PipeTest's with Fd = "eventfd"; pipes holds the counters. *)
(***************************************************************************)
CONSTANTS Args, MaxPipes, Runs

VARIABLES args, ppc, rc, nact, pipes, rdl, batch, count, writes, fired, run

R == INSTANCE PipeTest WITH Fd <- "eventfd"

Init == R!Init

\* main up to the run loop: the clamp of -a, epoll_create (return 4 for
\* -n 0), eventfd(0) and epoll_ctl of every fd.
Setup == R!Setup

\* Mutant: the first writes are not counted in fired.
StartNoFired == R!StartNoFired

\* run_once's first writes: the counter of each active eventfd becomes 1.
Start == R!Start

\* epoll_wait(epfd, events, num_evfds, 0), edge-triggered.
EpollWait == R!EpollWait

\* Mutant: the callback reads only while writes remain.
ReadCbOnlyWhileWrites == R!ReadCbOnlyWhileWrites

\* read_cb: read of the 8-byte counter, which takes all of it and is
\* counted when it succeeds; while writes remain, a write of 1 into the
\* eventfd num_active + 1 further on.
ReadCb == R!ReadCb

\* while (count != fired), then main's return 7 or next run.
LoopTest == R!LoopTest

Step == Setup \/ Start \/ EpollWait \/ ReadCb \/ LoopTest

Next == Step \/ R!Finished

Spec == Init /\ [][Next]_R!pvars /\ WF_R!pvars(Step)
=============================================================================
