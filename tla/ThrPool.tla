------------------------------- MODULE ThrPool -------------------------------
(***************************************************************************)
(* One per-CPU context of the thread-pool HTTP server src/thrplhttp.c:    *)
(* NThreads service threads (service_thproc) and one acceptor thread       *)
(* (acceptor_thproc) share a ring of QSize client fds guarded by pcx->mtx, *)
(* with cnd (queue not empty) and dqcnd (queue not full).  main waits on   *)
(* the shutdown pipe, closes the listening socket, broadcasts cnd and      *)
(* joins the threads; sig_int sets stopsvr and writes the pipe.           *)
(*                                                                         *)
(* A thread's step is what it does between two points where another      *)
(* thread can act: a mutex acquisition, a condition wait, a read of       *)
(* stopsvr or of the pipe.  A condition variable is the set of threads    *)
(* blocked on it; pthread_cond_signal removes one of them, broadcast all  *)
(* of them, and a spurious wakeup may remove any.  A woken thread still   *)
(* has to re-acquire the mutex.  The per-CPU contexts share only stopsvr, *)
(* the pipe and the listening socket, so one context shows every         *)
(* interleaving of the protocol.  A session (process_session) is one step *)
(* that serves the connection: its HTTP parsing is not modelled.          *)
(***************************************************************************)
EXTENDS Naturals, Sequences, FiniteSets

CONSTANTS NThreads,  \* -T: service threads per CPU
          QSize,     \* -Q: size of the session ring
          MaxConns,  \* connections the clients open (a bound)
          ACC,       \* the acceptor thread
          NIL

Worker == 1..NThreads
Conn   == 1..MaxConns

VARIABLES stopsvr,   \* the stopsvr flag
          pipe,      \* sh_pipe holds a byte (poll reports it readable)
          svrOpen,   \* svrfd not yet closed by main
          mtx,       \* owner of pcx->mtx
          cnd,       \* threads blocked on pcx->cnd
          dqcnd,     \* threads blocked on pcx->dqcnd
          squeue, rqpos, wqpos, qcount, qwait, conns,
          wpc,       \* program counter of every service thread
          wcfd,      \* the fd a service thread is serving
          apc,       \* program counter of the acceptor
          acfd,      \* the fd the acceptor has accepted
          mpc,       \* program counter of main
          jn,        \* the thread main is joining (threads[jn - 1])
          nextConn,  \* the next connection a client opens
          enq,       \* (history) fds put on the ring, in order
          ndeq,      \* (history) fds taken off the ring
          served     \* (history) fds whose session was run

sigVars  == <<stopsvr, pipe, svrOpen>>
ringVars == <<squeue, rqpos, wqpos, qcount>>
wVars    == <<wpc, wcfd>>
aVars    == <<apc, acfd, qwait, conns, nextConn>>
mVars    == <<mpc, jn>>
hVars    == <<enq, ndeq, served>>
vars == <<sigVars, mtx, cnd, dqcnd, ringVars, wVars, aVars, mVars, hVars>>

Slot == 0..QSize - 1
WPC  == {"dq_lock", "dq_check", "dq_wait", "dq_waiting", "serve", "exit"}
APC  == {"loop", "poll", "accept", "count", "q_lock", "q_check", "q_wait",
         "q_waiting", "exit"}
MPC  == {"poll", "close", "bcast", "join", "done"}

TypeOK ==
    /\ stopsvr \in BOOLEAN /\ pipe \in BOOLEAN /\ svrOpen \in BOOLEAN
    /\ mtx \in Worker \cup {ACC, NIL}
    /\ cnd \subseteq Worker /\ dqcnd \subseteq {ACC}
    /\ squeue \in [Slot -> Conn \cup {0}]
    /\ rqpos \in Slot /\ wqpos \in Slot /\ qcount \in 0..QSize
    /\ qwait \in 0..1 /\ conns \in 0..MaxConns
    /\ wpc \in [Worker -> WPC] /\ wcfd \in [Worker -> Conn \cup {0}]
    /\ apc \in APC /\ acfd \in Conn \cup {0}
    /\ mpc \in MPC /\ jn \in 1..NThreads + 2
    /\ nextConn \in 1..MaxConns + 1
    /\ enq \in Seq(Conn) /\ ndeq \in 0..MaxConns /\ served \subseteq Conn

\* main after init_per_cpu_ctx: the context zeroed, the threads created.
Init ==
    /\ stopsvr = FALSE /\ pipe = FALSE /\ svrOpen = TRUE
    /\ mtx = NIL /\ cnd = {} /\ dqcnd = {}
    /\ squeue = [s \in Slot |-> 0]
    /\ rqpos = 0 /\ wqpos = 0 /\ qcount = 0 /\ qwait = 0 /\ conns = 0
    /\ wpc = [w \in Worker |-> "dq_lock"] /\ wcfd = [w \in Worker |-> 0]
    /\ apc = "loop" /\ acfd = 0
    /\ mpc = "poll" /\ jn = 1
    /\ nextConn = 1 /\ enq = <<>> /\ ndeq = 0 /\ served = {}

\* pthread_cond_signal: the possible waiter sets after one blocked thread,
\* if any, is woken.
Signal(cv) == IF cv = {} THEN {{}} ELSE {cv \ {t} : t \in cv}

-----------------------------------------------------------------------------
(* dequeue_client_session, called in the loop of service_thproc *)

\* pthread_mutex_lock(&pcx->mtx), and its re-acquisition inside
\* pthread_cond_wait once the thread is woken.
DqLock(w) ==
    /\ wpc[w] \in {"dq_lock", "dq_waiting"} /\ w \notin cnd
    /\ mtx = NIL
    /\ mtx' = w
    /\ wpc' = [wpc EXCEPT ![w] = "dq_check"]
    /\ UNCHANGED <<sigVars, cnd, dqcnd, ringVars, wcfd, aVars, mVars, hVars>>

\* while (!stopsvr && pcx->qcount == 0): the thread goes on to wait.
DqBlock(w) ==
    /\ wpc[w] = "dq_check"
    /\ ~stopsvr /\ qcount = 0
    /\ wpc' = [wpc EXCEPT ![w] = "dq_wait"]
    /\ UNCHANGED <<sigVars, mtx, cnd, dqcnd, ringVars, wcfd, aVars, mVars,
                   hVars>>

\* pthread_cond_wait(&pcx->cnd, &pcx->mtx): block and release the mutex.
DqWait(w) ==
    /\ wpc[w] = "dq_wait"
    /\ cnd' = cnd \cup {w}
    /\ mtx' = NIL
    /\ wpc' = [wpc EXCEPT ![w] = "dq_waiting"]
    /\ UNCHANGED <<sigVars, dqcnd, ringVars, wcfd, aVars, mVars, hVars>>

\* Mutant: dqcnd is not signalled when an fd is taken.
DqTakeNoSignal(w) ==
    /\ wpc[w] = "dq_check"
    /\ stopsvr \/ qcount # 0
    /\ qcount > 0
    /\ wcfd' = [wcfd EXCEPT ![w] = squeue[rqpos]]
    /\ rqpos' = (rqpos + 1) % QSize
    /\ qcount' = qcount - 1
    /\ mtx' = NIL
    /\ ndeq' = ndeq + 1
    /\ wpc' = [wpc EXCEPT ![w] = "serve"]
    /\ UNCHANGED <<sigVars, cnd, dqcnd, squeue, wqpos, aVars, mVars, enq,
                   served>>

\* The loop left with qcount > 0: take the fd at rqpos, signal dqcnd if
\* the acceptor waits, unlock; service_thproc calls process_session.
DqTake(w) ==
    /\ wpc[w] = "dq_check"
    /\ stopsvr \/ qcount # 0
    /\ qcount > 0
    /\ wcfd' = [wcfd EXCEPT ![w] = squeue[rqpos]]
    /\ rqpos' = (rqpos + 1) % QSize
    /\ qcount' = qcount - 1
    /\ IF qwait > 0 THEN dqcnd' \in Signal(dqcnd) ELSE dqcnd' = dqcnd
    /\ mtx' = NIL
    /\ ndeq' = ndeq + 1
    /\ wpc' = [wpc EXCEPT ![w] = "serve"]
    /\ UNCHANGED <<sigVars, cnd, squeue, wqpos, aVars, mVars, enq, served>>

\* The loop left on stopsvr with an empty ring: -1 is returned and
\* service_thproc returns.
DqExit(w) ==
    /\ wpc[w] = "dq_check"
    /\ stopsvr /\ qcount = 0
    /\ mtx' = NIL
    /\ wpc' = [wpc EXCEPT ![w] = "exit"]
    /\ UNCHANGED <<sigVars, cnd, dqcnd, ringVars, wcfd, aVars, mVars, hVars>>

\* process_session(cfd) runs the session to its end; the loop then calls
\* dequeue_client_session again.
Serve(w) ==
    /\ wpc[w] = "serve"
    /\ served' = served \cup {wcfd[w]}
    /\ wpc' = [wpc EXCEPT ![w] = "dq_lock"]
    /\ UNCHANGED <<sigVars, mtx, cnd, dqcnd, ringVars, wcfd, aVars, mVars,
                   enq, ndeq>>

-----------------------------------------------------------------------------
(* acceptor_thproc, accept_session and queue_client_session *)

\* while (!stopsvr): the loop test.
AccLoop ==
    /\ apc = "loop"
    /\ apc' = IF stopsvr THEN "exit" ELSE "poll"
    /\ UNCHANGED <<sigVars, mtx, cnd, dqcnd, ringVars, wVars, acfd, qwait,
                   conns, nextConn, mVars, hVars>>

\* accept_session: poll returns once the pipe or svrfd is readable; the
\* pipe (or EINTR from SIGINT) makes it return -1 and the loop break.
AccPoll ==
    /\ apc = "poll"
    /\ pipe \/ nextConn <= MaxConns
    /\ apc' = IF pipe THEN "exit" ELSE "accept"
    /\ UNCHANGED <<sigVars, mtx, cnd, dqcnd, ringVars, wVars, acfd, qwait,
                   conns, nextConn, mVars, hVars>>

\* accept(svrfd): the pending connection, or EBADF once main closed svrfd.
AccAccept ==
    /\ apc = "accept"
    /\ IF svrOpen
       THEN /\ acfd' = nextConn /\ nextConn' = nextConn + 1
            /\ apc' = "count"
       ELSE /\ apc' = "exit" /\ UNCHANGED <<acfd, nextConn>>
    /\ UNCHANGED <<sigVars, mtx, cnd, dqcnd, ringVars, wVars, qwait, conns,
                   mVars, hVars>>

\* pthread_mutex_lock; pcx->conns++; pthread_mutex_unlock.
AccCount ==
    /\ apc = "count" /\ mtx = NIL
    /\ conns' = conns + 1
    /\ apc' = "q_lock"
    /\ UNCHANGED <<sigVars, mtx, cnd, dqcnd, ringVars, wVars, acfd, qwait,
                   nextConn, mVars, hVars>>

\* pthread_mutex_lock in queue_client_session, and the re-acquisition
\* inside pthread_cond_wait followed by pcx->qwait--.
AccLock ==
    /\ apc \in {"q_lock", "q_waiting"} /\ ACC \notin dqcnd
    /\ mtx = NIL
    /\ mtx' = ACC
    /\ qwait' = IF apc = "q_waiting" THEN qwait - 1 ELSE qwait
    /\ apc' = "q_check"
    /\ UNCHANGED <<sigVars, cnd, dqcnd, ringVars, wVars, acfd, conns,
                   nextConn, mVars, hVars>>

\* while (!stopsvr && qcount >= qsize): pcx->qwait++, then wait.
AccBlock ==
    /\ apc = "q_check"
    /\ ~stopsvr /\ qcount >= QSize
    /\ qwait' = qwait + 1
    /\ apc' = "q_wait"
    /\ UNCHANGED <<sigVars, mtx, cnd, dqcnd, ringVars, wVars, acfd, conns,
                   nextConn, mVars, hVars>>

\* pthread_cond_wait(&pcx->dqcnd, &pcx->mtx).
AccWait ==
    /\ apc = "q_wait"
    /\ dqcnd' = dqcnd \cup {ACC}
    /\ mtx' = NIL
    /\ apc' = "q_waiting"
    /\ UNCHANGED <<sigVars, cnd, ringVars, wVars, acfd, qwait, conns,
                   nextConn, mVars, hVars>>

\* Mutant: the fd is stored without the "qcount < qsize" test.
AccPutNoRoom ==
    /\ apc = "q_check"
    /\ stopsvr \/ qcount < QSize
    /\ qcount' = qcount + 1
    /\ squeue' = [squeue EXCEPT ![wqpos] = acfd]
    /\ wqpos' = (wqpos + 1) % QSize
    /\ cnd' \in Signal(cnd)
    /\ mtx' = NIL
    /\ enq' = Append(enq, acfd)
    /\ apc' = "loop"
    /\ UNCHANGED <<sigVars, dqcnd, rqpos, wVars, acfd, qwait, conns,
                   nextConn, mVars, ndeq, served>>

\* Mutant: cnd is not signalled after the fd is stored.
AccPutNoSignal ==
    /\ apc = "q_check"
    /\ stopsvr \/ qcount < QSize
    /\ qcount < QSize
    /\ qcount' = qcount + 1
    /\ squeue' = [squeue EXCEPT ![wqpos] = acfd]
    /\ wqpos' = (wqpos + 1) % QSize
    /\ mtx' = NIL
    /\ enq' = Append(enq, acfd)
    /\ apc' = "loop"
    /\ UNCHANGED <<sigVars, cnd, dqcnd, rqpos, wVars, acfd, qwait, conns,
                   nextConn, mVars, ndeq, served>>

\* The loop left with room on the ring: store cfd at wqpos, signal cnd,
\* unlock; back to the acceptor loop.
AccPut ==
    /\ apc = "q_check"
    /\ stopsvr \/ qcount < QSize
    /\ qcount < QSize
    /\ qcount' = qcount + 1
    /\ squeue' = [squeue EXCEPT ![wqpos] = acfd]
    /\ wqpos' = (wqpos + 1) % QSize
    /\ cnd' \in Signal(cnd)
    /\ mtx' = NIL
    /\ enq' = Append(enq, acfd)
    /\ apc' = "loop"
    /\ UNCHANGED <<sigVars, dqcnd, rqpos, wVars, acfd, qwait, conns,
                   nextConn, mVars, ndeq, served>>

\* The loop left on stopsvr with a full ring: the fd is neither queued
\* nor closed.
AccDrop ==
    /\ apc = "q_check"
    /\ stopsvr /\ qcount >= QSize
    /\ mtx' = NIL
    /\ apc' = "loop"
    /\ UNCHANGED <<sigVars, cnd, dqcnd, ringVars, wVars, acfd, qwait, conns,
                   nextConn, mVars, hVars>>
-----------------------------------------------------------------------------
(* main's shutdown, sig_int and spurious wakeups *)

\* poll(sh_pipe[0]) returns: the shutdown starts.
MainPoll ==
    /\ mpc = "poll" /\ pipe
    /\ mpc' = "close"
    /\ UNCHANGED <<sigVars, mtx, cnd, dqcnd, ringVars, wVars, aVars, jn, hVars>>

\* close(svrfd).
MainClose ==
    /\ mpc = "close"
    /\ svrOpen' = FALSE
    /\ mpc' = "bcast"
    /\ UNCHANGED <<stopsvr, pipe, mtx, cnd, dqcnd, ringVars, wVars, aVars, jn,
                   hVars>>

\* pthread_cond_broadcast(&thcpu_ctx[i].cnd), without the mutex.
MainBcast ==
    /\ mpc = "bcast"
    /\ cnd' = {}
    /\ mpc' = "join"
    /\ UNCHANGED <<sigVars, mtx, dqcnd, ringVars, wVars, aVars, jn, hVars>>

\* pthread_join(threads[jn - 1]): the service threads, then the acceptor.
Exited(j) == IF j <= NThreads THEN wpc[j] = "exit" ELSE apc = "exit"

MainJoin ==
    /\ mpc = "join" /\ Exited(jn)
    /\ jn' = jn + 1
    /\ mpc' = IF jn = NThreads + 1 THEN "done" ELSE "join"
    /\ UNCHANGED <<sigVars, mtx, cnd, dqcnd, ringVars, wVars, aVars, hVars>>

\* sig_int: ++stopsvr ...
SigStop ==
    /\ ~stopsvr
    /\ stopsvr' = TRUE
    /\ UNCHANGED <<pipe, svrOpen, mtx, cnd, dqcnd, ringVars, wVars, aVars,
                   mVars, hVars>>

\* ... then write(sh_pipe[1]); nobody reads the pipe, so it stays readable.
SigWrite ==
    /\ stopsvr /\ ~pipe
    /\ pipe' = TRUE
    /\ UNCHANGED <<stopsvr, svrOpen, mtx, cnd, dqcnd, ringVars, wVars, aVars,
                   mVars, hVars>>

\* A blocked thread returns from pthread_cond_wait without a signal.
Spurious ==
    \/ \E w \in cnd : cnd' = cnd \ {w} /\ UNCHANGED dqcnd
    \/ dqcnd # {} /\ dqcnd' = {} /\ UNCHANGED cnd

SpuriousWakeup ==
    /\ Spurious
    /\ UNCHANGED <<sigVars, mtx, ringVars, wVars, aVars, mVars, hVars>>

\* main has returned: the process is over.
Terminated == mpc = "done" /\ UNCHANGED vars

Worker_(w) ==
    DqLock(w) \/ DqBlock(w) \/ DqWait(w) \/ DqTake(w) \/ DqExit(w) \/ Serve(w)

Acceptor ==
    AccLoop \/ AccPoll \/ AccAccept \/ AccCount \/ AccLock \/ AccBlock
    \/ AccWait \/ AccPut \/ AccDrop

Main == MainPoll \/ MainClose \/ MainBcast \/ MainJoin

Next ==
    \/ \E w \in Worker : Worker_(w)
    \/ Acceptor \/ Main
    \/ SigStop \/ SigWrite \/ SpuriousWakeup
    \/ Terminated

\* Every thread the scheduler can run is eventually run (weak fairness on
\* each thread's steps), and sig_int runs to its end once entered.  A
\* thread blocked in pthread_mutex_lock on a mutex that is released again
\* and again eventually gets it (strong fairness of the lock steps): the
\* unlock wakes a futex waiter.  The clients, the SIGINT itself and
\* spurious wakeups are never forced.
Fairness ==
    /\ \A w \in Worker : WF_vars(Worker_(w)) /\ SF_vars(DqLock(w))
    /\ WF_vars(Acceptor) /\ SF_vars(AccLock) /\ SF_vars(AccCount)
    /\ WF_vars(Main) /\ WF_vars(SigWrite)

Spec == Init /\ [][Next]_vars /\ Fairness
-----------------------------------------------------------------------------
(* Properties *)

\* The fds on the ring
InRing == {squeue[(rqpos + k) % QSize] : k \in 0..qcount - 1}

\* The ring positions rqpos, wqpos and qcount, moved by two threads under
\* the mutex, always delimit exactly the fds queued and not yet taken, in
\* the order queue_client_session stored them: no fd is overwritten, lost
\* or handed out twice, also when the acceptor stores after stopsvr.
RingMatchesHistory ==
    /\ qcount = Len(enq) - ndeq
    /\ wqpos = (rqpos + qcount) % QSize
    /\ \A k \in 0..qcount - 1 : squeue[(rqpos + k) % QSize] = enq[ndeq + k + 1]

\* A queued fd is eventually served as long as some service thread has not
\* returned: the cnd signal of queue_client_session always reaches a
\* thread that will take it, whatever the waits and wakeups in between.
QueuedServedWhileWorkers ==
    \A c \in Conn :
        (c \in InRing /\ \E w \in Worker : wpc[w] # "exit") ~> c \in served

\* After SIGINT the acceptor thread eventually returns, also when it is
\* blocked on dqcnd with a full ring: the service threads drain the ring
\* and signal dqcnd.
AcceptorStops == stopsvr ~> apc = "exit"

\* After SIGINT main eventually joins every thread and returns: the
\* broadcast of cnd at shutdown wakes every service thread.
ShutdownCompletes == stopsvr ~> mpc = "done"

====
