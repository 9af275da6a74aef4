----------------------------- MODULE SignalfdTest -----------------------------
(***************************************************************************)
(* src/signalfd-test.c, main up to its non-blocking read test (lines      *)
(* 546-664), with waitsig and thproc.  main blocks every signal but       *)
(* SIGINT and reads them from a signalfd: the SIGCHLD of a child, the     *)
(* SIGUSR1 and SIGCHLD of a child that signals it, a child that reads its *)
(* own SIGUSR1, a mask without SIGUSR1, two signalfds on one signal, and  *)
(* NThreads threads (8 in the code) that wait on the signalfd for         *)
(* TEST_SIG (SIGUSR2) and pass it on with kill(0, TEST_SIG).  The threads *)
(* are clone() processes sharing the signal handlers, or with USE_PTHREAD *)
(* the threads of main's process (Mode).                                  *)
(*                                                                         *)
(* The kernel: a process's pending standard signals are a set (a second   *)
(* SIGUSR1 sent before the first is taken is lost), kill() adds to the    *)
(* set of every live process it reaches, and a signalfd read takes the   *)
(* lowest-numbered pending signal of its mask; it blocks while there is  *)
(* none, and poll() reports POLLIN when there is one.  A signalfd reads   *)
(* the pending set of the process that reads it, so a forked child reads  *)
(* its own signals.  A timed poll (1000 ms) times out only when no live   *)
(* process is still to send the reader anything; the epoll tests and the *)
(* fork stress test after line 664, and printing, are not modelled.      *)
(***************************************************************************)
EXTENDS Integers, Sequences, FiniteSets, FiniteSetsExt

CONSTANTS Mode,      \* "clone" or "pthread" (USE_PTHREAD)
          NThreads   \* the threads of the multi-thread test

SIGUSR1 == 10
SIGUSR2 == 12
SIGCHLD == 17
TEST_SIG == SIGUSR2
Sig == {SIGUSR1, SIGUSR2, SIGCHLD}

\* thid[i] of the i-th thread created (the code creates 8).
Thid == <<"t1", "t2", "t3", "t4", "t5", "t6", "t7", "t8">>
Thr  == {Thid[i] : i \in 1..NThreads}
Proc == {"main", "c1", "c2", "c3"} \cup Thr

\* The process whose pending set a thread reads and kill() reaches.
Grp(p) == IF p \in Thr /\ Mode = "pthread" THEN "main" ELSE p

VARIABLES spc,    \* main's place: the waitsig site or step it is at
          mw,     \* main inside waitsig: "poll" or "read"
          smask,  \* the mask of main's signalfd sfd
          pend,   \* the pending signals of every process
          alive,  \* the children and clone threads not yet exited
          lsig,   \* what main's waitsig calls returned, in order
          kpc,    \* each child: "exit", "kill", "poll", "read"
          c3got,  \* what the third child's waitsig returned
          thpc,   \* each thread: "new", "poll", "read", "relay", "gone"
          nthr,   \* threads created
          jn,     \* threads joined
          nbread  \* the non-blocking read: "none", "EAGAIN" or "signal"

svars == <<spc, mw, smask, pend, alive, lsig, kpc, c3got, thpc, nthr, jn,
           nbread>>

SigTypeOK == /\ smask \subseteq Sig
             /\ kpc \in [{"c1", "c2", "c3"} -> {"exit", "kill", "poll", "read"}]
             /\ pend \in [Proc -> SUBSET Sig]
             /\ alive \subseteq Proc \ {"main"}
             /\ lsig \in Seq(Sig \cup {-1}) /\ c3got \in Sig \cup {0}
             /\ thpc \in [Thr -> {"new", "poll", "read", "relay", "gone"}]
             /\ nthr \in 0..NThreads /\ jn \in 0..NThreads
             /\ nbread \in {"none", "EAGAIN", "signal"}

\* Lines 546-552: TEST_SIG's handler, every signal but SIGINT blocked and
\* read through sfd.
SigInit == /\ spc = "fork1" /\ mw = "poll" /\ smask = Sig
           /\ pend = [p \in Proc |-> {}] /\ alive = {}
           /\ lsig = <<>> /\ kpc = [c1 |-> "exit", c2 |-> "kill", c3 |-> "poll"]
           /\ c3got = 0
           /\ thpc = [t \in Thr |-> "new"] /\ nthr = 0 /\ jn = 0
           /\ nbread = "none"

\* The signal a read takes from pending set s through mask m.
Lowest(s, m) == Min(s \cap m)

\* kill(0, sig): sig is added to every live process of the group.
KillPg(p, sig) == [q \in Proc |-> IF q = "main" \/ (q \in alive /\ Grp(q) = q)
                                 THEN p[q] \cup {sig} ELSE p[q]]

\* The exit of a process: its parent gets SIGCHLD.
ChildDies(c) == /\ alive' = alive \ {c}
                /\ pend' = [pend EXCEPT !["main"] = @ \cup {SIGCHLD}]

\* No live process is still to send main a signal: a 1000 ms poll of
\* main's sfd may time out.
MainQuiet == alive \cap {"c1", "c2", "c3"} = {}

-----------------------------------------------------------------------------
(* main's tests *)

\* The waitsig sites of main in order, with their timeout in ms (1000, or
\* 0 for none) and the step after them.
Site == [w1 |-> [to |-> 1000, next |-> "fork2"],
         w2 |-> [to |-> 1000, next |-> "w3"],
         w3 |-> [to |-> 1000, next |-> "fork3"],
         w4 |-> [to |-> 1000, next |-> "mask"],
         w5 |-> [to |-> 0, next |-> "multi"],
         w6 |-> [to |-> 0, next |-> "w7"],
         w7 |-> [to |-> 0, next |-> "threads"]]

\* fork() of a child that exits at once (lines 555-559).
Fork1 == /\ spc = "fork1"
         /\ alive' = alive \cup {"c1"} /\ spc' = "w1"
         /\ UNCHANGED <<mw, smask, pend, lsig, kpc, c3got, thpc, nthr, jn, nbread>>

\* fork() of a child that sends main SIGUSR1, then exits (lines 564-569).
Fork2 == /\ spc = "fork2"
         /\ alive' = alive \cup {"c2"} /\ spc' = "w2"
         /\ UNCHANGED <<mw, smask, pend, lsig, kpc, c3got, thpc, nthr, jn, nbread>>

\* fork() of a child that waits for a signal (its pending set starts
\* empty), then kill(pid, SIGUSR1) (lines 580-590).
Fork3 == /\ spc = "fork3"
         /\ alive' = alive \cup {"c3"} /\ spc' = "kill3"
         /\ UNCHANGED <<mw, smask, pend, lsig, kpc, c3got, thpc, nthr, jn, nbread>>

Kill3 == /\ spc = "kill3"
         /\ pend' = [pend EXCEPT !["c3"] = IF "c3" \in alive THEN @ \cup {SIGUSR1}
                                                            ELSE @]
         /\ spc' = "w4"
         /\ UNCHANGED <<mw, smask, alive, lsig, kpc, c3got, thpc, nthr, jn, nbread>>

\* A new mask without SIGUSR1 for sfd, then kill(0, SIGUSR1) (597-603).
NewMask == /\ spc = "mask"
           /\ smask' = Sig \ {SIGUSR1}
           /\ pend' = KillPg(pend, SIGUSR1)
           /\ spc' = "w5"
           /\ UNCHANGED <<mw, alive, lsig, kpc, c3got, thpc, nthr, jn, nbread>>

\* sfd again with every signal, a second signalfd sfd2 (of the same
\* process and mask), kill(0, SIGUSR1) (611-621).
Multi == /\ spc = "multi"
         /\ smask' = Sig
         /\ pend' = KillPg(pend, SIGUSR1)
         /\ spc' = "w6"
         /\ UNCHANGED <<mw, alive, lsig, kpc, c3got, thpc, nthr, jn, nbread>>

\* waitsig(sfd, timeo) at site s: poll() reports POLLIN, or times out
\* ("no signals", -1) ...
MainPoll == /\ spc \in DOMAIN Site /\ mw = "poll"
            /\ \/ pend["main"] \cap smask # {} /\ mw' = "read"
                  /\ UNCHANGED <<spc, lsig>>
               \/ /\ pend["main"] \cap smask = {}
                  /\ Site[spc].to = 0 \/ MainQuiet
                  /\ lsig' = Append(lsig, -1) /\ spc' = Site[spc].next
                  /\ UNCHANGED mw
            /\ UNCHANGED <<smask, pend, alive, kpc, c3got, thpc, nthr, jn, nbread>>

\* ... and read() takes the lowest pending signal of the mask.
MainRead == /\ spc \in DOMAIN Site /\ mw = "read"
            /\ LET s == Lowest(pend["main"], smask)
               IN  /\ pend' = [pend EXCEPT !["main"] = @ \ {s}]
                   /\ lsig' = Append(lsig, s)
            /\ mw' = "poll" /\ spc' = Site[spc].next
            /\ UNCHANGED <<smask, alive, kpc, c3got, thpc, nthr, jn, nbread>>

\* xthread_new(thproc, i) for i in 0..7 (lines 635-639).
Spawn == /\ spc = "threads" /\ nthr < NThreads
         /\ nthr' = nthr + 1
         /\ thpc' = [thpc EXCEPT ![Thid[nthr + 1]] = "poll"]
         /\ alive' = IF Mode = "clone" THEN alive \cup {Thid[nthr + 1]} ELSE alive
         /\ spc' = IF nthr + 1 = NThreads THEN "kill" ELSE "threads"
         /\ UNCHANGED <<mw, smask, pend, lsig, kpc, c3got, jn, nbread>>

\* kill(0, TEST_SIG) (line 644).
KillTest == /\ spc = "kill"
            /\ pend' = KillPg(pend, TEST_SIG)
            /\ spc' = "join"
            /\ UNCHANGED <<mw, smask, alive, lsig, kpc, c3got, thpc, nthr, jn, nbread>>

\* thread_wait(thid[i]) in order (lines 645-648).
Join == /\ spc = "join" /\ thpc[Thid[jn + 1]] = "gone"
        /\ jn' = jn + 1
        /\ spc' = IF jn + 1 = NThreads THEN "flush" ELSE "join"
        /\ UNCHANGED <<mw, smask, pend, alive, lsig, kpc, c3got, thpc, nthr, nbread>>

\* Mutant: the flush reads one signal at most (if for while).
FlushOnce == /\ spc = "flush"
             /\ pend' = [pend EXCEPT !["main"] =
                            IF @ \cap smask = {} THEN @
                            ELSE @ \ {Lowest(@, smask)}]
             /\ spc' = "nb"
             /\ UNCHANGED <<mw, smask, alive, lsig, kpc, c3got, thpc, nthr, jn, nbread>>

\* while (waitsig(sfd, 0) > 0): one signal flushed per loop (650-651).
Flush == /\ spc = "flush"
         /\ IF pend["main"] \cap smask = {}
            THEN spc' = "nb" /\ UNCHANGED pend
            ELSE /\ pend' = [pend EXCEPT !["main"] = @ \ {Lowest(@, smask)}]
                 /\ UNCHANGED spc
         /\ UNCHANGED <<mw, smask, alive, lsig, kpc, c3got, thpc, nthr, jn, nbread>>

\* O_NONBLOCK, read(): a signal, or -1 with EAGAIN (lines 653-664).
NbRead == /\ spc = "nb"
          /\ nbread' = IF pend["main"] \cap smask = {} THEN "EAGAIN" ELSE "signal"
          /\ spc' = "end"
          /\ UNCHANGED <<mw, smask, pend, alive, lsig, kpc, c3got, thpc, nthr, jn>>

-----------------------------------------------------------------------------
(* The children and the threads *)

\* The first child: exit(0).
C1Exit == /\ "c1" \in alive
          /\ ChildDies("c1")
          /\ UNCHANGED <<spc, mw, smask, lsig, kpc, c3got, thpc, nthr, jn, nbread>>

\* The second child: kill(getppid(), SIGUSR1), then exit(0).
C2Kill == /\ "c2" \in alive /\ kpc["c2"] = "kill"
          /\ pend' = [pend EXCEPT !["main"] = @ \cup {SIGUSR1}]
          /\ kpc' = [kpc EXCEPT !["c2"] = "exit"]
          /\ UNCHANGED <<spc, mw, smask, alive, lsig, c3got, thpc, nthr, jn, nbread>>

C2Exit == /\ "c2" \in alive /\ kpc["c2"] = "exit"
          /\ ChildDies("c2")
          /\ UNCHANGED <<spc, mw, smask, lsig, kpc, c3got, thpc, nthr, jn, nbread>>

\* The third child: waitsig(sfd, 1000) on its own pending set, which only
\* main's kill(pid, SIGUSR1) fills: poll() reports POLLIN ...  (main
\* sends while the child is alive, so the 1000 ms poll does not time out.)
C3Poll == /\ "c3" \in alive /\ kpc["c3"] = "poll"
          /\ pend["c3"] \cap Sig # {}
          /\ kpc' = [kpc EXCEPT !["c3"] = "read"]
          /\ UNCHANGED <<spc, mw, smask, pend, alive, lsig, c3got, thpc, nthr, jn, nbread>>

\* ... read() takes the signal; then exit(0).
C3Read == /\ "c3" \in alive /\ kpc["c3"] = "read"
          /\ LET s == Lowest(pend["c3"], Sig)
             IN  /\ pend' = [pend EXCEPT !["c3"] = @ \ {s}]
                 /\ c3got' = s
          /\ kpc' = [kpc EXCEPT !["c3"] = "exit"]
          /\ UNCHANGED <<spc, mw, smask, alive, lsig, thpc, nthr, jn, nbread>>

C3Exit == /\ "c3" \in alive /\ kpc["c3"] = "exit"
          /\ ChildDies("c3")
          /\ UNCHANGED <<spc, mw, smask, lsig, kpc, c3got, thpc, nthr, jn, nbread>>

\* thproc's waitsig(sfd, -1): poll() blocks until POLLIN ...
TPoll(t) == /\ thpc[t] = "poll" /\ pend[Grp(t)] \cap smask # {}
            /\ thpc' = [thpc EXCEPT ![t] = "read"]
            /\ UNCHANGED <<spc, mw, smask, pend, alive, lsig, kpc, c3got, nthr, jn, nbread>>

\* ... then read() blocks until a signal is pending (another thread may
\* have taken the one poll saw); TEST_SIG ends the loop.
TRead(t) == /\ thpc[t] = "read" /\ pend[Grp(t)] \cap smask # {}
            /\ LET s == Lowest(pend[Grp(t)], smask)
               IN  /\ pend' = [pend EXCEPT ![Grp(t)] = @ \ {s}]
                   /\ thpc' = [thpc EXCEPT ![t] = IF s = TEST_SIG THEN "relay" ELSE "poll"]
            /\ UNCHANGED <<spc, mw, smask, alive, lsig, kpc, c3got, nthr, jn, nbread>>

\* Mutant: the thread returns without passing TEST_SIG on.
RelayNoKill(t) == /\ thpc[t] = "relay"
                  /\ thpc' = [thpc EXCEPT ![t] = "gone"]
                  /\ IF Mode = "clone"
                     THEN ChildDies(t)
                     ELSE UNCHANGED <<pend, alive>>
                  /\ UNCHANGED <<spc, mw, smask, lsig, kpc, c3got, nthr, jn, nbread>>

\* kill(0, TEST_SIG) and the thread's return; a clone() thread's exit
\* sends main SIGCHLD.
Relay(t) == /\ thpc[t] = "relay"
            /\ thpc' = [thpc EXCEPT ![t] = "gone"]
            /\ LET p == KillPg(pend, TEST_SIG)
               IN  IF Mode = "clone"
                   THEN /\ alive' = alive \ {t}
                        /\ pend' = [p EXCEPT !["main"] = @ \cup {SIGCHLD}]
                   ELSE pend' = p /\ UNCHANGED alive
            /\ UNCHANGED <<spc, mw, smask, lsig, kpc, c3got, nthr, jn, nbread>>

\* main has reached the epoll tests, which are not modelled.
Ended == spc = "end" /\ UNCHANGED svars

SigMain == Fork1 \/ Fork2 \/ Fork3 \/ Kill3 \/ NewMask \/ Multi \/ MainPoll
           \/ MainRead \/ Spawn \/ KillTest \/ Join \/ Flush \/ NbRead

Child == C1Exit \/ C2Kill \/ C2Exit \/ C3Poll \/ C3Read \/ C3Exit

SigThread(t) == TPoll(t) \/ TRead(t) \/ Relay(t)

SigNext == SigMain \/ Child \/ (\E t \in Thr : SigThread(t)) \/ Ended

\* Every process runs when it is not blocked.
SigSpec == /\ SigInit /\ [][SigNext]_svars
           /\ WF_svars(SigMain) /\ WF_svars(Child)
           /\ \A t \in Thr : WF_svars(SigThread(t))

-----------------------------------------------------------------------------

\* The checks the test prints come out as the test expects, in every
\* interleaving: main reads SIGCHLD, then SIGUSR1 before the SIGCHLD of
\* the child that sent it, the third child reads the SIGUSR1 sent to it
\* and main its SIGCHLD; the mask without SIGUSR1 gives "no signal,
\* correct"; of the two signalfds only one gets the SIGUSR1 (the one
\* still pending from the masked test and the new one are one signal);
\* and after the multi-thread test and the flush loop the non-blocking
\* read fails with EAGAIN ("success").
TestsAsExpected ==
    spc = "end" =>
        /\ lsig = <<SIGCHLD, SIGUSR1, SIGCHLD, SIGCHLD, -1, SIGUSR1, -1>>
        /\ c3got = SIGUSR1
        /\ nbread = "EAGAIN"

\* main gets through the multi-thread test: every thread reads a
\* TEST_SIG, although with USE_PTHREAD main's kill(0, TEST_SIG) leaves one
\* signal for the whole process and a thread can see POLLIN and then
\* block in read() because another took it; each thread's own kill(0,
\* TEST_SIG) passes it on.
SigMainEnds == <>(spc = "end")
=============================================================================
