------------------------------- MODULE MC_Tools -------------------------------
(***************************************************************************)
(* The stand-alone test programs of src/, checked in one model.  Each      *)
(* behaviour runs one of them, chosen in the initial state (`prog`); the   *)
(* others keep their initial state.  eventfd-sem.c is EfdSem, sload.c's    *)
(* processes are Sload, pipetest-4.c and eventfd-bench.c are PipeTest and  *)
(* EventfdBench, pthread-lat-ctx.c is PthreadLatCtx, and the first tests   *)
(* of signalfd-test.c are SignalfdTest, built with clone() threads and     *)
(* with USE_PTHREAD, and qspins.c is QSpins.  The pure functions of memiszero.c, sload.c,          *)
(* splitmb.c and thrplhttp.c are applied to every input of a bounded       *)
(* domain by a test driver, one step per function (`tested`).              *)
(***************************************************************************)
EXTENDS EfdSem, Integers, Sequences

\* The option lists of sload: one task, three children of two tasks, -R
\* with two children, a task of count 0, -h, and no -T.
MC_Scripts == {<<"T">>, <<"T", "N2", "b", "T">>, <<"R", "T", "N2">>,
               <<"T", "N0">>, <<"h">>, <<>>}

\* pipetest-4's -n, -a and -w: no pipe, one, and up to four, with -a at,
\* below and above the clamp, and no, one or several writes.
MC_Args == {[n |-> n, a |-> a, w |-> w] : n \in 0..4, a \in 0..4, w \in 0..3}

VARIABLES prog,    \* the program this behaviour runs
          opts, mainpc, nf, nw, cpc, stop, pstop, piped, intr,
          args, ppc, rc, nact, pipes, rdl, batch, count, writes, fired, run,
          lmpc, swcount, created, joined, pipe, tpc, left,
          spc, mw, smask, pend, alive, lsig, kpc, c3got, thpc, nthr, jn, nbread,
          tdesc, qhead, qtail, slock, qgo, qpc, qk, qpos, qn, qmpc, qmi,
          tested   \* the pure functions the driver has run on their domain

S == INSTANCE Sload WITH Scripts <- MC_Scripts
P == INSTANCE PipeTest WITH Fd <- "pipe", Args <- MC_Args, MaxPipes <- 4,
                            Runs <- 2
E == INSTANCE EventfdBench WITH Args <- MC_Args, MaxPipes <- 4, Runs <- 2
\* swcount is a multiple of 10000 in the code; 1 to 3 rounds show the
\* first, middle and last rounds of the ping-pong.
L == INSTANCE PthreadLatCtx WITH Counts <- 1..3
\* Three threads: two can both see POLLIN for one TEST_SIG, and a third
\* is still polling when the first two have relayed.
GC == INSTANCE SignalfdTest WITH Mode <- "clone", NThreads <- 3
GP == INSTANCE SignalfdTest WITH Mode <- "pthread", NThreads <- 3

\* qspins with three threads passing locks four times each, and 2-bit
\* tickets, so that the ticket counters wrap.
Q == INSTANCE QSpins WITH NumThreads <- 3, Rounds <- 4, TicketBits <- 2,
                          go <- qgo, pc <- qpc, k <- qk, pos <- qpos, n <- qn,
                          mpc <- qmpc, mi <- qmi

sVars == <<opts, mainpc, nf, nw, cpc, stop, pstop, piped, intr>>
pVars == <<args, ppc, rc, nact, pipes, rdl, batch, count, writes, fired, run>>
lVars == <<lmpc, swcount, created, joined, pipe, tpc, left>>
gVars == <<spc, mw, smask, pend, alive, lsig, kpc, c3got, thpc, nthr, jn, nbread>>
qVars == <<tdesc, qhead, qtail, slock, qgo, qpc, qk, qpos, qn, qmpc, qmi>>
allVars == <<prog, vars, sVars, pVars, lVars, gVars, qVars, tested>>

Progs == {"eventfd-sem", "sload", "pipetest-4", "eventfd-bench",
          "pthread-lat-ctx", "signalfd-clone", "signalfd-pthread", "qspins", "pure"}
Pure == {"memiszero", "jval", "addr_spec", "bstream_write"}

\* The driver runs one pure function over its whole domain.
Test(f) == f \notin tested /\ tested' = tested \cup {f}
Tested == tested = Pure /\ UNCHANGED tested

\* A step of program A of behaviours running p, the others unchanged.
EfdStep(A)   == prog = "eventfd-sem" /\ A
                /\ UNCHANGED <<prog, sVars, pVars, lVars, gVars, qVars, tested>>
SloadStep(A) == prog = "sload" /\ A
                /\ UNCHANGED <<prog, vars, pVars, lVars, gVars, qVars, tested>>
PipeStep(A)  == prog = "pipetest-4" /\ A
                /\ UNCHANGED <<prog, vars, sVars, lVars, gVars, qVars, tested>>
EvStep(A)    == prog = "eventfd-bench" /\ A
                /\ UNCHANGED <<prog, vars, sVars, lVars, gVars, qVars, tested>>
LatStep(A)   == prog = "pthread-lat-ctx" /\ A
                /\ UNCHANGED <<prog, vars, sVars, pVars, gVars, qVars, tested>>
GcStep(A)    == prog = "signalfd-clone" /\ A
                /\ UNCHANGED <<prog, vars, sVars, pVars, lVars, qVars, tested>>
GpStep(A)    == prog = "signalfd-pthread" /\ A
                /\ UNCHANGED <<prog, vars, sVars, pVars, lVars, qVars, tested>>
QStep(A)     == prog = "qspins" /\ A
                /\ UNCHANGED <<prog, vars, sVars, pVars, lVars, gVars, tested>>
PureStep(A)  == prog = "pure" /\ A
                /\ UNCHANGED <<prog, vars, sVars, pVars, lVars, gVars, qVars>>

ToolsNext == \/ EfdStep(Next)
             \/ SloadStep(S!Next)
             \/ PipeStep(P!Next)
             \/ EvStep(E!Next)
             \/ LatStep(L!LatNext)
             \/ LatStep(L!Returned /\ UNCHANGED lVars)
             \/ GcStep(GC!SigNext)
             \/ GpStep(GP!SigNext)
             \/ QStep(Q!Next)
             \/ PureStep(\E f \in Pure : Test(f))
             \/ PureStep(Tested)

\* A program not run keeps one initial state.
ToolsInit == /\ prog \in Progs
             /\ Init
             /\ S!Init /\ (prog # "sload" => opts = <<>>)
             /\ P!Init /\ (prog \notin {"pipetest-4", "eventfd-bench"} =>
                                      args = [n |-> 0, a |-> 0, w |-> 0])
             /\ L!LatInit
             /\ GC!SigInit
             /\ Q!Init /\ (prog # "qspins" => tdesc = "ticket")
             /\ tested = {}

\* The fairness of each program (EfdSem!Fairness, S!Fairness and
\* PipeTest's), for the behaviours that run it.
ToolsFairness ==
    /\ WF_allVars(EfdStep(Create \/ ForkPoster \/ ForkWaiter
                          \/ WaitPoster \/ WaitWaiter))
    /\ \A p \in Player :
          WF_allVars(EfdStep(XsemPost(p) \/ XsemWait(p) \/ Exit(p)))
    /\ WF_allVars(SloadStep(S!Parse \/ S!Fork \/ S!Reap \/ S!Report))
    /\ \A c \in S!Child : /\ WF_allVars(SloadStep(S!Alarm(c)))
                         /\ WF_allVars(SloadStep(S!ChildExit(c)))
    /\ WF_allVars(PipeStep(P!Step))
    /\ WF_allVars(EvStep(E!Step))
    /\ WF_allVars(LatStep(L!LatMain))
    /\ \A t \in L!Thread : WF_allVars(LatStep(L!LatThread(t)))
    /\ WF_allVars(GcStep(GC!SigMain)) /\ WF_allVars(GcStep(GC!Child))
    /\ \A t \in GC!Thr : WF_allVars(GcStep(GC!SigThread(t)))
    /\ WF_allVars(GpStep(GP!SigMain)) /\ WF_allVars(GpStep(GP!Child))
    /\ \A t \in GP!Thr : WF_allVars(GpStep(GP!SigThread(t)))
    /\ WF_allVars(QStep(Q!Main))
    /\ \A t \in Q!Thread : WF_allVars(QStep(Q!Thread_(t)))

ToolsSpec == ToolsInit /\ [][ToolsNext]_allVars /\ ToolsFairness

ToolsTypeOK == /\ prog \in Progs /\ TypeOK /\ S!TypeOK /\ P!TypeOK
               /\ L!LatTypeOK /\ GC!SigTypeOK /\ Q!TypeOK
               /\ tested \subseteq Pure

\* eventfd-sem.c's main returns (EfdSem's Terminates).
EfdTerminates == prog = "eventfd-sem" => Terminates

\* After ^C, and with -R without one, sload's main reaps every child and
\* returns (sload.c 256-296) when every fork succeeded: each child leaves
\* its loop on stop_test, also one forked after the signal, which starts
\* with main's copy of stop_test, and its report is in the pipe before
\* main reads it.  After a failed fork main may block for ever instead.
MainReturns == prog = "sload" => /\ S!RunFor(opts) => <>(S!Ended \/ S!ForkFailed)
                                 /\ intr ~> (S!Ended \/ S!ForkFailed)

\* pipetest-4's count is the number of bytes read (PipeTest's
\* Conservation).
PipeConservation == prog = "pipetest-4" => P!Conservation

\* pipetest-4's main returns (PipeTest's RunsEnd).
PipeRunsEnd == prog = "pipetest-4" => P!RunsEnd

\* eventfd-bench's count is the number of writes read, although one
\* read takes the whole counter (PipeTest's Conservation).
EvConservation == prog = "eventfd-bench" => E!R!Conservation

\* eventfd-bench's main returns: no write is drained by a read that
\* counts it as one of two (PipeTest's RunsEnd).
EvRunsEnd == prog = "eventfd-bench" => E!R!RunsEnd

\* pthread-lat-ctx's main returns (PthreadLatCtx's LatReturns).
LatReturns == prog = "pthread-lat-ctx" => L!LatReturns

\* signalfd-test's checks print what they expect, with clone() threads
\* and with USE_PTHREAD (SignalfdTest's TestsAsExpected).
SigTestsAsExpected == /\ prog = "signalfd-clone" => GC!TestsAsExpected
                      /\ prog = "signalfd-pthread" => GP!TestsAsExpected

\* signalfd-test's main gets past the multi-thread test in both builds
\* (SignalfdTest's SigMainEnds).
SigMainEnds == /\ prog = "signalfd-clone" => GC!SigMainEnds
               /\ prog = "signalfd-pthread" => GP!SigMainEnds

\* qspins: no two threads hold the same lock, through every pass around
\* the ring and every wrap of the ticket counters (QSpins's
\* MutualExclusion), in both tests.
MutualExclusion == prog = "qspins" => Q!MutualExclusion

\* qspins: each lock's qhead - qtail counts the threads that drew a ticket
\* on it and have not released it (QSpins's TicketsConsistent).
TicketsConsistent == prog = "qspins" => Q!TicketsConsistent

\* qspins: every thread completes its passes and main joins them all
\* (QSpins's AllJoined).
AllJoined == prog = "qspins" => Q!AllJoined

Z == INSTANCE MemIsZero
J == INSTANCE SloadJitter WITH ULongBits <- 6
A == INSTANCE SplitMb

\* Buffers of memiszero: any alignment of p modulo 8, lengths that give
\* no word, one word and several, and memory that is zero except for at
\* most one byte, inside the buffer or around it.
Addr == 0..31
Buffers == {<<p, n>> \in (0..7) \X (0..20) : TRUE}
Mem(nz) == [a \in Addr |-> IF a = nz THEN 1 ELSE 0]

\* Both word-at-a-time scans agree with memiszero_loop on every buffer,
\* whatever its alignment, and whatever lies just outside it: the head,
\* word and tail parts of memiszero/memiszero_32 (memiszero.c 48-128)
\* together cover exactly the n bytes at p.
ScansHold ==
    \A b \in Buffers, nz \in Addr \cup {-1} :
        LET ref == Z!MemIsZeroLoop(Mem(nz), b[1], b[2])
        IN  /\ Z!MemIsZero(Mem(nz), b[1], b[2]) = ref
            /\ Z!MemIsZero32(Mem(nz), b[1], b[2]) = ref

\* The values myrand can return from any state of its generator.
Draws == {J!MyRand(x) : x \in J!ULong}

\* For the durations and jitters the -b/-s/-w arguments give (atol of a
\* positive number, jitter below a quarter of the range), jval of sload.c
\* (lines 105-115) is defined and lies in [v - jitter, v + jitter), or in
\* [0, 2 * jitter) when v <= jitter, whatever myrand returned.
JvalHolds ==
    \A v \in 0..2 ^ 5 - 1, jit \in 1..2 ^ 4 - 1, r \in Draws :
        LET b == IF v > jit THEN v - jit ELSE 0
        IN  J!JvalDefined(jit) /\ J!Jval(v, jit, r) \in b..b + 2 * jit - 1

\* The reference: RFC 822's addr-spec in dot-atom form, dot-atom ["@"
\* dot-atom], where a dot-atom is non-empty atext atoms joined by dots.
DotAtomRef(s) == /\ s # <<>>
                 /\ \A i \in 1..Len(s) : s[i] \in {"a", "."}
                 /\ s[1] = "a" /\ s[Len(s)] = "a"
                 /\ \A i \in 1..Len(s) - 1 : ~(s[i] = "." /\ s[i + 1] = ".")
AddrSpecRef(s) ==
    \/ DotAtomRef(s)
    \/ \E k \in 1..Len(s) : /\ s[k] = "@"
                            /\ DotAtomRef(SubSeq(s, 1, k - 1))
                            /\ DotAtomRef(SubSeq(s, k + 1, Len(s)))

Strings == UNION {[1..k -> {"a", ".", "@", "x"}] : k \in 0..6}

\* is_split_msg accepts a sender (splitmb.c 45-93) exactly when it is an
\* addr-spec of the reference grammar: no empty atom, no dot at either
\* end of a part, at most one '@', no other character.
AddrSpecHolds == \A s \in Strings : A!IsValidAddrSpec(s) = AddrSpecRef(s)

ScansAgree     == "memiszero" \in tested => ScansHold
JvalInWindow   == "jval" \in tested => JvalHolds
AddrSpecAgrees == "addr_spec" \in tested => AddrSpecHolds

W == INSTANCE BStreamWrite WITH SizeBits <- 4

\* send() outcomes on a connection: some partial sends of 1 or 2 bytes,
\* then at most one EINTR (SIGINT, which siginterrupt(SIGINT, 1) at
\* thrplhttp.c:779 makes interrupt a send that has not sent anything
\* yet), then either a live peer (every later send takes all it is
\* given) or a dead one (EPIPE: SIGPIPE is ignored, so every later send
\* fails).
Partial == UNION {[1..k -> {1, 2}] : k \in 0..3}
Later(dead) == [i \in 1..12 |-> IF dead THEN W!Fail ELSE 8]
Outcomes == {pre \o eintr \o Later(dead) :
                pre \in Partial, eintr \in {<<>>, <<W!Fail>>}, dead \in BOOLEAN}

\* send_mem of a header of 1 or 2 bytes and a document of up to 4 in
\* chunks of 2 (thrplhttp.c 326-356, 441-472) puts on the wire what an
\* HTTP client can read: it returns 0 exactly when every byte of the body
\* was sent, and the bytes sent of the header and of the body are their
\* first bytes in order, none sent twice, whatever send() returns.
SendMemHolds ==
    \A hlen \in 1..2, size \in 0..4, outs \in Outcomes :
        LET r == W!SendMem(hlen, size, 2, outs)
        IN  /\ (r.ret = 0) = (r.body = W!Span(0, size))
            /\ \E k \in 0..hlen : r.header = W!Span(0, k)
            /\ \E k \in 0..size : r.body = W!Span(0, k)

SendMemAgrees == "bstream_write" \in tested => SendMemHolds
=============================================================================
