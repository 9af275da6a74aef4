-------------------------------- MODULE Sload --------------------------------
(***************************************************************************)
(* The processes of src/sload.c's main (lines 186-336).  The options make *)
(* a list of tasks, each run by -N child processes; main forks them all,  *)
(* then reaps them in order, reading each one's report from its pipe.  A  *)
(* child loops on burn/usleep/deadline rounds until its stop_test is set  *)
(* by SIGINT (the terminal's ^C, sent to the whole process group) or by   *)
(* SIGALRM from alarm(-R), then writes its report and returns.            *)
(*                                                                         *)
(* The durations, their jitter (module SloadJitter), the CPU binding, the *)
(* calibration and the report's numbers change no control decision and   *)
(* are left out; a round of the child loop then changes nothing modelled. *)
(* An option is a token: "T" (-T), "N0", "N2" (-N with that count), "R"   *)
(* (-R with a positive time), "b" (-b, -s, -w, -n, -B or -D: a value of   *)
(* the current task or a setting) and "h".                                *)
(***************************************************************************)
EXTENDS Naturals, Sequences

CONSTANT Scripts   \* the option lists considered, each a sequence of tokens

VARIABLES opts,    \* the option list of this run
          mainpc,  \* main: "parse", "fork", "wait", "done", "usage" (exit 1
                   \* from usage()), "failed" (pipe() failed, return 1) or
                   \* "killed" (SIGINT before sig_int is set) or "hung"
                   \* (blocked for ever in read() on a pipe no child has)
          nf,      \* children forked
          nw,      \* children reaped
          cpc,     \* per child: "none" (not forked), "run", "exited", or
                   \* "nofork" (fork() returned -1, kept as its pid)
          stop,    \* per child: its stop_test
          pstop,   \* main's stop_test, which a child inherits at fork
          piped,   \* per child: its report is in its pipe
          intr     \* SIGINT has been sent

vars == <<opts, mainpc, nf, nw, cpc, stop, pstop, piped, intr>>

\* The getopt loop (lines 201-244): "T" starts a task of count 1 (the
\* next_task of the previous one), "N" sets the current one's count, "h"
\* exits through usage(), and so does a list with no -T.  A value given
\* before any -T would be stored in tasks[-1]: the scripts have none.
RECURSIVE Parsed(_, _)
Parsed(s, cs) ==
    IF s = <<>> THEN [usage |-> cs = <<>>, counts |-> cs]
    ELSE CASE Head(s) = "T"  -> Parsed(Tail(s), Append(cs, 1))
           [] Head(s) = "N0" -> Parsed(Tail(s), [cs EXCEPT ![Len(cs)] = 0])
           [] Head(s) = "N2" -> Parsed(Tail(s), [cs EXCEPT ![Len(cs)] = 2])
           [] Head(s) = "h"  -> [usage |-> TRUE, counts |-> cs]
           [] OTHER          -> Parsed(Tail(s), cs)

Usage(o) == Parsed(o, <<>>).usage

\* The number of children: the counts summed over the tasks.
NChild(o) == LET cs == Parsed(o, <<>>).counts
                 RECURSIVE S(_)
                 S(i) == IF i = 0 THEN 0 ELSE cs[i] + S(i - 1)
             IN  IF Usage(o) THEN 0 ELSE S(Len(cs))

\* -R given: each child calls alarm(runfor).
RunFor(o) == \E i \in 1..Len(o) : o[i] = "R"

MaxChild == 3   \* the most children the scripts start
Child == 1..MaxChild

TypeOK == /\ mainpc \in {"parse", "fork", "wait", "done", "usage", "failed",
                      "killed", "hung"}
          /\ nf \in 0..MaxChild /\ nw \in 0..MaxChild
          /\ cpc \in [Child -> {"none", "run", "exited", "nofork"}]
          /\ stop \in [Child -> BOOLEAN] /\ pstop \in BOOLEAN
          /\ piped \in [Child -> BOOLEAN] /\ intr \in BOOLEAN

Init == /\ opts \in Scripts
        /\ mainpc = "parse"
        /\ nf = 0 /\ nw = 0
        /\ cpc = [c \in Child |-> "none"]
        /\ stop = [c \in Child |-> FALSE] /\ pstop = FALSE
        /\ piped = [c \in Child |-> FALSE]
        /\ intr = FALSE

\* The option loop, the last next_task, calibrate_loop and the signal()
\* calls of lines 201-255, up to the fork loop (or to the wait loop when
\* every count is 0).
Parse == /\ mainpc = "parse"
         /\ mainpc' = CASE Usage(opts)        -> "usage"
                        [] NChild(opts) = 0 -> "wait"
                        [] OTHER            -> "fork"
         /\ UNCHANGED <<opts, nf, nw, cpc, stop, pstop, piped, intr>>

\* Mutant: the child starts with stop_test cleared.
ForkNoInherit ==
    /\ mainpc = "fork"
    /\ \/ /\ \E st \in {"run", "nofork"} : cpc' = [cpc EXCEPT ![nf + 1] = st]
          /\ stop' = [stop EXCEPT ![nf + 1] = FALSE]
          /\ nf' = nf + 1
          /\ mainpc' = IF nf + 1 = NChild(opts) THEN "wait" ELSE "fork"
       \/ /\ mainpc' = "failed"
          /\ UNCHANGED <<cpc, stop, nf>>
    /\ UNCHANGED <<opts, nw, pstop, piped, intr>>

\* Mutant: the fork loop runs to i <= ntasks, one child past the last.
ForkOneMore ==
    /\ mainpc = "fork"
    /\ \/ /\ \E st \in {"run", "nofork"} : cpc' = [cpc EXCEPT ![nf + 1] = st]
          /\ stop' = [stop EXCEPT ![nf + 1] = pstop]
          /\ nf' = nf + 1
          /\ mainpc' = IF nf = NChild(opts) THEN "wait" ELSE "fork"
       \/ /\ mainpc' = "failed"
          /\ UNCHANGED <<cpc, stop, nf>>
    /\ UNCHANGED <<opts, nw, pstop, piped, intr>>

\* pipe() and fork() of the next child (lines 256-267).  The child starts
\* with main's stop_test; it calls alarm(runfor) first when -R was given.
\* A fork() that fails returns -1, which main stores in pids[k] without a
\* check and goes on.  A failing pipe() makes main return 1, leaving the
\* children it forked.
Fork == /\ mainpc = "fork"
        /\ \/ /\ \E st \in {"run", "nofork"} : cpc' = [cpc EXCEPT ![nf + 1] = st]
              /\ stop' = [stop EXCEPT ![nf + 1] = pstop]
              /\ nf' = nf + 1
              /\ mainpc' = IF nf + 1 = NChild(opts) THEN "wait" ELSE "fork"
           \/ /\ mainpc' = "failed"
              /\ UNCHANGED <<cpc, stop, nf>>
        /\ UNCHANGED <<opts, nw, pstop, piped, intr>>

\* ^C: SIGINT to main and every child alive.  sig_int (lines 59-63) sets
\* stop_test; main only installs it after calibrate_loop, and dies of
\* SIGINT before that.
Sigint == /\ ~intr
          /\ intr' = TRUE
          /\ IF mainpc = "parse"
             THEN mainpc' = "killed" /\ UNCHANGED <<pstop, stop>>
             ELSE /\ pstop' = TRUE
                  /\ stop' = [c \in Child |-> stop[c] \/ cpc[c] = "run"]
                  /\ UNCHANGED mainpc
          /\ UNCHANGED <<opts, nf, nw, cpc, piped>>

\* SIGALRM of alarm(runfor) in child c.
Alarm(c) == /\ RunFor(opts) /\ cpc[c] = "run" /\ ~stop[c]
            /\ stop' = [stop EXCEPT ![c] = TRUE]
            /\ UNCHANGED <<opts, mainpc, nf, nw, cpc, pstop, piped, intr>>

\* The child loop (lines 307-330) exits on stop_test; write() of the
\* report, return 0.
ChildExit(c) == /\ cpc[c] = "run" /\ stop[c]
                /\ piped' = [piped EXCEPT ![c] = TRUE]
                /\ cpc' = [cpc EXCEPT ![c] = "exited"]
                /\ UNCHANGED <<opts, mainpc, nf, nw, stop, pstop, intr>>

\* waitpid() of the next child, then read() of its report (lines
\* 268-282).  read() blocks while the pipe is empty: main keeps every
\* write end open, so it never sees end of file.
ReapChild == /\ cpc[nw + 1] = "exited"
             /\ piped[nw + 1]
             /\ piped' = [piped EXCEPT ![nw + 1] = FALSE]
             /\ nw' = nw + 1
             /\ UNCHANGED <<opts, mainpc, nf, cpc, stop, pstop, intr>>

\* waitpid(-1) for a child whose fork failed waits for any child.  When
\* a later child exits it returns that child's pid, not pids[k]: perror
\* and return 1.  With no child left it returns -1 (ECHILD), which equals
\* pids[k], and main reads the child's pipe, whose only write end is its
\* own: it blocks for ever, and sig_int's SIGINT restarts the read.
ReapNoChild ==
    /\ cpc[nw + 1] = "nofork"
    /\ LET later == {c \in Child : c > nw + 1 /\ cpc[c] \in {"run", "exited"}}
       IN  \/ later = {} /\ mainpc' = "hung"
           \/ \E c \in later : cpc[c] = "exited" /\ mainpc' = "failed"
    /\ UNCHANGED <<opts, nf, nw, cpc, stop, pstop, piped, intr>>

Reap == /\ mainpc = "wait" /\ nw < NChild(opts)
        /\ ReapChild \/ ReapNoChild

\* The totals are printed and main returns 0 (lines 283-296).
Report == /\ mainpc = "wait" /\ nw = NChild(opts)
          /\ mainpc' = "done"
          /\ UNCHANGED <<opts, nf, nw, cpc, stop, pstop, piped, intr>>

Ended == mainpc \in {"done", "usage", "failed", "killed"}

\* A fork of main failed.
ForkFailed == \E c \in Child : cpc[c] = "nofork"

\* main has returned; a child killed with it is not modelled further.
Gone == Ended /\ UNCHANGED vars

\* main blocked for ever in read().
Hung == mainpc = "hung" /\ UNCHANGED vars

Next == \/ Parse \/ Fork \/ Sigint \/ Reap \/ Report \/ Gone \/ Hung
        \/ \E c \in Child : Alarm(c) \/ ChildExit(c)

\* The OS runs every runnable process; a pending SIGALRM is delivered.
\* SIGINT is the user's and has no fairness.
Fairness == /\ WF_vars(Parse \/ Fork \/ Reap \/ Report)
            /\ \A c \in Child : WF_vars(Alarm(c)) /\ WF_vars(ChildExit(c))

Spec == Init /\ [][Next]_vars /\ Fairness
=============================================================================
