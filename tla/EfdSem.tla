------------------------------- MODULE EfdSem --------------------------------
(***************************************************************************)
(* src/eventfd-sem.c: two eventfds created with EFD_SEMLIKE (the kernel's *)
(* EFD_SEMAPHORE, 1 << 0) and two forked processes that play sem_player   *)
(* on them in opposite roles, while main waits for both.                  *)
(*                                                                         *)
(* An eventfd is its 64-bit counter.  write() adds to it; read() blocks   *)
(* while it is 0 and, in semaphore mode, takes 1 and returns 1.  The      *)
(* counter never comes near the 0xfffffffffffffffe at which write blocks: *)
(* the players post 7 each.  A player's program counter indexes Play, the *)
(* straight-line body of sem_player (Len(Play) + 1: returned from it,    *)
(* Len(Play) + 2: exited).  The fprintf calls are left out, except the    *)
(* count a completed wait prints, which is kept in `got`.                 *)
(***************************************************************************)
EXTENDS Naturals, Sequences

Player == {"poster", "waiter"}

\* sem_player(fd1, fd2) for the poster, sem_player(fd2, fd1) for the waiter:
\* Own(p) is the fd p posts on, Other(p) the fd it waits on.
Own(p)   == IF p = "poster" THEN 1 ELSE 2
Other(p) == 3 - Own(p)

\* The body of sem_player, lines 67-89: a post is its count, a wait is 0.
Play == <<1, 0, 1, 0, 5, 0, 0, 0, 0, 0>>

VARIABLES efd,   \* the counters of fd1 and fd2
          pc,    \* per player: 0 before its fork, then its position in Play
          got,   \* per player: the counts its completed waits printed
          mpc,   \* main: "create", "fork1", "fork2", "wait1", "wait2",
                 \* "done" (return 0) or "failed" (return 1)
          reaped \* the children main's waitpid calls have reaped

vars == <<efd, pc, got, mpc, reaped>>

TypeOK == /\ efd \in [1..2 -> Nat]
          /\ pc \in [Player -> 0..Len(Play) + 2]
          /\ got \in [Player -> Seq(Nat)]
          /\ mpc \in {"create", "fork1", "fork2", "wait1", "wait2",
                      "done", "failed"}
          /\ reaped \subseteq Player

Init == /\ efd = [f \in 1..2 |-> 0]
        /\ pc = [p \in Player |-> 0]
        /\ got = [p \in Player |-> <<>>]
        /\ mpc = "create"
        /\ reaped = {}

\* getopt (every option is -h or unknown: usage, return 1), then
\* eventfd2(0, EFD_SEMLIKE) twice; an option or a failing eventfd2 makes
\* main return 1.
Create == /\ mpc = "create"
          /\ \/ mpc' = "fork1"
             \/ mpc' = "failed"
          /\ UNCHANGED <<efd, pc, got, reaped>>

\* fork(): the child starts sem_player and the parent goes on; or fork
\* fails, returns -1, which main keeps as the child's pid and does not
\* check, and the parent goes on alone.
Fork(p, next) == /\ pc' \in {[pc EXCEPT ![p] = 1], pc}
                 /\ mpc' = next
                 /\ UNCHANGED <<efd, got, reaped>>

ForkPoster == mpc = "fork1" /\ Fork("poster", "fork2")
ForkWaiter == mpc = "fork2" /\ Fork("waiter", "wait1")

\* The child was forked (its pc never returns to 0).
Forked(p) == pc[p] > 0

\* The child has run past the end of sem_player and exit(0).
Exited(p) == pc[p] = Len(Play) + 2

\* waitpid(cpid_p, &status, 0).  For a child's pid it returns when that
\* child has exited, and reaps it, or at once (ECHILD) if it is already
\* reaped.  For the -1 a failed fork left it waits for any child: at
\* once (ECHILD) when none is left to reap, else when one has exited.
Waitpid(p, next) ==
    /\ LET kids == (IF Forked(p) THEN {p} ELSE {c \in Player : Forked(c)}) \ reaped
       IN  \/ kids = {} /\ UNCHANGED reaped
           \/ \E c \in kids : Exited(c) /\ reaped' = reaped \cup {c}
    /\ mpc' = next
    /\ UNCHANGED <<efd, pc, got>>

WaitPoster == mpc = "wait1" /\ Waitpid("poster", "wait2")
WaitWaiter == mpc = "wait2" /\ Waitpid("waiter", "done")

\* xsem_post: write() of the count adds it to the counter.
XsemPost(p) == /\ pc[p] \in 1..Len(Play)
               /\ Play[pc[p]] > 0
               /\ efd' = [efd EXCEPT ![Own(p)] = @ + Play[pc[p]]]
               /\ pc' = [pc EXCEPT ![p] = @ + 1]
               /\ UNCHANGED <<got, mpc, reaped>>

\* Mutant: the eventfd read in counter mode (created without EFD_SEMLIKE).
ReadCountAll(c) == c

\* What read() takes from a non-zero counter c in semaphore mode.
ReadCount(c) == 1

\* xsem_wait: read() blocks while the counter is 0, then takes ReadCount.
XsemWait(p) == /\ pc[p] \in 1..Len(Play)
               /\ Play[pc[p]] = 0
               /\ efd[Other(p)] > 0
               /\ efd' = [efd EXCEPT ![Other(p)] = @ - ReadCount(@)]
               /\ got' = [got EXCEPT ![p] = Append(@, ReadCount(efd[Other(p)]))]
               /\ pc' = [pc EXCEPT ![p] = @ + 1]
               /\ UNCHANGED <<mpc, reaped>>

\* The child returns from sem_player and calls exit(0).
Exit(p) == /\ pc[p] = Len(Play) + 1
           /\ pc' = [pc EXCEPT ![p] = @ + 1]
           /\ UNCHANGED <<efd, got, mpc, reaped>>

\* main has returned; the processes are gone.
Done == mpc \in {"done", "failed"} /\ UNCHANGED vars

Next == \/ Create \/ ForkPoster \/ ForkWaiter \/ WaitPoster \/ WaitWaiter
        \/ \E p \in Player : XsemPost(p) \/ XsemWait(p) \/ Exit(p)
        \/ Done

\* Every process is scheduled: the OS runs a runnable process eventually,
\* and a blocked read stays runnable once its counter is non-zero, since
\* only its reader takes from it.
Fairness == /\ WF_vars(Create \/ ForkPoster \/ ForkWaiter
                       \/ WaitPoster \/ WaitWaiter)
            /\ \A p \in Player : WF_vars(XsemPost(p) \/ XsemWait(p) \/ Exit(p))

Spec == Init /\ [][Next]_vars /\ Fairness

-----------------------------------------------------------------------------

\* A fork failed: main is past both forks and a player never started.
ForkFailed == mpc \in {"wait1", "wait2", "done"} /\ \E p \in Player : ~Forked(p)

\* The program ends when both forks succeed: main's two waitpid calls
\* return, which needs each player's five waits of the last round to find
\* the partner's post of 5 still there one unit at a time (eventfd-sem.c
\* lines 81-88, 119-120).  When one fork fails the other player blocks in
\* xsem_wait for a post that never comes, and main in waitpid with it.
Terminates == <>(mpc \in {"done", "failed"} \/ ForkFailed)
=============================================================================
