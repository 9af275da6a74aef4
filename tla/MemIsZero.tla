------------------------------ MODULE MemIsZero ------------------------------
(***************************************************************************)
(* src/memiszero.c: three ways to tell whether n bytes at address p are   *)
(* all zero.  memiszero_loop tests byte by byte; memiszero (W = 8) and    *)
(* memiszero_32 (W = 4) test the bytes up to the first W-aligned address  *)
(* one at a time, then whole aligned words up to the last aligned address *)
(* t, then the bytes from t to the end.  The two differ only in W, so one *)
(* operator, Scan, stands for both.                                       *)
(*                                                                         *)
(* Memory is a function from addresses to byte values; only zero or not   *)
(* matters, as the code ORs the bytes into z and tests a word against 0.  *)
(* The result is TRUE for the C function's 1 and FALSE for its 0.         *)
(***************************************************************************)
EXTENDS Naturals

\* The OR of the k bytes from address a is non-zero (z |= *p++, k times;
\* or the test of one W-byte word when k = W and a is aligned).
NonZero(mem, a, k) == \E i \in 0..k - 1 : mem[a + i] # 0

\* for (; p < t; p += W) if (*(__uW const *) p) return 0;
RECURSIVE WordLoop(_, _, _, _)
WordLoop(mem, p, t, W) ==
    IF p < t THEN ~NonZero(mem, p, W) /\ WordLoop(mem, p + W, t, W)
    ELSE TRUE

\* Mutant: the tail length taken from n instead of from the end address.
ScanTailFromN(mem, p, n, W) ==
    IF n < W THEN ~NonZero(mem, p, n)
    ELSE LET t    == (p + n) - ((p + n) % W)
             head == (W - (p % W)) % W
         IN  /\ ~NonZero(mem, p, head)
             /\ WordLoop(mem, p + head, t, W)
             /\ ~NonZero(mem, t, n % W)

\* memiszero / memiszero_32.  Below W bytes, only the tail switch runs on
\* the n bytes at p.  Otherwise the head switch falls through from case
\* p & (W-1) and reads the W - (p & (W-1)) bytes up to the aligned address
\* (none when p is aligned), returning 0 if one is set; the word loop runs
\* from there to t = (p + n) & ~(W-1); the tail switch reads the
\* (p + n) & (W-1) bytes from t, with z still holding the head's bytes.
Scan(mem, p, n, W) ==
    IF n < W THEN ~NonZero(mem, p, n)
    ELSE LET t    == (p + n) - ((p + n) % W)
             head == (W - (p % W)) % W
         IN  /\ ~NonZero(mem, p, head)
             /\ WordLoop(mem, p + head, t, W)
             /\ ~NonZero(mem, t, (p + n) % W)

MemIsZero(mem, p, n)   == Scan(mem, p, n, 8)
MemIsZero32(mem, p, n) == Scan(mem, p, n, 4)

\* memiszero_loop: for (t = p + n; p < t; p++) if (*p) return 0; return 1.
MemIsZeroLoop(mem, p, n) == \A a \in p..p + n - 1 : mem[a] = 0
=============================================================================
