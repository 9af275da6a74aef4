----------------------------- MODULE BStreamWrite -----------------------------
(***************************************************************************)
(* The write side of thrplhttp.c's sessions: bstream_write (lines         *)
(* 326-340), bstream_printf (342-356) and send_mem (441-472).  size_t and  *)
(* long are SizeBits wide; size_t arithmetic is modulo 2^SizeBits, and a  *)
(* size_t added to a long wraps into the long's range.                    *)
(*                                                                         *)
(* What send() does is given as a sequence of outcomes, one per call: k > *)
(* 0 (k bytes taken; the kernel takes at most what was asked) or Fail    *)
(* (-1).  A write's result is a record: ret, what bstream_write returned; *)
(* wire, the positions of the source buffer the calls sent, in order;     *)
(* rest, the outcomes not used.                                           *)
(***************************************************************************)
EXTENDS Integers, Sequences

CONSTANT SizeBits

SizeMax == 2 ^ SizeBits - 1
Wrap(x) == x % 2 ^ SizeBits

\* A size_t converted to long (two's complement).
ToLong(x) == IF x >= 2 ^ (SizeBits - 1) THEN x - 2 ^ SizeBits ELSE x

Fail == -1

\* The positions from a to a + k - 1 of the buffer.
Span(a, k) == [i \in 1..k |-> a + i - 1]

\* bstream_write's loop from cnt, with buf at position cnt: acnt is a
\* size_t, so acnt < 0 never holds; -1 becomes SIZE_MAX, cnt += acnt
\* moves cnt, and buf with it, one byte back, and the loop goes on.  The
\* loop ends when cnt < n fails (a cnt wrapped round to SIZE_MAX ends
\* it).  With no outcome left the write is cut short (the sequences
\* considered are long enough for every loop they start).
RECURSIVE Write(_, _, _, _)
Write(n, cnt, outs, wire) ==
    IF ~(cnt < n) \/ outs = <<>>
    THEN [ret |-> cnt, wire |-> wire, rest |-> outs]
    ELSE IF Head(outs) = Fail
         THEN Write(n, Wrap(cnt + SizeMax), Tail(outs), wire)
         ELSE LET k == IF Head(outs) < n - cnt THEN Head(outs) ELSE n - cnt
              IN  Write(n, cnt + k, Tail(outs), wire \o Span(cnt, k))

BStreamWrite(n, outs) == Write(n, 0, outs, <<>>)

\* bstream_printf: the formatted header of hlen bytes, written whole;
\* xvasprintf exits on failure and is not modelled.
BStreamPrintf(hlen, outs) == BStreamWrite(hlen, outs)

\* send_mem's loop (lines 456-464): chunks of at most mbuf bytes of the
\* document, from position msent on; a result n > 0 is added to msent (as
\* a long), and a result other than the chunk's size ends the loop.  The
\* wire holds document positions.
RECURSIVE MemLoop(_, _, _, _, _)
MemLoop(size, mbuf, msent, outs, wire) ==
    IF ~(msent < size) THEN [msent |-> msent, wire |-> wire]
    ELSE LET csize == IF size - msent > mbuf THEN mbuf ELSE size - msent
             w     == BStreamWrite(csize, outs)
             m     == IF w.ret > 0 THEN ToLong(Wrap(msent + w.ret)) ELSE msent
             sent  == wire \o [i \in DOMAIN w.wire |-> msent + w.wire[i]]
         IN  IF w.ret # csize THEN [msent |-> m, wire |-> sent]
             ELSE MemLoop(size, mbuf, m, w.rest, sent)

\* send_mem: the header, then the body; 0 when msent == size, else -1.
SendMem(hlen, size, mbuf, outs) ==
    LET h == BStreamPrintf(hlen, outs)
        b == MemLoop(size, mbuf, 0, h.rest, <<>>)
    IN  [ret |-> IF b.msent = size THEN 0 ELSE -1,
         header |-> h.wire, body |-> b.wire]
=============================================================================
