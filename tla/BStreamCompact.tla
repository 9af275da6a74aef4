---------------------------- MODULE BStreamCompact ----------------------------
(***************************************************************************)
(* The buffered reader of src/thrplhttp.c (struct bstream, lines 244-325) *)
(* as process_session uses it: bstream_readln called until it returns     *)
(* NULL.  Here the buffer is compacted: bcnt counts the unread bytes      *)
(* buf[ridx .. ridx+bcnt-1], a refill moves them to the front and recv    *)
(* appends at most BufSize - bcnt more, and readln returns a pointer into *)
(* the buffer.  data is the sequence of the bcnt unread bytes.  A call of *)
(* bstream_readln is one step (it makes at most one recv).  The socket is *)
(* as in BStreamLn; recv with a length of 0 returns 0 at once.            *)
(***************************************************************************)
EXTENDS Naturals, Sequences, SequencesExt

CONSTANTS Byte, NL, MaxBytes,
          BufSize   \* BSTREAM_BUFSIZE

VARIABLES sent, fin,  \* the client: every byte it sent; shut down
          sock,       \* bytes in the socket, not yet received
          data,       \* buf[ridx .. ridx+bcnt-1]; bcnt = Len(data)
          ridx,       \* bstr->ridx
          lines,      \* the lines readln returned
          null        \* readln returned NULL: process_session closes

vars == <<sent, fin, sock, data, ridx, lines, null>>

TypeOK ==
    /\ sent \in Seq(Byte) /\ fin \in BOOLEAN /\ sock \in Seq(Byte)
    /\ data \in Seq(Byte) /\ ridx \in Nat
    /\ lines \in Seq(Seq(Byte)) /\ null \in BOOLEAN

\* bstream_open
Init ==
    /\ sent = <<>> /\ fin = FALSE /\ sock = <<>>
    /\ data = <<>> /\ ridx = 0
    /\ lines = <<>> /\ null = FALSE

\* The client writes one byte.
Send(b) ==
    /\ ~fin /\ Len(sent) < MaxBytes
    /\ sent' = Append(sent, b) /\ sock' = Append(sock, b)
    /\ UNCHANGED <<fin, data, ridx, lines, null>>

\* The client shuts down its side.
Close ==
    /\ ~fin
    /\ fin' = TRUE
    /\ UNCHANGED <<sent, sock, data, ridx, lines, null>>

Eol(d) == SelectInSeq(d, LAMBDA x : x = NL)

\* The tail of readln once memchr found '\n' in d, read from index r:
\* lsize = eol - (buf + ridx) + 1, *eol = 0, bcnt -= lsize, ridx += lsize.
TakeLine(d, r) ==
    /\ lines' = Append(lines, SubSeq(d, 1, Eol(d)))
    /\ data' = SubSeq(d, Eol(d) + 1, Len(d))
    /\ ridx' = r + Eol(d)

\* readln finds '\n' among the buffered bytes.
RlBuffered ==
    /\ ~null /\ Eol(data) > 0
    /\ TakeLine(data, ridx)
    /\ UNCHANGED <<sent, fin, sock, null>>

RefilRidx == 0

\* No '\n' is buffered: bstream_refil's recv returns k > 0 bytes, then
\* memchr once more.  If they brought no '\n' either, readln returns NULL.
RlRefill(k) ==
    /\ ~null /\ Eol(data) = 0
    /\ k <= Len(sock) /\ k <= BufSize - Len(data)
    /\ sock' = SubSeq(sock, k + 1, Len(sock))
    /\ LET d == data \o SubSeq(sock, 1, k)
       IN  IF Eol(d) > 0
           THEN TakeLine(d, RefilRidx) /\ UNCHANGED null
           ELSE /\ data' = d /\ ridx' = RefilRidx
                /\ null' = TRUE
                /\ UNCHANGED lines
    /\ UNCHANGED <<sent, fin>>

\* No '\n' is buffered and recv returns 0: the client has shut down and
\* everything is received, or the buffer is full (a length of 0).  The
\* refill still rewinds ridx; readln returns NULL.
RlRecvZero ==
    /\ ~null /\ Eol(data) = 0
    /\ \/ sock = <<>> /\ fin
       \/ Len(data) = BufSize
    /\ ridx' = RefilRidx
    /\ null' = TRUE
    /\ UNCHANGED <<sent, fin, sock, data, lines>>

\* process_session has closed the stream and returned.
Closed == null /\ UNCHANGED vars

Next ==
    \/ \E b \in Byte : Send(b)
    \/ Close
    \/ RlBuffered
    \/ \E k \in 1..BufSize : RlRefill(k)
    \/ RlRecvZero
    \/ Closed

Spec == Init /\ [][Next]_vars

-----------------------------------------------------------------------------
(* Properties *)

\* memchr and recv stay inside buf: the unread bytes start at ridx and end
\* before BSTREAM_BUFSIZE after every readln, however lines and refills
\* have fallen.
BufferBounds == ridx + Len(data) <= BufSize

\* bstream_readln implements the line reader (NULL only at end of stream).
LR == INSTANCE LineReader WITH nread <- Len(sent) - Len(sock) - Len(data)
ImplementsLineReader == LR!Spec
==============================================================================
