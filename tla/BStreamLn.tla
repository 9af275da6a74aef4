------------------------------ MODULE BStreamLn ------------------------------
(***************************************************************************)
(* The buffered reader of src/thrhttp.c (struct bstream, lines 50-151) as *)
(* thproc uses it: bstream_readln called until it returns NULL.  buf is   *)
(* the bcnt bytes of the last refill, ridx the read index into it, ln the *)
(* line grown by realloc across iterations of the readln loop.  One step  *)
(* of the reader is one iteration of that loop, with the recv of its      *)
(* refill; the step that finds '\n', or a recv of 0, also returns.  The   *)
(* socket is the sequence sock of bytes sent and not yet received; recv   *)
(* returns 1 to BufSize of them, blocks while there are none, and returns *)
(* 0 once the client has shut down its side and all are received.         *)
(***************************************************************************)
EXTENDS Naturals, Sequences, SequencesExt

CONSTANTS Byte, NL, MaxBytes,
          BufSize,  \* BSTREAM_BUFSIZE
          Junk      \* a byte of the memory past buf

VARIABLES sent, fin,  \* the client: every byte it sent; shut down
          sock,       \* bytes in the socket, not yet received
          buf,        \* bstr->buf[0 .. bcnt-1]
          ridx,       \* bstr->ridx
          ln,         \* the line readln is building (<<>>: ln == NULL)
          lines,      \* the lines readln returned
          null        \* readln returned NULL: thproc closes the stream

vars == <<sent, fin, sock, buf, ridx, ln, lines, null>>

TypeOK ==
    /\ sent \in Seq(Byte) /\ fin \in BOOLEAN /\ sock \in Seq(Byte)
    /\ buf \in Seq(Byte) /\ Len(buf) <= BufSize /\ ridx \in 0..Len(buf)
    /\ ln \in Seq(Byte) /\ lines \in Seq(Seq(Byte)) /\ null \in BOOLEAN

\* bstream_open
Init ==
    /\ sent = <<>> /\ fin = FALSE /\ sock = <<>>
    /\ buf = <<>> /\ ridx = 0 /\ ln = <<>>
    /\ lines = <<>> /\ null = FALSE

\* The client writes one byte.
Send(b) ==
    /\ ~fin /\ Len(sent) < MaxBytes
    /\ sent' = Append(sent, b) /\ sock' = Append(sock, b)
    /\ UNCHANGED <<fin, buf, ridx, ln, lines, null>>

\* The client shuts down its side.
Close ==
    /\ ~fin
    /\ fin' = TRUE
    /\ UNCHANGED <<sent, sock, buf, ridx, ln, lines, null>>

\* Mutant: cnt stops before the '\n', which stays in the buffer.
IterateShort(b, r) ==
    LET rest == SubSeq(b, r + 1, Len(b))
        eol  == SelectInSeq(rest, LAMBDA x : x = NL)
        cnt  == IF eol > 0 THEN eol - 1 ELSE Len(rest)
    IN  /\ ridx' = r + cnt
        /\ IF eol > 0
           THEN /\ lines' = Append(lines, ln \o SubSeq(rest, 1, cnt))
                /\ ln' = <<>>
           ELSE /\ ln' = ln \o rest
                /\ UNCHANGED lines

\* The loop body once bytes are buffered: memchr for '\n' in
\* buf[ridx .. bcnt-1], cnt bytes up to and including it (or all of them),
\* realloc and bstream_readsome append them to ln; if '\n' was found the
\* loop ends and readln returns ln.
Iterate(b, r) ==
    LET rest == SubSeq(b, r + 1, Len(b))
        eol  == SelectInSeq(rest, LAMBDA x : x = NL)
        cnt  == IF eol > 0 THEN eol ELSE Len(rest)
    IN  /\ ridx' = r + cnt
        /\ IF eol > 0
           THEN /\ lines' = Append(lines, ln \o SubSeq(rest, 1, cnt))
                /\ ln' = <<>>
           ELSE /\ ln' = ln \o rest
                /\ UNCHANGED lines

\* An iteration with ridx < bcnt: no refill.
LnCopy ==
    /\ ~null /\ ridx < Len(buf)
    /\ Iterate(buf, ridx)
    /\ UNCHANGED <<sent, fin, sock, buf, null>>

\* An iteration with ridx == bcnt: bstream_refil's recv returns k > 0
\* bytes into buf, ridx = 0, then the loop body.
LnRefill(k) ==
    /\ ~null /\ ridx = Len(buf)
    /\ k <= Len(sock)
    /\ buf' = SubSeq(sock, 1, k)
    /\ sock' = SubSeq(sock, k + 1, Len(sock))
    /\ Iterate(SubSeq(sock, 1, k), 0)
    /\ UNCHANGED <<sent, fin, null>>

\* ridx == bcnt and recv returns 0: the loop breaks; readln returns the
\* unterminated ln, or NULL if it is empty.
LnEof ==
    /\ ~null /\ ridx = Len(buf) /\ sock = <<>> /\ fin
    /\ buf' = <<>> /\ ridx' = 0
    /\ IF ln # <<>>
       THEN lines' = Append(lines, ln) /\ ln' = <<>> /\ UNCHANGED null
       ELSE null' = TRUE /\ UNCHANGED <<lines, ln>>
    /\ UNCHANGED <<sent, fin, sock>>

\* ridx == bcnt and recv fails instead: -1 with EINTR when SIGINT interrupts
\* it (main sets siginterrupt(SIGINT, 1)), or ECONNRESET when the client
\* resets.  bstream_refil stores -1 in the size_t bcnt, the test <= 0 is
\* false, and the loop goes on over SIZE_MAX bytes from buf: the bytes of
\* the last refill, still there, then the memory past buf.  Of the outcomes
\* of reading past buf (SIGSEGV, or a '\n' found somewhere) this keeps the
\* second, the bytes before that '\n' being Junk.
LnRecvError ==
    /\ ~null /\ ridx = Len(buf) /\ sock = <<>> /\ ~fin
    /\ buf' = buf \o <<Junk, NL>> /\ ridx' = 0
    /\ UNCHANGED <<sent, fin, sock, ln, lines, null>>

\* thproc has closed the stream and returned.
Closed == null /\ UNCHANGED vars

Next ==
    \/ \E b \in Byte : Send(b)
    \/ Close
    \/ LnCopy
    \/ \E k \in 1..BufSize : LnRefill(k)
    \/ LnEof
    \/ Closed

Spec == Init /\ [][Next]_vars

-----------------------------------------------------------------------------
(* Properties *)

\* bstream_readln implements the line reader: across refills that split
\* lines anywhere, lines longer than the buffer, and the client closing
\* mid-line, the lines returned are the bytes sent, cut after each '\n',
\* and NULL comes only at end of stream.
LR == INSTANCE LineReader
        WITH nread <- Len(sent) - Len(sock) - (Len(buf) - ridx) - Len(ln)
ImplementsLineReader == LR!Spec
==============================================================================
