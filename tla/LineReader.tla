------------------------------ MODULE LineReader ------------------------------
(***************************************************************************)
(* What the buffered socket reader of the HTTP servers (bstream_readln in *)
(* src/thrhttp.c and src/thrplhttp.c) promises the request parser: the    *)
(* bytes the client sends come back as lines, each ending with '\n', in   *)
(* order, none lost or repeated.  NULL (the end of the session) comes     *)
(* only when the client has shut its side and no complete line is left;  *)
(* an unterminated tail may then be returned as a last line or dropped.   *)
(* The client sends at most MaxBytes bytes.                               *)
(***************************************************************************)
EXTENDS Naturals, Sequences, SequencesExt

CONSTANTS Byte,      \* the byte values told apart
          NL,        \* '\n'
          MaxBytes   \* bytes the client sends (a bound)

ASSUME NL \in Byte

VARIABLES sent,   \* every byte the client has sent, in order
          fin,    \* the client has shut down its side (recv returns 0)
          nread,  \* bytes handed to the caller inside returned lines
          lines,  \* the lines returned so far
          null    \* bstream_readln has returned NULL

lrVars == <<sent, fin, nread, lines, null>>

\* The bytes sent and not yet returned.
Stream == SubSeq(sent, nread + 1, Len(sent))

HasLine(s) == Contains(s, NL)

\* The first line of s, '\n' included.
FirstLine(s) == SubSeq(s, 1, SelectInSeq(s, LAMBDA b : b = NL))

Init ==
    /\ sent = <<>> /\ fin = FALSE
    /\ nread = 0 /\ lines = <<>> /\ null = FALSE

\* The client writes one byte.
Send(b) ==
    /\ ~fin /\ Len(sent) < MaxBytes
    /\ sent' = Append(sent, b)
    /\ UNCHANGED <<fin, nread, lines, null>>

\* The client shuts down its side.
Close ==
    /\ ~fin
    /\ fin' = TRUE
    /\ UNCHANGED <<sent, nread, lines, null>>

\* The next complete line is returned.
ReadLine ==
    /\ ~null /\ HasLine(Stream)
    /\ lines' = Append(lines, FirstLine(Stream))
    /\ nread' = nread + Len(FirstLine(Stream))
    /\ UNCHANGED <<sent, fin, null>>

\* At end of stream the unterminated tail is returned as a last line.
ReadTail ==
    /\ ~null /\ fin /\ Stream # <<>> /\ ~HasLine(Stream)
    /\ lines' = Append(lines, Stream)
    /\ nread' = Len(sent)
    /\ UNCHANGED <<sent, fin, null>>

\* At end of stream, with no complete line left, NULL is returned.
ReadNull ==
    /\ ~null /\ fin /\ ~HasLine(Stream)
    /\ null' = TRUE
    /\ UNCHANGED <<sent, fin, nread, lines>>

Next ==
    \/ \E b \in Byte : Send(b)
    \/ Close
    \/ ReadLine \/ ReadTail \/ ReadNull

Spec == Init /\ [][Next]_lrVars
==============================================================================
