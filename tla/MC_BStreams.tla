------------------------------ MODULE MC_BStreams ------------------------------
(* What the client sends, for TLC. *)
EXTENDS BStreams

CONSTANTS GetMem, GetFile, GetEmpty, GetNone  \* request lines for "/mem-1", a
                                              \* file of one byte, an empty
                                              \* file and a missing one

MC_DocOf == (GetMem :> "mem") @@ (GetFile :> "file") @@ (GetEmpty :> "empty")
            @@ (GetNone :> "none")

\* Strings of '\r' and '\n' of up to n bytes.
MC_Words(n) == UNION {[1..k -> {CR, NL}] : k \in 0..n}

\* A request line followed by any four bytes of '\r' and '\n': lines split
\* at every position, lines longer than the buffer, empty lines, the end
\* of the headers and a close mid-line; keep-alive requests for each kind
\* of document; a Connection: close before a second request; a bad
\* request line.
MC_Scripts ==
    {<<GetMem>> \o w : w \in MC_Words(4)}
    \cup {<<GetFile, NL, CR, NL, GetMem, NL, CR, NL>>,
          <<GetNone, NL, CR, NL, GetMem, NL>>,
          <<GetEmpty, NL, CR, NL, GetMem, NL>>,
          <<GetMem, NL, CONN, NL, CR, NL, GetMem, NL>>,
          <<CONN, NL, GetMem, NL>>}
================================================================================
