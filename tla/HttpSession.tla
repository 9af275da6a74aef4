----------------------------- MODULE HttpSession -----------------------------
(***************************************************************************)
(* The request loop of one connection: thproc in src/thrhttp.c (lines     *)
(* 318-380), which process_session in src/thrplhttp.c repeats line for    *)
(* line, with send_url and what it calls.  It reads the lines its         *)
(* bstream_readln returns (lines, and null when a call returned NULL),    *)
(* which a reader module supplies.  A line is told apart by its first     *)
(* byte, as the code's strtok_r, strcmp and strncasecmp calls tell it: a  *)
(* byte of DOMAIN DocOf stands for "GET <doc> HTTP/1.1 ", a request whose *)
(* document is of kind DocOf[b]; CONN for "Connection: close"; CR for     *)
(* '\r'.  The client sends no Content-Length or Transfer-Encoding header, *)
(* so clen and chunked stay 0.  A response is its status code, the        *)
(* Content-Length it announces and the body bytes that follow.  send is   *)
(* blocking and the client reads, so bstream_write sends all it is given  *)
(* and a response is one step.                                            *)
(***************************************************************************)
EXTENDS Naturals, Sequences, SequencesExt

CONSTANTS NL, CR, CONN,
          DocOf,      \* request byte -> "mem", "file", "empty", "dir", "none"
          MmapExits   \* mmap_tx maps with xmmap, which exits on failure

VARIABLES txmode,  \* main's: "mmap", or "sendfile" with -S; never changes
          lines,   \* the lines readln returned (the reader's)
          null,    \* readln returned NULL (the reader's)
          spc,     \* "req" (reading the request line), "hdr", "done", or
                   \* "exit" (the process has exited)
          nseen,   \* lines taken from the reader
          doc,     \* the kind of the document requested
          cclose,  \* the connection closes after this request
          resp     \* the responses sent

sVars == <<spc, nseen, doc, cclose, resp>>

Kinds == {"mem", "file", "empty", "dir", "none"}
Resp(code, clen, body) == [code |-> code, clen |-> clen, body |-> body]

TypeOK ==
    /\ txmode \in {"mmap", "sendfile"}
    /\ spc \in {"req", "hdr", "done", "exit"} /\ nseen \in Nat
    /\ doc \in Kinds /\ cclose \in BOOLEAN
    /\ resp \in Seq([code : {200, 400, 404}, clen : Nat, body : Nat])

\* strtok_r finds a method, a document and a version, and the method is
\* GET; the version "HTTP/1.1" leaves cclose 0.
IsRequest(l) == l # <<>> /\ l[1] \in DOMAIN DocOf

\* strcmp(ln, "\r\n") == 0: the empty line that ends the headers.
IsBlank(l) == l = <<CR, NL>>

\* strncasecmp(ln, "Connection:", 11) == 0 and the value is "close".
IsConnClose(l) == l # <<>> /\ l[1] = CONN

\* bstream_open; the session starts reading a request.
Init ==
    /\ spc = "req" /\ nseen = 0 /\ doc = "none" /\ cclose = FALSE /\ resp = <<>>

\* readln is running: the reader may step.
Reading == spc \in {"req", "hdr"} /\ nseen = Len(lines) /\ ~null

\* bad_request: bstream_printf of the 400 response, then break.
BadRequest ==
    /\ resp' = Append(resp, Resp(400, 0, 0))
    /\ spc' = "done"
    /\ UNCHANGED <<doc, cclose>>

\* Mutant: the loop goes on to the next request after Connection: close.
LoopKeepAlive(cc) == spc' = "req" /\ cclose' = cc

\* The test of the do-while loop once send_url has returned, its result
\* ignored: while (!stopsvr && !cclose).
Loop(cc) == spc' = (IF cc THEN "done" ELSE "req") /\ cclose' = cc

\* The st_size of the document, or the N of "/mem-N".
Size(k) == IF k \in {"empty", "none"} THEN 0 ELSE 1

\* mmap of a length of 0 fails with EINVAL, of a directory with ENODEV;
\* sendfile from a directory fails with EINVAL.
TxFails(k) == k = "dir" \/ (txmode = "mmap" /\ Size(k) = 0)

\* send_mem: the 200 header with Content-Length size, then bstream_write
\* of the whole of it.
SendMem(cc) ==
    /\ doc = "mem"
    /\ resp' = Append(resp, Resp(200, Size(doc), Size(doc)))
    /\ Loop(cc)

\* send_doc: open or fstat fails: the 404 response.
SendDocNotFound(cc) ==
    /\ doc = "none"
    /\ resp' = Append(resp, Resp(404, 0, 0))
    /\ Loop(cc)

\* send_doc: the 200 header with Content-Length st_size, then sendfile_tx
\* or mmap_tx; when the transfer fails send_doc returns -1 and no body
\* follows the header.
SendDocSent(cc) ==
    /\ doc \in {"file", "empty", "dir"}
    /\ ~(MmapExits /\ txmode = "mmap" /\ TxFails(doc))
    /\ resp' = Append(resp, Resp(200, Size(doc), IF TxFails(doc) THEN 0 ELSE Size(doc)))
    /\ Loop(cc)

\* thrplhttp's mmap_tx: xmmap fails after the header was sent and calls
\* exit(1); the process ends with every connection it serves.
SendDocExit ==
    /\ doc \in {"file", "empty", "dir"}
    /\ MmapExits /\ txmode = "mmap" /\ TxFails(doc)
    /\ resp' = Append(resp, Resp(200, Size(doc), 0))
    /\ spc' = "exit"
    /\ UNCHANGED cclose

\* send_url: "/mem-" documents go to send_mem, the others to send_doc.
SendUrl(cc) ==
    \/ SendMem(cc)
    \/ SendDocNotFound(cc)
    \/ SendDocSent(cc)
    \/ SendDocExit

\* readln returned the request line.
ReqLine ==
    /\ spc = "req" /\ nseen < Len(lines)
    /\ nseen' = nseen + 1
    /\ IF IsRequest(lines[nseen + 1])
       THEN /\ spc' = "hdr" /\ doc' = DocOf[lines[nseen + 1][1]]
            /\ cclose' = FALSE /\ UNCHANGED resp
       ELSE BadRequest

\* readln returned NULL for the request line: bstream_close.
ReqNull ==
    /\ spc = "req" /\ nseen = Len(lines) /\ null
    /\ spc' = "done"
    /\ UNCHANGED <<nseen, doc, cclose, resp>>

\* readln returned a header line: the empty line ends the headers and the
\* document is sent; a Connection header sets cclose; others are skipped.
HdrLine ==
    /\ spc = "hdr" /\ nseen < Len(lines)
    /\ nseen' = nseen + 1
    /\ LET l == lines[nseen + 1]
       IN  IF IsBlank(l) THEN SendUrl(cclose) /\ UNCHANGED doc
           ELSE /\ cclose' = (cclose \/ IsConnClose(l))
                /\ UNCHANGED <<spc, doc, resp>>

\* readln returned NULL among the headers: the header loop breaks and
\* the document is sent all the same.
HdrNull ==
    /\ spc = "hdr" /\ nseen = Len(lines) /\ null
    /\ SendUrl(cclose)
    /\ UNCHANGED <<nseen, doc>>

Step == ReqLine \/ ReqNull \/ HdrLine \/ HdrNull

-----------------------------------------------------------------------------
(* What an HTTP/1.1 server that serves GET only sends for a sequence of  *)
(* lines: once the headers of a GET end (with an empty line, or with the  *)
(* end of the stream when eof) the document with its length, or 404; 400 *)
(* to any other request line; nothing after a 400 or after a request     *)
(* with Connection: close.                                                *)

Served(k) == IF k = "none" THEN Resp(404, 0, 0) ELSE Resp(200, Size(k), Size(k))

RECURSIVE AnswersReq(_, _), AnswersHdr(_, _, _, _)
AnswersReq(ls, eof) ==
    IF ls = <<>> THEN <<>>
    ELSE IF IsRequest(Head(ls)) THEN AnswersHdr(Tail(ls), DocOf[Head(ls)[1]], FALSE, eof)
    ELSE <<Resp(400, 0, 0)>>
AnswersHdr(ls, k, cc, eof) ==
    IF ls = <<>> THEN (IF eof THEN <<Served(k)>> ELSE <<>>)
    ELSE IF IsBlank(Head(ls))
         THEN <<Served(k)>> \o (IF cc THEN <<>> ELSE AnswersReq(Tail(ls), eof))
    ELSE AnswersHdr(Tail(ls), k, cc \/ IsConnClose(Head(ls)), eof)

\* The lines of a byte stream, each with its '\n', and the unterminated
\* tail as a last line once the stream has ended.
RECURSIVE LinesOf(_, _)
LinesOf(s, eof) ==
    LET e == SelectInSeq(s, LAMBDA b : b = NL)
    IN  IF e > 0 THEN <<SubSeq(s, 1, e)>> \o LinesOf(SubSeq(s, e + 1, Len(s)), eof)
        ELSE IF eof /\ s # <<>> THEN <<s>>
        ELSE <<>>

Answers(sent, eof) == AnswersReq(LinesOf(sent, eof), eof)
==============================================================================
