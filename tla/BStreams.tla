------------------------------- MODULE BStreams -------------------------------
(***************************************************************************)
(* One connection to each HTTP server: src/thrhttp.c (BStreamLn read by  *)
(* thproc) and src/thrplhttp.c (BStreamCompact read by process_session),  *)
(* the request loops being HttpSession.  One client sends both the same   *)
(* bytes and shuts both down at once, so that what each server makes of   *)
(* the same traffic can be checked side by side.  The servers step        *)
(* independently; a reader steps only while its session is in readln.    *)
(* Both servers run with the same transfer mode, tx (-S or not).          *)
(***************************************************************************)
EXTENDS Naturals, Sequences, SequencesExt

CONSTANTS Byte, NL, MaxBytes, BufSize, Junk,
          CR, CONN, DocOf,
          Scripts   \* what the client may send: every byte sent keeps
                    \* sent a prefix of one of them

VARIABLES sent, fin, tx,
          lsock, lbuf, lridx, lln, llines, lnull,   \* thrhttp's bstream
          lspc, lnseen, ldoc, lcclose, lresp,             \* and its thproc
          csock, cdata, cridx, clines, cnull,       \* thrplhttp's bstream
          cspc, cnseen, cdoc, ccclose, cresp              \* and process_session

L == INSTANCE BStreamLn WITH sock <- lsock, buf <- lbuf, ridx <- lridx,
                              ln <- lln, lines <- llines, null <- lnull
C == INSTANCE BStreamCompact WITH sock <- csock, data <- cdata, ridx <- cridx,
                                   lines <- clines, null <- cnull
LS == INSTANCE HttpSession WITH lines <- llines, null <- lnull, spc <- lspc,
                                nseen <- lnseen, doc <- ldoc, cclose <- lcclose,
                                resp <- lresp, txmode <- tx, MmapExits <- FALSE
CS == INSTANCE HttpSession WITH lines <- clines, null <- cnull, spc <- cspc,
                                nseen <- cnseen, doc <- cdoc, cclose <- ccclose,
                                resp <- cresp, txmode <- tx, MmapExits <- TRUE

lVars == <<lsock, lbuf, lridx, lln, llines, lnull>>
cVars == <<csock, cdata, cridx, clines, cnull>>
lsVars == <<lspc, lnseen, ldoc, lcclose, lresp>>
csVars == <<cspc, cnseen, cdoc, ccclose, cresp>>
vars == <<sent, fin, tx, lVars, cVars, lsVars, csVars>>

\* main: txmode is TX_MMAP, or TX_SENDFILE with -S.
Init == tx \in {"mmap", "sendfile"} /\ L!Init /\ C!Init /\ LS!Init /\ CS!Init

Send(b) ==
    /\ \E s \in Scripts : IsPrefix(Append(sent, b), s)
    /\ L!Send(b) /\ C!Send(b)
    /\ UNCHANGED <<tx, lsVars, csVars>>

Close == L!Close /\ C!Close /\ UNCHANGED <<tx, lsVars, csVars>>

\* A step of thrhttp's readln, called by thproc.
LReader ==
    /\ LS!Reading
    /\ \/ L!LnCopy
       \/ \E k \in 1..BufSize : L!LnRefill(k)
       \/ L!LnEof
    /\ UNCHANGED <<tx, cVars, lsVars, csVars>>

\* A step of thproc on what readln returned.
LSession == LS!Step /\ UNCHANGED <<sent, fin, tx, lVars, cVars, csVars>>

\* A call of thrplhttp's readln, made by process_session.
CReader ==
    /\ CS!Reading
    /\ \/ C!RlBuffered
       \/ \E k \in 1..BufSize : C!RlRefill(k)
       \/ C!RlRecvZero
    /\ UNCHANGED <<tx, lVars, lsVars, csVars>>

\* A step of process_session on what readln returned; after a NULL among
\* the headers it goes on and calls readln again.
CSession ==
    /\ \/ (CS!ReqLine \/ CS!ReqNull \/ CS!HdrLine) /\ UNCHANGED cnull
       \/ CS!HdrNull /\ cnull' = FALSE
    /\ UNCHANGED <<sent, fin, tx, lVars, csock, cdata, cridx, clines, lsVars>>

\* Both sessions are over, or thrplhttp has exited.
Closed == lspc = "done" /\ cspc \in {"done", "exit"} /\ UNCHANGED vars

Next ==
    \/ \E b \in Byte : Send(b)
    \/ Close
    \/ LReader \/ LSession
    \/ CReader \/ CSession
    \/ Closed

Spec == Init /\ [][Next]_vars

\* The same, with thrhttp's recv also failing where it would block.
LRecvError == LS!Reading /\ L!LnRecvError /\ UNCHANGED <<tx, cVars, lsVars, csVars>>
SpecRecvFail == Init /\ [][Next \/ LRecvError]_vars

-----------------------------------------------------------------------------
(* Properties *)

\* thrhttp's bstream_readln implements the line reader.
LImplementsLineReader == L!ImplementsLineReader

LAnswers ==
    LET a == LS!Answers(sent, fin)
    IN  IF lspc = "done" THEN lresp = a ELSE IsPrefix(lresp, a)

\* thrplhttp's process outlives the requests it serves: no request makes
\* process_session's send_url take down the server with every other
\* connection on it.
CServerLives == cspc # "exit"

\* The same of process_session over thrplhttp's readln.
CAnswers ==
    LET a == CS!Answers(sent, fin)
    IN  IF cspc = "done" THEN cresp = a ELSE IsPrefix(cresp, a)
==============================================================================
