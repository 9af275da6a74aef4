--------------------------------- MODULE Xgsm ---------------------------------
(***************************************************************************)
(* main of src/xgsm.c talking to a GSM modem over the serial line.  main  *)
(* flushes the input, then runs a fixed script of AT commands, each sent  *)
(* by xgsm_sendcmd: write it, xgsm_readresp (read until xgsm_eoc sees a   *)
(* final result line), then xgsm_flushin (read until 500 ms pass without  *)
(* data).  The SMS is sent by xgsm_send_sms (PDU mode) or                 *)
(* xgsm_send_txt_sms (-t): AT+CMGS, xgsm_want_reply for the "> " prompt,  *)
(* the data and ^Z, xgsm_readresp.  Replies are ignored; a failed step    *)
(* goes on with the next command.                                         *)
(*                                                                         *)
(* The modem answers each command in full, at once, before the host's    *)
(* timeouts, and sends no unsolicited result codes.  The serial line is a *)
(* sequence of tokens: the bytes "CR" and "LF", and the text of a line:   *)
(* "info", the prompt "> ", the final results "ok" and "error" (ERROR,    *)
(* +CMS ERROR, +CME ERROR, NO CARRIER alike), and "junk", the unread      *)
(* rest of a line whose first bytes were taken.  A result line is         *)
(* "\r\n<text>\r\n" and the prompt "\r\n> ".  A read returns any number  *)
(* of tokens; one that ends inside a line's text leaves xgsm_eoc no CRLF *)
(* at the end, as one ending before the text does.                      *)
(***************************************************************************)
EXTENDS GsmPdu, FiniteSets

CONSTANTS Nbrs,     \* -n
          ScNbrs,   \* -C: [given |-> FALSE, ...] when not given
          Msgs      \* -m

Final == {"ok", "error"}

\* The options main is run with.
Args == [nbr : Nbrs, sc : ScNbrs, msg : Msgs,
         txt : BOOLEAN, verbose : BOOLEAN, mlist : BOOLEAN, mdel : BOOLEAN]

\* The steps of main after the first flush: "atf" is AT&F, "cmgf" is
\* AT+CMGF=txt, "send" is the SMS, "plain" any other command.  ATE0 and
\* AT+CMEE=1, the -v block, AT^SM20 and AT+CSMP (-t), AT+CEER, AT+CMGL
\* (-l) and AT+CMGD (-R) get replies main ignores: the -v block is one
\* "plain" here.
Script(a) ==
    <<"atf", "plain">>
    \o (IF a.verbose THEN <<"plain">> ELSE <<>>)
    \o <<"plain", "cmgf">>
    \o (IF a.txt THEN <<"plain">> ELSE <<>>)
    \o <<"send", "plain">>
    \o (IF a.mlist THEN <<"plain">> ELSE <<>>)
    \o (IF a.mdel THEN <<"plain">> ELSE <<>>)

VARIABLES arg,     \* the options
          hpc,     \* index of main's current step in Script(arg)
          ph,      \* "write", "prompt", "read", "flush", "done", "crash"
          rbuf,    \* the lines xgsm_readresp has read
          hpdu,    \* the hex PDU of xgsm_send_sms
          tx,      \* host to modem: commands and SMS data, in order
          rx,      \* modem to host: tokens not yet read
          pre,     \* what rx held when the reply being read was asked for
          mmode,   \* the modem's AT+CMGF mode: "pdu" or "text"
          minput,  \* what the modem waits for after "> " (mode "none": nothing)
          last,    \* the modem's last reply
          sms      \* what the modem made of each SMS it was given

vars == <<arg, hpc, ph, rbuf, hpdu, tx, rx, pre, mmode, minput, last, sms>>
modem == <<mmode, minput, last, sms>>

TypeOK ==
    /\ arg \in Args /\ hpc \in 0..Len(Script(arg)) + 1
    /\ ph \in {"write", "prompt", "read", "flush", "done", "crash"}
    /\ mmode \in {"pdu", "text"}

Step == Script(arg)[hpc]

NoInput == [mode |-> "none", len |-> 0, da |-> <<>>]

\* The bytes on the line of a reply: each result line framed by CRLF on
\* both sides, the prompt by the CRLF before it.
RECURSIVE Wire(_)
Wire(r) == IF r = <<>> THEN <<>>
           ELSE <<"CR", "LF", Head(r)>>
                \o (IF Head(r) = "prompt" THEN <<>> ELSE <<"CR", "LF">>)
                \o Wire(Tail(r))

\* main after getopt and open: xgsm_flushin(fd, 500) first.  The modem is
\* in whatever AT+CMGF mode it was left in, and the line may still hold
\* output of an earlier session.
Init ==
    /\ arg \in Args
    /\ hpc = 0 /\ ph = "flush" /\ rbuf = <<>> /\ hpdu = <<>>
    /\ tx = <<>> /\ rx \in {<<>>, Wire(<<"info", "ok">>)} /\ pre = <<>>
    /\ mmode \in {"pdu", "text"} /\ minput = NoInput
    /\ last = <<>> /\ sms = <<>>

\* On to main's next step; after the last, close(fd) and return 0.
NextStep ==
    /\ hpc' = hpc + 1
    /\ ph' = IF hpc + 1 > Len(Script(arg)) THEN "done" ELSE "write"

-----------------------------------------------------------------------------
(* main *)

\* xgsm_sendcmd: xgsm_write the command, then xgsm_readresp.
SendCmd ==
    /\ ph = "write" /\ Step # "send"
    /\ tx' = Append(tx, [k |-> "cmd", c |-> Step, v |-> arg.txt])
    /\ ph' = "read" /\ rbuf' = <<>> /\ pre' = rx
    /\ UNCHANGED <<arg, hpc, hpdu, rx, modem>>

\* xgsm_send_sms: build the hex PDU; on NULL it returns at once; then
\* AT+CMGS=<xgsm_CMGS_PDU_length> and wait for the prompt.
SendSms ==
    /\ ph = "write" /\ Step = "send" /\ ~arg.txt
    /\ LET r == CreatePDU(arg.nbr, arg.sc, arg.msg)
           h == HexData(r.pdu)
       IN  CASE r.st = "null"  -> NextStep /\ UNCHANGED <<tx, hpdu>>
             [] r.st = "crash" -> ph' = "crash" /\ UNCHANGED <<hpc, tx, hpdu>>
             [] OTHER ->
                  /\ hpdu' = h
                  /\ tx' = Append(tx, [k |-> "cmd", c |-> "cmgs_pdu", v |-> CMGSPduLength(h)])
                  /\ ph' = "prompt" /\ UNCHANGED hpc
    /\ UNCHANGED <<arg, rbuf, rx, pre, modem>>

\* xgsm_send_txt_sms: AT+CMGS="<nbr>",145, then wait for the prompt.
SendTxtSms ==
    /\ ph = "write" /\ Step = "send" /\ arg.txt
    /\ tx' = Append(tx, [k |-> "cmd", c |-> "cmgs_txt", v |-> arg.nbr])
    /\ ph' = "prompt"
    /\ UNCHANGED <<arg, hpc, rbuf, hpdu, rx, pre, modem>>

\* The prompt xgsm_want_reply waits for.
Prompt == <<"CR", "LF", "prompt">>

\* How many tokens at the head of rx match the prompt.
Matched == LET m == {k \in 0..3 : k <= Len(rx) /\ SubSeq(rx, 1, k) = SubSeq(Prompt, 1, k)}
           IN  CHOOSE k \in m : \A j \in m : j <= k

\* xgsm_want_reply can decide: the whole prompt is there, or a byte that
\* differs from it.
PromptReady == Matched = 3 \/ Matched < Len(rx)

\* xgsm_want_reply(fd, "\r\n> ", 2000) reads the 4 bytes of the prompt
\* and compares them one by one.  On a match the data and ^Z go out and
\* xgsm_readresp follows.  On the first byte that differs it returns 0
\* and the send returns NULL: main goes on with its next step, and the
\* bytes not yet read, the rest of the differing line's text (junk) when
\* the reads stopped inside it, stay on the line.
WantReply ==
    /\ ph = "prompt" /\ PromptReady
    /\ IF Matched = 3
       THEN /\ rx' = SubSeq(rx, 4, Len(rx))
            /\ tx' = Append(tx, [k |-> "data", v |-> IF arg.txt THEN arg.msg ELSE hpdu])
            /\ ph' = "read" /\ rbuf' = <<>> /\ pre' = rx' /\ UNCHANGED hpc
       ELSE /\ LET rest == SubSeq(rx, Matched + 2, Len(rx))
                   cut  == rx[Matched + 1] \notin {"CR", "LF"}
               IN  rx' \in {rest} \cup (IF cut THEN {<<"junk">> \o rest} ELSE {})
            /\ NextStep /\ UNCHANGED <<tx, rbuf, pre>>
    /\ UNCHANGED <<arg, hpdu, modem>>

\* The buffer ends with CRLF, after more than two bytes.
EndsLine(b) == Len(b) > 2 /\ SubSeq(b, Len(b) - 1, Len(b)) = <<"CR", "LF">>

\* The text of the last line: the tokens after the last LF found by the
\* backward scan from the byte before the final CR, if there is one.
LastLine(b) ==
    LET lfs == {i \in 1..Len(b) - 2 : b[i] = "LF"}
    IN  IF lfs = {} THEN <<"none">>
        ELSE LET sol == CHOOSE i \in lfs : \A j \in lfs : j <= i
             IN  SubSeq(b, sol + 1, Len(b) - 2)

\* Mutant: any complete line ends the response.
EocAnyLine(b) == EndsLine(b)

\* Mutant: only OK ends the response, not the error results.
EocOkOnly(b) == EndsLine(b) /\ LastLine(b) = <<"ok">>

\* xgsm_eoc: the buffer ends with CRLF and the line from the previous
\* '\n' is a final result line (strncasecmp of the whole of "\nOK\r\n",
\* "\nERROR\r\n", "\nNO CARRIER\r\n"; of the prefix of the +CMS/+CME ERROR
\* lines); with no '\n' before, it is not.
Eoc(b) == EndsLine(b) /\ \E f \in Final : LastLine(b) = <<f>>

\* One read() of xgsm_readresp: some of the bytes there are (VMIN 1: it
\* blocks until one arrives); the loop ends when xgsm_eoc holds, and
\* xgsm_flushin follows.
ReadResp ==
    /\ ph = "read" /\ rx # <<>>
    /\ \E n \in 1..Len(rx) :
          /\ rbuf' = rbuf \o SubSeq(rx, 1, n)
          /\ rx' = SubSeq(rx, n + 1, Len(rx))
          /\ ph' = IF Eoc(rbuf') THEN "flush" ELSE "read"
    /\ UNCHANGED <<arg, hpc, hpdu, tx, pre, modem>>

\* xgsm_flushin: a read of what has arrived, dropped.
FlushIn ==
    /\ ph = "flush" /\ rx # <<>>
    /\ \E n \in 1..Len(rx) : rx' = SubSeq(rx, n + 1, Len(rx))
    /\ UNCHANGED <<arg, hpc, ph, rbuf, hpdu, tx, pre, modem>>

\* xgsm_flushin: poll times out with nothing to read; main's next step.
FlushDone ==
    /\ ph = "flush" /\ rx = <<>>
    /\ NextStep
    /\ UNCHANGED <<arg, rbuf, hpdu, tx, rx, pre, modem>>

Host == SendCmd \/ SendSms \/ SendTxtSms \/ WantReply \/ ReadResp \/ FlushIn \/ FlushDone

-----------------------------------------------------------------------------
(* The modem (3GPP TS 27.005 / 27.007), answering at once *)

Reply(r) == rx' = rx \o Wire(r) /\ last' = r

\* A command line while no SMS data is awaited.  AT&F restores the
\* factory profile (PDU mode); AT+CMGF sets the mode; AT+CMGS gives the
\* prompt in the matching mode and waits for the data, else ERROR.
ModemCmd ==
    /\ tx # <<>> /\ Head(tx).k = "cmd" /\ minput = NoInput
    /\ tx' = Tail(tx)
    /\ LET m == Head(tx) IN
       CASE m.c = "atf" ->
              Reply(<<"ok">>) /\ mmode' = "pdu" /\ UNCHANGED minput
         [] m.c = "plain" ->
              \E r \in {<<"ok">>, <<"info", "ok">>, <<"error">>} :
                  Reply(r) /\ UNCHANGED <<mmode, minput>>
         [] m.c = "cmgf" ->
              \/ Reply(<<"ok">>) /\ mmode' = (IF m.v THEN "text" ELSE "pdu")
                 /\ UNCHANGED minput
              \/ Reply(<<"error">>) /\ UNCHANGED <<mmode, minput>>
         [] m.c = "cmgs_pdu" /\ mmode = "pdu" ->
              Reply(<<"prompt">>) /\ minput' = [NoInput EXCEPT !.mode = "pdu", !.len = m.v]
              /\ UNCHANGED mmode
         [] m.c = "cmgs_txt" /\ mmode = "text" ->
              Reply(<<"prompt">>) /\ minput' = [NoInput EXCEPT !.mode = "text", !.da = m.v]
              /\ UNCHANGED mmode
         [] OTHER ->
              Reply(<<"error">>) /\ UNCHANGED <<mmode, minput>>
    /\ UNCHANGED <<arg, hpc, ph, rbuf, hpdu, pre, sms>>

\* What the modem makes of the data it was given after the prompt.
Received(d) ==
    IF minput.mode = "text"
    THEN [ok |-> TRUE, da |-> Digits(minput.da), text |-> d]
    ELSE LET r == DecodeSubmit(d, minput.len)
         IN  IF r.ok THEN [ok |-> TRUE, da |-> r.val.da, text |-> r.val.text]
             ELSE [ok |-> FALSE, da |-> <<>>, text |-> <<>>]

\* The data and ^Z: the SMS goes out (+CMGS: <mr>, OK) or the network
\* refuses it (+CMS ERROR); a malformed PDU is refused.
ModemData ==
    /\ tx # <<>> /\ Head(tx).k = "data" /\ minput # NoInput
    /\ tx' = Tail(tx)
    /\ LET got == Received(Head(tx).v) IN
       /\ sms' = Append(sms, got)
       /\ IF got.ok THEN \E r \in {<<"info", "ok">>, <<"error">>} : Reply(r)
                    ELSE Reply(<<"error">>)
    /\ minput' = NoInput
    /\ UNCHANGED <<arg, hpc, ph, rbuf, hpdu, pre, mmode>>

Modem == ModemCmd \/ ModemData

\* main has returned (or died).
Terminated == ph \in {"done", "crash"} /\ UNCHANGED vars

Next == Host \/ Modem \/ Terminated

\* When main can go on: a command or the SMS to write, a flush to finish,
\* a line to read.  HostCanStep is ENABLED Host written out, and
\* ModemCanStep ENABLED Modem (TLC would decode the PDU to find it).
HostCanStep ==
    \/ ph \in {"write", "flush"}
    \/ ph = "prompt" /\ PromptReady
    \/ ph = "read" /\ rx # <<>>
ModemCanStep ==
    /\ tx # <<>>
    /\ Head(tx).k = "cmd" <=> minput = NoInput

\* main runs until it blocks; the modem answers every line it is sent.
\* Weak fairness of Host and of Modem, with those conditions.
Spec ==
    /\ Init /\ [][Next]_vars
    /\ <>[]HostCanStep => []<><<Host>>_vars
    /\ <>[]ModemCanStep => []<><<Modem>>_vars

-----------------------------------------------------------------------------
(* Properties *)

\* Every SMS the modem is handed, in PDU or text mode, is well formed, of
\* the length announced in AT+CMGS, and carries the digits of -n and the
\* characters of -m: xgsm_code_number, xgsm_pack7, xgsm_create_PDU,
\* xgsm_hexdata and xgsm_CMGS_PDU_length agree with TS 23.040.
SmsAsGiven ==
    \A i \in 1..Len(sms) :
        sms[i] = [ok |-> TRUE, da |-> Digits(arg.nbr), text |-> arg.msg]

\* xgsm_readresp returns the whole reply to the command it sent, however
\* the reads cut it: it neither stops at the end of an information line
\* nor runs into a later reply, and what it holds before the reply is
\* only what was left on the line when the command went out (the rest of
\* a line xgsm_want_reply gave up on), which never ends it early.
RespComplete == ph = "flush" /\ hpc > 0 => rbuf = pre \o Wire(last)

\* main returns: every reply is read to its end and every flush ends.
MainReturns == <>(ph = "done")
==============================================================================
