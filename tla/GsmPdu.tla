-------------------------------- MODULE GsmPdu --------------------------------
(***************************************************************************)
(* The SMS-SUBMIT encoder of src/xgsm.c (lines 38-229 and 482-489) as     *)
(* operators, and a decoder of SMS-SUBMIT PDUs written from 3GPP TS       *)
(* 23.040 (what the modem does with them) to check them against.  A C     *)
(* string is the sequence of its byte values, without the NUL; a hex      *)
(* string is the sequence of its digit values 0..15.  An operation that   *)
(* returns NULL gives Null, one that succeeds gives Ok(value).            *)
(***************************************************************************)
EXTENDS Integers, Sequences, SequencesExt, Bitwise

Ok(v) == [ok |-> TRUE, val |-> v]
Null  == [ok |-> FALSE, val |-> <<>>]

Chr0    == 48    \* '0'
ChrPlus == 43    \* '+'

IsDigit(c) == c \in Chr0..Chr0 + 9

\* xgsm_code_number: two digits per octet, the first in the low nibble;
\* an odd last digit is padded with 0xf; NULL at the first non digit.
RECURSIVE CodeNumber(_)
CodeNumber(nbr) ==
    IF nbr = <<>> THEN Ok(<<>>)
    ELSE IF ~IsDigit(nbr[1]) THEN Null
    ELSE IF Len(nbr) = 1 THEN Ok(<<(nbr[1] - Chr0) | 240>>)
    ELSE IF ~IsDigit(nbr[2]) THEN Null
    ELSE LET rest == CodeNumber(SubSeq(nbr, 3, Len(nbr)))
         IN  IF rest.ok
             THEN Ok(<<(nbr[1] - Chr0) | ((nbr[2] - Chr0) * 2^4)>> \o rest.val)
             ELSE Null

\* Mutant: the mask keeps s bits of the next byte instead of s + 1.
RECURSIVE Pack7FromMask(_, _)
Pack7FromMask(d, i) ==
    IF i >= Len(d) THEN Ok(<<>>)
    ELSE IF (d[i + 1] & 128) # 0 THEN Null
    ELSE LET s     == i % 8
             next  == IF i + 1 < Len(d) THEN d[i + 2] ELSE 0
             octet == shiftR(d[i + 1], s) | ((next & (2^s - 1)) * 2^(7 - s))
             rest  == Pack7FromMask(d, i + 1)
         IN  IF ~rest.ok THEN Null
             ELSE Ok((IF s < 7 THEN <<octet % 256>> ELSE <<>>) \o rest.val)

\* One iteration of the xgsm_pack7 loop and the rest of it, from C index
\* i: byte i shifted right by s = i % 8, or'ed with the low s + 1 bits of
\* byte i + 1 (the NUL after the last) shifted left by 7 - s; no octet
\* when s = 7.  A byte with bit 7 set makes it return NULL.
RECURSIVE Pack7From(_, _)
Pack7From(d, i) ==
    IF i >= Len(d) THEN Ok(<<>>)
    ELSE IF (d[i + 1] & 128) # 0 THEN Null
    ELSE LET s     == i % 8
             next  == IF i + 1 < Len(d) THEN d[i + 2] ELSE 0
             m     == 2^(s + 1) - 1
             octet == shiftR(d[i + 1], s) | ((next & m) * 2^(7 - s))
             rest  == Pack7From(d, i + 1)
         IN  IF ~rest.ok THEN Null
             ELSE Ok((IF s < 7 THEN <<octet % 256>> ELSE <<>>) \o rest.val)

\* xgsm_pack7
Pack7(d) == Pack7From(d, 0)

\* xgsm_get_vt: minutes to a relative validity period octet.
GetVt(mins) ==
    LET weeks == mins \div (60 * 24 * 7)
        days  == mins \div (60 * 24)
        halfh == mins \div 30
    IN  IF weeks >= 5 THEN 192 + weeks
        ELSE IF days >= 2 THEN 166 + days
        ELSE IF halfh >= (12 * 60) \div 30 THEN 143 + halfh - (12 * 60) \div 30
        ELSE mins \div 5

\* A leading '+' is skipped and makes the type of number 145, else 129.
Plus(s)   == s # <<>> /\ s[1] = ChrPlus
Digits(s) == IF Plus(s) THEN Tail(s) ELSE s
TypeOf(s) == IF Plus(s) THEN 145 ELSE 129

\* The service centre part: 0x00 without -C, else length, type, number.
ScPart(sc) ==
    IF ~sc.given THEN Ok(<<0>>)
    ELSE LET e == CodeNumber(Digits(sc.nbr))
         IN  IF e.ok THEN Ok(<<(1 + Len(e.val)) % 256, TypeOf(sc.nbr)>> \o e.val)
             ELSE Null

\* xgsm_create_PDU.  Its result st is "null" when it returns NULL.  When
\* xgsm_pack7 returns NULL the code goes on and memcpy's size bytes from
\* NULL, size still holding the length of the coded recipient: st is
\* "crash" if that is not 0, else the PDU goes out without user data.
CreatePDU(nbr, sc, msg) ==
    LET scp  == ScPart(sc)
        da   == CodeNumber(Digits(nbr))
        ud   == Pack7(msg)
        head == scp.val \o <<17, 0, Len(Digits(nbr)) % 256, TypeOf(nbr)>> \o da.val
                  \o <<0, 0, GetVt(1 * 60 * 24), Len(msg) % 256>>
    IN  CASE ~scp.ok \/ ~da.ok            -> [st |-> "null", pdu |-> <<>>]
          [] ~ud.ok /\ Len(da.val) > 0    -> [st |-> "crash", pdu |-> <<>>]
          [] OTHER                        -> [st |-> "ok", pdu |-> head \o ud.val]

\* xgsm_hexdata: "%02x" of every octet, as its two digits.
HexData(p) == FlattenSeq([i \in 1..Len(p) |-> <<p[i] \div 16, p[i] % 16>>])

\* xgsm_CMGS_PDU_length: strlen / 2 - l - 1, l the first "%2x" of the
\* string (the service centre part's length).
CMGSPduLength(h) ==
    IF h = <<>> THEN -1
    ELSE (Len(h) \div 2) - (IF Len(h) = 1 THEN h[1] ELSE 16 * h[1] + h[2]) - 1

-----------------------------------------------------------------------------
(* The receiving side, from 3GPP TS 23.040 *)

\* Bits of a septet, or of an octet, least significant first.
BitsOf(c, w) == [j \in 1..w |-> (c \div 2^(j - 1)) % 2]
BitStream(s, w) == FlattenSeq([i \in 1..Len(s) |-> BitsOf(s[i], w)])
ValueOf(b, from, w) ==
    LET RECURSIVE V(_)
        V(j) == IF j > w THEN 0
                ELSE (IF from + j - 1 <= Len(b) THEN b[from + j - 1] ELSE 0) * 2^(j - 1) + V(j + 1)
    IN  V(1)

\* Septets packed into octets: the septets' bits one after the other,
\* cut into octets, the last padded with zeros (TS 23.038 6.1.2.1).
RefPack7(d) ==
    LET b == BitStream(d, 7)
    IN  [k \in 1..(Len(b) + 7) \div 8 |-> ValueOf(b, 8 * (k - 1) + 1, 8)]

\* The first n septets of packed user data.
Unpack7(ud, n) ==
    LET b == BitStream(ud, 8) IN [k \in 1..n |-> ValueOf(b, 7 * (k - 1) + 1, 7)]

\* n semi-octets, low nibble first, as digit characters.
SemiOctets(o, n) ==
    [i \in 1..n |-> Chr0 + (IF i % 2 = 1 THEN o[(i + 1) \div 2] % 16 ELSE o[i \div 2] \div 16)]

\* TP-VP, relative format (TS 23.040 9.2.3.12.1), in minutes.
VpMinutes(vp) ==
    CASE vp <= 143 -> (vp + 1) * 5
      [] vp <= 167 -> 12 * 60 + (vp - 143) * 30
      [] vp <= 196 -> (vp - 166) * 24 * 60
      [] OTHER     -> (vp - 192) * 7 * 24 * 60

\* The octets of a hex string.
Octets(h) == [k \in 1..Len(h) \div 2 |-> 16 * h[2 * k - 1] + h[2 * k]]

\* A modem given AT+CMGS=len and the hex PDU h: the PDU must have an
\* even number of digits and a TPDU of exactly len octets that parses as
\* an SMS-SUBMIT with a relative validity period and 7-bit user data.
DecodeSubmit(h, len) ==
    LET p   == Octets(h)
        t   == SubSeq(p, p[1] + 2, Len(p))
        n   == t[3]
        dal == (n + 1) \div 2
        udl == t[dal + 8]
    IN  IF Len(h) % 2 # 0 \/ p = <<>> \/ Len(t) # len \/ Len(t) < 4
           \/ t[1] % 4 # 1 \/ (t[1] \div 8) % 4 # 2
           \/ Len(t) < dal + 8 \/ Len(t) # dal + 8 + (7 * udl + 7) \div 8
        THEN Null
        ELSE Ok([da   |-> SemiOctets(SubSeq(t, 5, 4 + dal), n),
                 intl |-> t[4] = 145,
                 vp   |-> VpMinutes(t[dal + 7]),
                 text |-> Unpack7(SubSeq(t, dal + 9, Len(t)), udl)])
==============================================================================
