------------------------------- MODULE SplitMb -------------------------------
(***************************************************************************)
(* src/splitmb.c lines 45-93: the check that the sender of a "From "      *)
(* line is an RFC 822 address, which decides whether the line starts a   *)
(* new message.  The address is the string sscanf's %255s stored; a       *)
(* character is "a" (is_rfc822_atext: a letter, a digit or one of         *)
(* !#$%&'*+-/=?^_`{|}~), ".", "@", or "x" (anything else).  Positions are *)
(* 1-based: Len(s) + 1 is top, and Null is the NULL pointer.              *)
(***************************************************************************)
EXTENDS Naturals, Sequences

Null == 0

\* for (; str < top && is_rfc822_atext(*str); str++);
RECURSIVE AtextEnd(_, _)
AtextEnd(s, i) == IF i <= Len(s) /\ s[i] = "a" THEN AtextEnd(s, i + 1) ELSE i

\* is_dot_atom: atoms of atext separated by single dots; NULL when an atom
\* is empty, else the position after the last atom.
RECURSIVE IsDotAtom(_, _)
IsDotAtom(s, i) ==
    LET e == AtextEnd(s, i)
    IN  IF e = i THEN Null
        ELSE IF e = Len(s) + 1 \/ s[e] # "." THEN e
        ELSE IsDotAtom(s, e + 1)

\* Mutant: the host accepted wherever its dot-atom ends.
IsValidHostAnyEnd(s, i) == IsDotAtom(s, i) # Null

\* is_valid_host (through parse_hostname): a dot-atom that ends at top.
IsValidHost(s, i) == LET e == IsDotAtom(s, i) IN e # Null /\ e = Len(s) + 1

\* is_valid_addr_spec: a dot-atom, optionally followed by '@' and a host.
IsValidAddrSpec(s) ==
    LET c == IsDotAtom(s, 1)
    IN  /\ c # Null
        /\ \/ c = Len(s) + 1
           \/ s[c] = "@" /\ IsValidHost(s, c + 1)
=============================================================================
