-------------------------------- MODULE MC_Xgsm --------------------------------
(* Inputs of xgsm for TLC, as byte values of the strings. *)
EXTENDS Xgsm

\* "+123", "01", and "1a" (xgsm_code_number refuses it).
MC_Nbrs == {<<43, 49, 50, 51>>, <<48, 49>>, <<49, 97>>}

\* No -C, or -C "+4".
MC_ScNbrs == {[given |-> FALSE, nbr |-> <<>>], [given |-> TRUE, nbr |-> <<43, 52>>]}

\* Prefixes of a nine-character text with varied bit patterns (DEL, ^A,
\* 'U', '*', '@', '~', ^C, '`', ^Q): lengths 0, 1, 7, 8 and 9 reach every
\* shift of xgsm_pack7, the skipped eighth byte and the wrap to a new group.
MC_Text == <<127, 1, 85, 42, 64, 126, 3, 96, 17>>
MC_Msgs == {SubSeq(MC_Text, 1, l) : l \in {0, 1, 7, 8, 9}}

\* "caf\xe9" in Latin-1: its last byte has bit 7 set.
MC_Latin1 == {<<99, 97, 102, 233>>}
================================================================================
