\* The requests of MC_Scripts (up to eight bytes of a request line, a
\* Connection: close header, '\r' and '\n') through two-byte buffers.
CONSTANTS
    Byte = {gm, gf, ge, gn, c, r, nl}
    NL = nl
    MaxBytes = 8
    BufSize = 2
    Junk = junk
    CR = r
    GetMem = gm
    GetFile = gf
    GetEmpty = ge
    GetNone = gn
    DocOf <- MC_DocOf
    CONN = c
    Scripts <- MC_Scripts
SPECIFICATION Spec
 
INVARIANT LAnswers
PROPERTY LImplementsLineReader
