\* The requests of MC_Scripts through two-byte buffers; what thrplhttp's
\* session answers against what the client asked.
CONSTANTS
    Byte = {gm, gf, ge, gn, c, r, nl}
    NL = nl
    MaxBytes = 8
    BufSize = 2
    Junk = junk
    CR = r
    GetMem = gm
    GetFile = gf
    GetEmpty = ge
    GetNone = gn
    DocOf <- MC_DocOf
    CONN = c
    Scripts <- MC_Scripts
SPECIFICATION Spec

INVARIANT CAnswers
