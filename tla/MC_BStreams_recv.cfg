\* The requests of MC_Scripts through two-byte buffers, and thrhttp's
\* recv failing (EINTR on SIGINT, ECONNRESET) while it waits for bytes.
CONSTANTS
    Byte = {gm, gf, ge, gn, c, r, nl}
    NL = nl
    MaxBytes = 8
    BufSize = 2
    Junk = junk
    CR = r
    GetMem = gm
    GetFile = gf
    GetEmpty = ge
    GetNone = gn
    DocOf <- MC_DocOf
    CONN = c
    Scripts <- MC_Scripts
SPECIFICATION SpecRecvFail
PROPERTY LImplementsLineReader
