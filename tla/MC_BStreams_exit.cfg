\* The requests of MC_Scripts, among them a GET of an empty file; whether
\* thrplhttp's process survives them.
CONSTANTS
    Byte = {gm, gf, ge, gn, c, r, nl}
    NL = nl
    MaxBytes = 8
    BufSize = 2
    Junk = junk
    CR = r
    GetMem = gm
    GetFile = gf
    GetEmpty = ge
    GetNone = gn
    DocOf <- MC_DocOf
    CONN = c
    Scripts <- MC_Scripts
SPECIFICATION Spec

INVARIANT CServerLives
