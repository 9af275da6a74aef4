\* xgsm with every combination of -t, -v, -l and -R, three recipients
\* (international, national, not a number), with and without -C, and
\* messages of 0 to 9 characters.
CONSTANTS
    Nbrs <- MC_Nbrs
    ScNbrs <- MC_ScNbrs
    Msgs <- MC_Msgs
SPECIFICATION Spec
INVARIANT SmsAsGiven RespComplete
PROPERTY MainReturns
\* Deadlock is not checked apart: a state where main is stuck short of
\* returning violates MainReturns.
CHECK_DEADLOCK FALSE
