\* xgsm -m with a Latin-1 character, every other option as in MC_Xgsm.cfg.
CONSTANTS
    Nbrs <- MC_Nbrs
    ScNbrs <- MC_ScNbrs
    Msgs <- MC_Latin1
SPECIFICATION Spec
PROPERTY MainReturns
\* A state where main is stuck short of returning violates MainReturns.
CHECK_DEADLOCK FALSE
