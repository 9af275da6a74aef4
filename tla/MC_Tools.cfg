\* A state with no step is a process blocked for ever in read() or
\* waitpid(); the liveness properties below report it, so deadlock is
\* not checked separately.  Returned programs stutter (Done, Gone,
\* Finished, Tested).
SPECIFICATION ToolsSpec
INVARIANT ToolsTypeOK PipeConservation EvConservation ScansAgree JvalInWindow AddrSpecAgrees SigTestsAsExpected MutualExclusion TicketsConsistent
PROPERTY EfdTerminates MainReturns PipeRunsEnd EvRunsEnd LatReturns SigMainEnds AllJoined
CHECK_DEADLOCK FALSE
