\* Two service threads, a ring of two fds, three client connections.
CONSTANTS
    NThreads = 2
    QSize = 2
    MaxConns = 3
    ACC = ACC
    NIL = NIL
SPECIFICATION Spec

PROPERTY ShutdownCompletes
