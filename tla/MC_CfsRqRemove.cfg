CONSTANTS
    Task <- MC_Task
    NIL = NIL
    Key <- MC_Key
SPECIFICATION MC_Spec
VIEW MC_View
INVARIANT RedBlack SearchOrder LeftmostCached WalkInOrder ReplaceInPlace
PROPERTY ImplementsPriorityQueue
