\* Every kind of stream and effects.
SPECIFICATION FairSpec
CONSTANT Setups <- AllSetups
INVARIANTS TypeOK BuffersFit FramesInOrder NoFrameLost LockStepAligned 
PROPERTY ReadReturns
\* Reads end at the bound maxframe.
CHECK_DEADLOCK FALSE
