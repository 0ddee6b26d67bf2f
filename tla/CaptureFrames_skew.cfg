\* Effects that consume less than they are given.
SPECIFICATION Spec
CONSTANT Setups <- EffectsSetup
INVARIANT EchoAligned
\* Reads end at the bound maxframe.
CHECK_DEADLOCK FALSE
