\* A device without an address.
SPECIFICATION Spec
CONSTANTS
    Nvrams <- SomeNvrams
    Random = 41
    MaxBoots = 4
    FlipTexts <- Word
    FlipWidth = 1
    FlipCharWidth = 1
    MaxFlipDraw = 4
    LineTexts <- Edges
    LineWidth = 3
    LineCharWidth = 2
    MaxLineDraw = 1
    NodeStates <- FewStates
    MaxNodeCalls = 4
    PatternStates <- EdgeStates
    MaxPatternCalls = 1
    Size = 6
    Others = {"a", "b"}
    MaxConfigs = 4
    Calls = {1, 2, 3}
    MaxCallChanges = 8
INVARIANT FallbackUnicast
\* Programs end, and calls end at their bounds.
CHECK_DEADLOCK FALSE
