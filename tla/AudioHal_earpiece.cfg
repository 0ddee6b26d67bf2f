\* Playback routed to the earpiece outside calls.
SPECIFICATION Spec
CONSTANTS
    None = None
    o1 = o1  o2 = o2  i1 = i1  i2 = i2
    t1 = t1  t2 = t2  t3 = t3
    r1 = r1  r2 = r2
    aec = aec  ns = ns
    Outs = {o1}
    Ins = {i1}
    Threads = {t1}
    Refs = {r1, r2}
    AEC = aec
    Effects = {}
    RefCreate <- Always
    RouteSets <- FourRoutes
    MicSet <- OneMic
    Sources <- VoiceSource
    ModeSet <- CallModes
    TtySet <- TtyOff
    Volumes <- FullVolume
INVARIANT EarpieceRouted
