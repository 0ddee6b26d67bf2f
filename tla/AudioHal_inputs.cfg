\* Two inputs, each with its echo canceller, that compete for the device.
SPECIFICATION Spec
CONSTANTS
    None = None
    o1 = o1  o2 = o2  i1 = i1  i2 = i2
    t1 = t1  t2 = t2  t3 = t3
    r1 = r1  r2 = r2
    aec = aec  ns = ns
    Outs = {o1}
    Ins = {i1, i2}
    Threads = {t1, t2}
    Refs = {r1, r2}
    AEC = aec
    Effects = {aec}
    RefCreate <- Always
    RouteSets <- OneRoute
    MicSet <- OneMic
    Sources <- VoiceSource
    ModeSet <- NoCall
    TtySet <- TtyOff
    Volumes <- FullVolume
SYMMETRY StreamSymmetry
INVARIANTS
    LockOrder
    NoEchoLeak
