\* The hardware lock is given back, two threads under fairness; references may fail.
SPECIFICATION FairSpec
CONSTANTS
    None = None
    o1 = o1  o2 = o2  i1 = i1  i2 = i2
    t1 = t1  t2 = t2  t3 = t3
    r1 = r1  r2 = r2
    aec = aec  ns = ns
    Outs = {o1}
    Ins = {i1}
    Threads = {t1, t2}
    Refs = {r1, r2}
    AEC = aec
    Effects = {aec}
    RefCreate <- Either
    RouteSets <- OneRoute
    MicSet <- OneMic
    Sources <- VoiceSource
    ModeSet <- CallModes
    TtySet <- TtyOff
    Volumes <- NoVolume
PROPERTY HwReleased
