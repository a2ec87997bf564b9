SPECIFICATION Spec
CONSTANTS
    Timers = {t1, t2}
    t1 = t1
    t2 = t2
    Kinds <- MCKinds
    Intervals <- MCIntervals
    ClockMod = 8
    MaxIdle = 2
    MaxLate = 2
    MaxLag = 1
    Platforms = {"linux", "windows"}
    Grain = 2
INVARIANTS
    NoOversleep
PROPERTIES
    ImplementsAlarms
    ReadyTaskRuns
    AlarmsRing
