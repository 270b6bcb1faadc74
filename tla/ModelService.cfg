CONSTANTS
    m1 = m1
    m2 = m2
    m3 = m3
    None = None
    Managers = {m1, m2, m3}
    Profile <- MCProfile
    Launchable = {m1, m2}
    MaxDeaths = 1
    MaxLaunches = 2
    Workloads <- MCWorkloads
SPECIFICATION Spec
CHECK_DEADLOCK FALSE
INVARIANTS
    OneStarter
    NoAbandonedProcess
