\* A Python thread and host threads, with a fair interpreter lock.
SPECIFICATION FairSpec
CONSTANTS
    Pythons = {p1}
    Hosts = {h1, h2}
    NONE = NONE
CHECK_DEADLOCK FALSE
INVARIANTS CountExact NamesAreGood NoLeak
PROPERTIES AttributesLast MonitorReturns
