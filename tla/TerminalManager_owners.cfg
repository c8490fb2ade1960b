\* Two sessions, two shells.
CONSTANTS
    s1 = s1
    s2 = s2
    t1 = t1
    t2 = t2
    Sessions = {s1, s2}
    Terminals = {t1, t2}
    NoSession = NoSession
SPECIFICATION ManagerSpec
SYMMETRY Symmetric
INVARIANTS ShellsEnd AvailableIsOpen
CHECK_DEADLOCK FALSE
