\* One forged reply; UnknownTransIsUnsolicited alone.
CONSTANTS
    t1 = t1
    t2 = t2
    TransIds <- MCTransIds
    AnnouncePorts = {0, 6881, 65535}
    ForeignArgs <- MCForeignArgs
    ForeignRs <- MCForeignRs
    MaxForeign = 1
    TokenLen = 4
SPECIFICATION Spec
CHECK_DEADLOCK FALSE
INVARIANT UnknownTransIsUnsolicited
