SPECIFICATION ValuesSpec
CONSTANTS
    Junk = 0
    MaxLen = 3
    MaxCap = 4
    Ops = {"none"}
    Strings <- MCStrings
    Milli = 3
    PerMilli = 2
    MaxSec = 2
INVARIANTS
    BufferInv
    TimesRight
PROPERTY
    IsByteQueue
