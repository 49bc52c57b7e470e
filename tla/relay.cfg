\* Both ends of a relay, datagrams of one or two bytes.
CONSTANTS
    BufSize = 2
    MaxLength = 2
    MaxDatagrams = 3
    MaxErrors = 1
SPECIFICATION Spec
INVARIANT StreamKept
PROPERTY EndTogether
CHECK_DEADLOCK FALSE
