SPECIFICATION RingSpec
CONSTANTS
    ConfiguredSize = 3
    DefaultSize = 2
    Message = {a, b, c, d}
    NoMessage = none
PROPERTY
    KeepsTheMostRecent
