SPECIFICATION Spec
CONSTANTS
    Base = 4
    FieldLen = 2
    ChannelByte = 0
    EncoderMax = 5
    DecoderMax = 5
    Lengths <- MCLengths
    MaxFrames = 3
INVARIANTS
    TypeOK
    DecodedIsPrefix
PROPERTIES
    ShorterIsDecoded
CHECK_DEADLOCK FALSE
