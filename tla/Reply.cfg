SPECIFICATION StreamSpec
CONSTANTS
    ScratchMax = 7
    HeadersMax = 3
    Half = 128
    SizeMax = 32
    Digit <- MCDigit
    HeadLine <- MCHeadLine
    Replies <- MCReplies
    Unframed <- MCUnframed
    Parsed <- MCParsed
    Said <- MCSaid
    BufMax = 14
    SinkMax = 2
    ErrorMax = 4
    Budget = 2
    SegMax = 9
INVARIANTS
    ToldWhatArrived
    
    CallsWhole
PROPERTIES
    TailEnds
CHECK_DEADLOCK FALSE
