SPECIFICATION Spec
CONSTANTS
    nbuf = 6
    HISTSIZE = 2
    MAXARGS = 3
    DIRSIZ = 3
    MaxKeys = 6
    A = A
    B = B
    SP = SP
    Q1 = Q1
    Q2 = Q2
    LEAD = LEAD
    CONT = CONT
    PERIOD = PERIOD
    SLASH = SLASH
    NL = NL
    NUL = NUL
    Chars <- MCChars
    Blanks <- MCBlanks
    Quotes <- MCQuotes
    Conts <- MCConts
    Names <- MCNames
    Commands <- MCCommands
INVARIANTS
    LineSound
    HistorySound
PROPERTIES
    ParsesWords
    CompletesToName
CHECK_DEADLOCK FALSE
