\* Lines of up to 2 bytes, in every cut of 6 bytes into chunks.
SPECIFICATION ParserSpec
CONSTANTS
    Limit = 3
    MaxIn = 6
    MaxChunk = 3
INVARIANTS ParserTypeOK LinesAsSentUnlessTooLong BytesInOrderUnlessTooLong
\* A socket that was closed is not used again.
CHECK_DEADLOCK FALSE
