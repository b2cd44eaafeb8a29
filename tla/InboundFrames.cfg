\* Every frame of up to eleven tokens whose start the scan accepts, every one of
\* up to nine more tokens behind an object at the key cap, frames that
\* arrive whole around each lexeme, key, message and feed line, and every
\* sequence of up to four bytes from the boundaries of the UTF-8 table.  A frame
\* that ended is done.
SPECIFICATION Spec
CONSTANTS
    MaxNestingDepth = 3
    MaxTopLevelKeys = 11
    MaxTokens = 11
    MaxMore = 9
    MaxBytes = 4
    Tokens <- MCTokens
    LongStarts <- MCLongStarts
    WholeFrames <- MCWholeFrames
    Bytes <- MCBytes
INVARIANTS ScanDecidesGrammar TwinAgrees ArmsAgree FeedLineExact Utf8IsScalarValues
CHECK_DEADLOCK FALSE
