CONSTANTS
    Capacity = 3
    Discards = FALSE
    MaxReplies = 8
SPECIFICATION ReplySpec
INVARIANT ProcessedInOrder
CHECK_DEADLOCK FALSE
