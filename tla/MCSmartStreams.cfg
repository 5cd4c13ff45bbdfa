CONSTANT None = None
SPECIFICATION StreamsSpec
INVARIANT ClientStream
INVARIANT CommandOrder
CHECK_DEADLOCK FALSE
