SPECIFICATION PrintfSpec
CHECK_DEADLOCK FALSE
CONSTANT Formats <- MCFormats
INVARIANT ResultFitsBuffer
