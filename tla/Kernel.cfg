SPECIFICATION FairSpec
CONSTANTS
  Lines = {0, 1, 14}
INVARIANTS EntriesReady NestingBounded InServiceHandled
PROPERTIES RequestsServed ScancodesRead
