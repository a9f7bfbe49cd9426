SPECIFICATION StoreSpec
CONSTANTS
  Retention = 1
  SegmentLength = 1
  MaxPts = 5
  MaxCuts = 1
INVARIANT WindowKept SpanBounded
