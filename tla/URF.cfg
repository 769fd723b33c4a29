\* Documents of up to three pages against limits that a stream can meet.
SPECIFICATION Spec
CONSTANTS
  request = request
  translation = translation
  Spans = {request, translation}
  ParentOf <- SpanParent
  NoSpan = NoSpan
  Components = {"scratch", "offsets", "header"}
  MaxInt64 = 1000
  Requests <- SmallRequests
  MaxBytes = 0
  DefaultLimits <- SmallLimits
  RawPages <- SmallPages
  RepeatBytes = {0, 1, 255}
  ControlBytes = {0, 1, 128, 129, 255}
  FileHeaderSize = 2
  PageHeaderSize = 2
  PWGHeaderSize = 6
  CountOffset = 2
  ScratchSize = 2
  PerInch = 2
  MaxUint32 = 12
  MaxUint64 = 16
INVARIANTS
  TypeOK
  WithinLimits
  MarkerMeansComplete
  LeasesMatchSpans
CHECK_DEADLOCK FALSE
