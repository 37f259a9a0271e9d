SPECIFICATION Spec
CONSTANTS
  Width = 3
  Height = 2
  YOffset = 1
  InitTable <- SmallTable
  Ticks <- SmallTicks
  TickLimit = 8
  MaxLag = 2
  MaxChunks = 4
  Jobs <- SmallJobs
  MaxSequence = 2
INVARIANTS CompletionMeansDrawn
PROPERTIES PanelProtocol Settles
