\* The replayer's link, its connections, the NDTP server and the ingest queue.
SPECIFICATION FairSpec
INVARIANT RowsAccounted
INVARIANT CutAnywhere
INVARIANT FramesAccounted
PROPERTY ImplementsChannel
PROPERTY EverythingDrains
CONSTANTS
  QueueMax = 2
  MaxRows = 3
  MaxConnects = 2
  IngestMax = 1
  Unread = {0, 8}
  Foreign <- MCForeign
CHECK_DEADLOCK FALSE
