SPECIFICATION InventorySpec
CONSTANTS
  Reports <- MCReports
  InventoryRequests = {"q1"}
  ExportTimes = {}
  MaxStarts = 1
PROPERTY SkipsOnlyUnchanged
CHECK_DEADLOCK FALSE
