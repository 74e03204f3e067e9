SPECIFICATION PagerSpec
CONSTANTS
  Tables = {"alert_log", "alert_history", "rule_linkage_log", "data_forward_log",
            "device_instance", "devices", "alert_config", "device_model", "rule_linkage", "data_forward"}
  Writers = {w1}
  StatusValues = {s0, s1}
  Absent = Absent
  Windows <- MCWindows
  Limit = 1
  InitRows = 2
  MaxRows = 3
  MaxClock = 4
  MaxChanges = 1
CONSTRAINT UntilLastPage
SYMMETRY Symmetry
INVARIANTS PagerTypeOK PagesFit TotalFitsListing
CHECK_DEADLOCK FALSE
