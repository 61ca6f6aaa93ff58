CONSTANTS
  Top = "top"
  Offchain = "offchain"
  Children = {"child"}
  Keys = {"a", "c", "o"}
  MapOf <- MCMapOf
  Written <- MCWritten
  MaxLen = 1
  MaxDepth = 4
  MaxCalls = 2
  MaxOps = 4
  Deleted = Deleted
  Absent = Absent
  NoCache = NoCache
SPECIFICATION Spec
INVARIANTS NoPanic FailureAtomic CacheFresh
 
CHECK_DEADLOCK FALSE
