CONSTANT MaxBody = 2
SPECIFICATION HttpFairSpec
CHECK_DEADLOCK FALSE
INVARIANTS NothingLeft
PROPERTIES RefinesRequest Settles
