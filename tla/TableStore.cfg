\* The calls of an environment are bounded: a behaviour may end.
CONSTANTS
  c1 = c1  c2 = c2
  Client <- MCClients
  DistributionKey <- MCDistributionKey  LowerCase <- MCLowerCase
  NumberOf <- MCNumberOf  FlatText <- MCFlatText
  Beginnings <- MCBeginnings  Continued <- MCContinued
  KeyMax = 99  ULongMax = 1000
  Environments <- MCEnvironments
  NoPartition = NoPartition  Rejected = Rejected
  NoTail = NoTail  Nobody = Nobody  Garbled = Garbled
SYMMETRY Interchangeable
CHECK_DEADLOCK FALSE
SPECIFICATION Spec
INVARIANTS TypeOK MemoryIsServed ReplayIsServed RowsUnderTheirKey ColumnListsEnd
PROPERTY ImplementsTable
