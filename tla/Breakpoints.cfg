SPECIFICATION MCSpec
CONSTANTS
  Files = {f1}
  Lines = {1, 2, 3, 4}
  AddressOf <- MCAddressOf
  FileAt <- MCFileAt
  Comments = {1, 2}
  Groups = {g1}
  Capacity = 2
  MaxEdits = 3
  AtOnce = 2
  MaxTasks = 3
  MaxFails = 1
  Assertions = {"a"}
  MaxId = 2
  MaxLevel = 2
  MaxRequests = 3
CHECK_DEADLOCK FALSE
INVARIANTS
  RemoteHasTheLists
  NumbersMatch
PROPERTIES
  FileAsGiven
  RequestsEnd
