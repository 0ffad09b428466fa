CONSTANTS
  Family = {"v4"}
  W = 1
  Keys <- MCKeys4
  Immutable <- MCNone
  ConfigNets <- MCNone
  Subjects <- MCSubjectsHostBits
  WlNets <- MCWlNets
  CrdtInputs <- MCNone
  Time = {0, 1, 2}
  Durations = {1, 2}
  MinExt = 1
  MaxWal = 1
  Faults = {"process"}
  Forever = Forever
  NoBan = NoBan
  NoTime = NoTime
  NoCrdt = NoCrdt
  NoNet = NoNet
  NoEntry = NoEntry
SPECIFICATION Spec
INVARIANTS NoProtectedBan
PROPERTIES AdmitNeverShortens NoResurrection
