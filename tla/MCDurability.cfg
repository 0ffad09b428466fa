CONSTANTS
  Family = {"v4"}
  W = 1
  Keys <- MCKeys
  Immutable <- MCNone
  ConfigNets <- MCWlNets
  Subjects <- MCOneSubject
  WlNets <- MCWlNets
  CrdtInputs <- MCCrdtInputs
  Time = {0}
  Durations = {}
  MinExt = 1
  MaxWal = 2
  Faults = {"io", "process", "power"}
  Forever = Forever
  NoBan = NoBan
  NoTime = NoTime
  NoCrdt = NoCrdt
  NoNet = NoNet
  NoEntry = NoEntry
SPECIFICATION Spec
PROPERTIES RecoveryExact ImplementsDurableState CrdtRecoveryExact
