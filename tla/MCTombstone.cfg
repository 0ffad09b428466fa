CONSTANTS
  Family = {"v4"}
  W = 1
  Keys <- MCKeys
  Immutable <- MCNone
  ConfigNets <- MCNone
  Subjects <- MCOneSubject
  WlNets <- MCWlNets
  CrdtInputs <- MCCrdtInputs
  Time = {0}
  Durations = {}
  MinExt = 1
  MaxWal = 2
  Faults = {}
  Forever = Forever
  NoBan = NoBan
  NoTime = NoTime
  NoCrdt = NoCrdt
  NoNet = NoNet
  NoEntry = NoEntry
SPECIFICATION Spec
PROPERTIES TombstoneSticks
