CONSTANTS
  Family = {"v4", "v6"}
  W = 2
  Keys <- MCKeys
  Instants <- MCTime
  NoBan = NoBan
  Forever = Forever
  Subjects = {"a", "b", "ssh"}
  Ssh = "ssh"
  MaxBans = 1
  MaxFaults = 1
SPECIFICATION MCSpec
INVARIANTS
  CoveringComplete ViewsExact 
PROPERTIES
   UpgradeSettles 
\* clocks, upgrades and imports end
CHECK_DEADLOCK FALSE
