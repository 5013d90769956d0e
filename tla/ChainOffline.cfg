SPECIFICATION Spec
CONSTANTS
  Keys <- KeySet
  Masters <- OneMaster
  Absent = Absent
  NoLicenceEnd = 50
  MaxGrace = 4
  MaxAge = 6
  MaxRenewalTime = 1
  ThisMachine = "this"
  Watched <- SmallPairs
  LastTime = 9
PROPERTY OfflineWindow
