SPECIFICATION PureSpec
CONSTANTS
  Keys <- KeySet
  Masters <- OneMaster
  Absent = Absent
  NotObject = NotObject
  Malformed = Malformed
  NoLicenceEnd = 50
  MaxGrace = 4
  MaxAge = 6
  MaxRenewalTime = 1
  ThisMachine = "this"
  Watched <- SmallPairs
  LastTime = 9
  MaxInt = 31
  MaxExact = 16
  Block = 2
  ChecksumLen = 2
  MaxKeyBytes = 3
  KeyData <- SomeKeyData
  Typings <- SomeTypings
  Names <- SomeNames
  Numbers <- SomeNumbers
  EntClaims <- SomeClaims
  Dates <- SomeDates
  Stamps <- SomeStamps
  Shifts <- SomeShifts
  Hosts <- SomeHosts
INVARIANTS
  DailyBound SameInstants Accepted Fresh
  Typos Spellings BadValues Limits Calendar Zones InstallsApart
PROPERTIES Verifying OnlyWorsens
