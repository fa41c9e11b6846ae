\* Two directories with two names each, two contents, one failure.
CONSTANTS
  d1 = d1
  d2 = d2
  a = a
  b = b
  old = old
  new = new
  Absent = Absent
  Dirs <- MCDirs
  Names <- MCNames
  Contents <- MCContents
  MaxFaults = 1
SPECIFICATION GitSpec
INVARIANTS
  OkCommitsExactlyThat
  ErrorChangesNothing
SYMMETRY MCSymmetry
