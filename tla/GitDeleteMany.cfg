\* deleteMultipleFiles compares no hash.
CONSTANTS
  d1 = d1
  d2 = d2
  a = a
  b = b
  old = old
  new = new
  Absent = Absent
  Dirs <- MCDirs
  Names <- MCNames
  Contents <- MCContents
  MaxFaults = 0
SPECIFICATION GitSpec
INVARIANT DeleteManyHashProtects
SYMMETRY MCSymmetry
