--------------------------- MODULE MCGitFileSystem ---------------------------
EXTENDS GitFileSystem, TLC

CONSTANTS d1, d2, a, b, old, new

MCDirs == {d1, d2}
MCNames == {a, b}
MCContents == {old, new}
MCSymmetry == Permutations(MCDirs) \cup Permutations(MCNames) \cup Permutations(MCContents)
=============================================================================
