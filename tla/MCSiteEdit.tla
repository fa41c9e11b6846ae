----------------------------- MODULE MCSiteEdit ------------------------------
EXTENDS SiteEdit

CONSTANTS r1, r2, r3, r4, page, menu, image

\* r1 and r2 edit the same page, which r3 renames; r1 makes a second commit, to the
\* menu; r4 edits an image.
MCRequests == {r1, r2, r3, r4}
MCOpsOf == [r \in MCRequests |-> IF r = r1 THEN 2 ELSE 1]
MCFileOf == [e \in AllEdits |-> IF e[1] = r4 THEN image ELSE IF e[2] = 1 THEN page ELSE menu]

\* r1 and r2 alone, one commit each.
MCTwoEdits == {r1, r2}
MCOneOp == [r \in MCTwoEdits |-> 1]
=============================================================================
