--------------------------- MODULE MCReviewRequest ---------------------------
EXTENDS ReviewDiscussion, TLC

CONSTANTS c1, c2, author, reviewer, editor, t1, t2

MCCalls == {c1, c2}
MCSwapCalls == Permutations(MCCalls)
MCTexts == {t1, t2}
MCSymmetry == MCSwapCalls \cup Permutations(MCTexts)
MCUsers == {author, reviewer, editor}
MCAdmins == {author, reviewer}
=============================================================================
