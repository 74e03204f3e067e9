----------------------------- MODULE MCLogPager -----------------------------
EXTENDS LogPager, TLC

MCWindows == {Absent, {2, 3}}
Symmetry == Permutations(StatusValues)

\* What is written after the client's last page cannot break PagesFit: it only
\* makes fewer rows steady and more rows left.  The totals do not depend on the client.
UntilLastPage == ~ended
=============================================================================
