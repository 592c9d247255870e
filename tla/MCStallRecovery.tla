--------------------------- MODULE MCStallRecovery ---------------------------
EXTENDS StallRecovery

\* Two segments with a break between them; the first is long enough for the
\* rounds of an alarm though each may take two periods, the second is not.
TwoSegments == {<<1, 8>>, <<9, 11>>}
=============================================================================
