----------------------------- MODULE MCSpacedesk -----------------------------
EXTENDS Spacedesk

\* Two widths, and heights with and without a remainder, whose first stripes
\* have the same rows.
Modes == {[w |-> 1, h |-> 8], [w |-> 2, h |-> 9]}
=============================================================================
