----------------------------- MODULE MCQuickSort -----------------------------
EXTENDS QuickSort

\* Equal names, a prefix of another, and names that differ late.
FourNames == {<<1>>, <<1, 1>>, <<1, 2>>, <<2>>}
==============================================================================
