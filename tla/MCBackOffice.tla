---------------------------- MODULE MCBackOffice ----------------------------
EXTENDS BackOffice, TLC

\* The contents, the keys of the desk and the configuration's are one set, which
\* no part tells apart; no more do they the prices.
MCSymmetry == Permutations(Contents) \cup Permutations(Prices)
=============================================================================
