---------------------------- MODULE MC_RaidTests ----------------------------
EXTENDS RaidTests

\* units[] and ndisks[] of raid0-test, scaled to images of BlkNum blocks:
\* unit 3 leaves a tail block of every image unused, as 7 does with 32.
MCUnits == <<2, 3>>
MCNDisks == <<2, 3>>

=============================================================================
