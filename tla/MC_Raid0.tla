------------------------------ MODULE MC_Raid0 ------------------------------
EXTENDS Raid0, TLC


=============================================================================
