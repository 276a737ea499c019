------------------------------ MODULE MCSideFork ------------------------------
\* Instance of SideFork for TLC.
EXTENDS SideFork

Spec == ForkInit /\ [][ForkNext]_forkVars

=============================================================================
