----------------------------- MODULE MCImageJobs -----------------------------
\* Instance of ImageJobs for TLC.
EXTENDS ImageJobs

=============================================================================
