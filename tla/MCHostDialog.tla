----------------------------- MODULE MCHostDialog -----------------------------
\* The runs of HostDialog.
EXTENDS HostDialog
=============================================================================
