-------------------------- MODULE MCHostLifecycle --------------------------
\* The runs of HostLifecycle: the application's threads are model values.
EXTENDS HostLifecycle
=============================================================================
