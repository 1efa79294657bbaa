---------------------------- MODULE MCRRSession ----------------------------
\* Instances of RRSession for TLC: small sets of names and of monitors.
EXTENDS RRSession
=============================================================================
