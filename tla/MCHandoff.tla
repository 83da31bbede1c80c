---------------------------- MODULE MCHandoff ----------------------------
EXTENDS Handoff
=============================================================================
