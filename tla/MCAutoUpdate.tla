---------------------------- MODULE MCAutoUpdate ----------------------------
EXTENDS AutoUpdate
=============================================================================
