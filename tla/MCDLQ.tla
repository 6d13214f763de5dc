------------------------------- MODULE MCDLQ -------------------------------
EXTENDS DLQ
=============================================================================
