----------------------------- MODULE MCCallLog -----------------------------
EXTENDS CallLog
=============================================================================
