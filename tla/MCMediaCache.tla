---------------------------- MODULE MCMediaCache ----------------------------
EXTENDS MediaCache
=============================================================================
