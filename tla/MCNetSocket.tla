---------------------------- MODULE MCNetSocket -----------------------------
EXTENDS NetSocket
==============================================================================
