---------------------------- MODULE MCNetServer -----------------------------
EXTENDS NetServer
==============================================================================
